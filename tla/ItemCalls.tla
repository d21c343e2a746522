----------------------------- MODULE ItemCalls -----------------------------
(***************************************************************************)
(* py_nss.c: SecItem, algorithm identifiers and their parameters, public   *)
(* keys, signed data.  Notation: CallSteps.                                *)
(***************************************************************************)
EXTENDS CallSteps

SecItem_new == Allocate
SecItem_dealloc == Clear({"data"}) \o ReturnNone
SecItem_init_from_data == Get("data", {}) \o ReturnNone

SecItem_init ==
  Try({})
    \o Either(Either(Get("binary", {}) \o Get("data", {"binary"})
                       \o Drop({"binary"}),
                     Get("data", {})),
              Null("data"))
    \o ReturnNone

SecItem_der_to_hex == Try({}) \o Try({}) \o Make("result") \o Return("result")

SecItem_format_lines ==
  LET fail == {"obj1", "lines"}
  IN FormatLines(FmtLabel(fail) \o Get("obj1", fail) \o HexLines("obj1", fail))

SecItem_str ==
  Opt(Get("name", {}) \o Make("return_value") \o Drop({"name"})
        \o Return("return_value"))
    \o Make("return_value") \o Return("return_value")

SecItem_richcompare == Try({}) \o ReturnNone
SecItem_subscript == Try({}) \o Get("result", {}) \o Return("result")

SecItem_new_from_SECItem ==
  Opt(Mute({})) \o Get("self", {}) \o Try({"self"}) \o Return("self")
SecItem_new_alloc == Get("self", {}) \o Try({"self"}) \o Return("self")

-----------------------------------------------------------------------------
(* Algorithm parameters.  The list is made after the arena and its failure *)
(* releases nothing; a decoding error sets no exception; the texts are not *)
(* tested for NULL.                                                        *)
Decoded(fail, body) ==
  Get("arena", {}) \o Get("lines", {}) \o Opt(Mute(fail)) \o body
    \o Drop({"arena"}) \o Return("lines")

RSAPSSParams_format_lines ==
  LET fail == {"obj", "obj1", "lines", "arena"}
  IN Decoded(fail,
       MakeFmtClear("obj", fail) \o Make("obj") \o Make("obj1")
         \o FmtObj(fail) \o Clear({"obj"}) \o FmtObj(fail) \o Clear({"obj1"})
         \o MakeFmtClear("obj", fail))

KDF2Params_format_lines ==
  LET fail == {"obj", "lines", "arena"}
  IN Decoded(fail,
       MakeFmtClear("obj", fail) \o MakeFmtClear("obj", fail)
         \o MakeFmtClear("obj", fail) \o MakeCallClear("obj", fail))

PKCS5V2Params_format_lines ==
  LET fail == {"obj", "lines", "arena"}
  IN Decoded(fail, MakeCallClear("obj", fail) \o MakeCallClear("obj", fail))

PBEParams_format_lines ==
  LET fail == {"obj", "lines", "arena"}
  IN Decoded(fail, MakeFmtClear("obj", fail) \o MakeFmtClear("obj", fail))

(* The lines of the parameters and the raw data may be NULL.               *)
AlgorithmID_format_lines ==
  LET fail == {"obj", "lines"}
      params == FmtLabel(fail) \o Make("obj") \o AppendTuples("obj")
  IN FormatLines(MakeFmtClear("obj", fail) \o Opt(params) \o Opt(params)
       \o Opt(Either(Take("hex_lines") \o FmtLabel(fail)
                       \o AppendLines("hex_lines", fail), Raise)))

AlgorithmID_get_pbe_crypto_mechanism ==
  Try({}) \o Opt(Take("params")) \o Try({"params"})
    \o Opt(Get("py_params", {"params"})) \o Clear({"params"}) \o Get("tuple", {})
    \o Opt(Raise) \o Pass("py_params") \o Return("tuple")

AlgorithmID_get_pbe_iv ==
  Try({}) \o Get("iv", {}) \o Make("py_iv") \o Drop({"iv"}) \o Return("py_iv")

AlgorithmID_new_from_SECAlgorithmID ==
  LET undo == {"id", "self"}
  IN Get("self", {}) \o Get("id", {"self"}) \o Part("py_id", undo)
       \o Part("py_parameters", undo) \o Give("id") \o Return("self")

RSAGenParams_set_key_size == SetInteger
RSAGenParams_set_public_exponent == SetInteger

-----------------------------------------------------------------------------
(* DSA parameters.  The three numbers live in the arena of the object.     *)

KEYPQGParams_new == Get("arena", {}) \o ReturnNone
KEYPQGParams_dealloc == Clear({"arena"}) \o ReturnNone

CopyInto(x, U) == Clear({x}) \o Opt(Mute(U)) \o Lend(x)

KEYPQGParams_init_from_SECKEYPQGParams ==
  CopyInto("prime", {}) \o CopyInto("subPrime", {}) \o CopyInto("base", {})
    \o ReturnNone

KEYPQGParams_init ==
  LET param(x) == Opt(Get(x, {}))
      given == {"prime_param", "subprime_param", "base_param"}
  IN param("prime_param") \o param("subprime_param") \o param("base_param")
       \o Either(Raise, CopyInto("prime", given) \o CopyInto("subPrime", given)
                          \o CopyInto("base", given))
       \o Clear(given) \o ReturnNone

KEYPQGParams_new_from_SECKEYPQGParams ==
  Get("self", {}) \o Opt(Mute({"self"})) \o Return("self")

KEYPQGParams_format_lines ==
  LET fail == {"obj", "lines"}
      number == Get("obj", fail) \o SecIntLines("obj", fail)
  IN FormatLines(number \o number \o number)

RSAPublicKey_format_lines ==
  LET fail == {"obj", "lines"}
      number == Get("obj", fail) \o SecIntLines("obj", fail)
  IN FormatLines(number \o number)

RSAPublicKey_new_from_SECKEYRSAPublicKey ==
  Get("self", {}) \o Part("py_modulus", {"self"}) \o Part("py_exponent", {"self"})
    \o Return("self")

DSAPublicKey_format_lines ==
  LET fail == {"obj", "lines"}
  IN FormatLines(Get("obj", fail) \o CallFormatLines(fail) \o Clear({"obj"})
                   \o Get("obj", fail) \o SecIntLines("obj", fail))

DSAPublicKey_new_from_SECKEYDSAPublicKey ==
  Get("self", {})
    \o Either(Part("py_pqg_params", {"self"}), Mute({"self"}))
    \o Part("py_public_value", {"self"}) \o Return("self")

SignedData_format_lines ==
  LET fail == {"obj", "lines"}
  IN FormatLines(GetCallClear("obj", fail) \o FmtLabel(fail) \o Get("obj", fail)
       \o HexLines("obj", fail) \o Make("obj") \o AppendTuples("obj"))

SignedData_new == Get("arena", {}) \o ReturnNone
SignedData_dealloc ==
  Clear({"py_der", "py_data", "py_algorithm", "py_signature"}) \o Drop({"arena"})
    \o ReturnNone

SignedData_new_from_SECItem ==
  LET undo == {"self"}
  IN Get("self", {}) \o Try(undo) \o Part("py_der", undo) \o Part("py_data", undo)
       \o Part("py_algorithm", undo) \o Part("py_signature", undo) \o Return("self")

PublicKey_format_lines ==
  LET fail == {"lines", "obj"}
  IN FormatLines(Either(FmtLabel(fail) \o CallFormatLines(fail),
                        GetFmtClear("obj", fail)))

(* The new object owns pk from the assignment on; the caller is left with  *)
(* a pointer, and destroys the key once more when the object is not made.  *)
PublicKey_new_from_SECKEYPublicKey ==
  Get("self", {}) \o Lend("pk") \o Opt(Part("py_key", {"self"})) \o Return("self")

SubjectPublicKeyInfo_new_from_CERTSubjectPublicKeyInfo ==
  LET undo == {"self"}
  IN Get("self", {}) \o Part("py_algorithm", undo) \o Get("pk", undo)
       \o Either(Take("py_public_key") \o Give("pk"),
                 Raise \o Opt(Give("pk")) \o Drop({"pk", "self"}) \o Reraise)
       \o Give("py_public_key") \o Return("self")

SubjectPublicKeyInfo_format_lines ==
  LET fail == {"lines", "py_public_key"}
  IN FormatLines(GetCallClear("obj", fail) \o Get("py_public_key", fail)
       \o CallFormatLines(fail) \o Clear({"py_public_key"}))

(* A failed copy of a name sets no exception.                              *)
cert_distnames_as_CERTDistNames ==
  LET both == {"py_sec_item", "arena"}
  IN Try({}) \o Get("arena", {}) \o Try({"arena"}) \o Try({"arena"})
       \o Loop(Take("py_sec_item") \o Try(both) \o Opt(Mute(both))
                 \o Drop({"py_sec_item"}))
       \o Return("arena")

(* The functions of this module, by name.                                  *)
ItemBody ==
  [ SecItem_new |-> SecItem_new, SecItem_dealloc |-> SecItem_dealloc,
    SecItem_init_from_data |-> SecItem_init_from_data,
    SecItem_init |-> SecItem_init, SecItem_der_to_hex |-> SecItem_der_to_hex,
    SecItem_format_lines |-> SecItem_format_lines, SecItem_str |-> SecItem_str,
    SecItem_richcompare |-> SecItem_richcompare,
    SecItem_subscript |-> SecItem_subscript,
    SecItem_new_from_SECItem |-> SecItem_new_from_SECItem,
    SecItem_new_alloc |-> SecItem_new_alloc,
    RSAPSSParams_format_lines |-> RSAPSSParams_format_lines,
    KDF2Params_format_lines |-> KDF2Params_format_lines,
    PKCS5V2Params_format_lines |-> PKCS5V2Params_format_lines,
    PBEParams_format_lines |-> PBEParams_format_lines,
    AlgorithmID_format_lines |-> AlgorithmID_format_lines,
    AlgorithmID_get_pbe_crypto_mechanism |-> AlgorithmID_get_pbe_crypto_mechanism,
    AlgorithmID_get_pbe_iv |-> AlgorithmID_get_pbe_iv,
    AlgorithmID_new_from_SECAlgorithmID |-> AlgorithmID_new_from_SECAlgorithmID,
    RSAGenParams_set_key_size |-> RSAGenParams_set_key_size,
    RSAGenParams_set_public_exponent |-> RSAGenParams_set_public_exponent,
    KEYPQGParams_new |-> KEYPQGParams_new,
    KEYPQGParams_dealloc |-> KEYPQGParams_dealloc,
    KEYPQGParams_init_from_SECKEYPQGParams |-> KEYPQGParams_init_from_SECKEYPQGParams,
    KEYPQGParams_init |-> KEYPQGParams_init,
    KEYPQGParams_new_from_SECKEYPQGParams |-> KEYPQGParams_new_from_SECKEYPQGParams,
    KEYPQGParams_format_lines |-> KEYPQGParams_format_lines,
    RSAPublicKey_format_lines |-> RSAPublicKey_format_lines,
    RSAPublicKey_new_from_SECKEYRSAPublicKey |-> RSAPublicKey_new_from_SECKEYRSAPublicKey,
    DSAPublicKey_format_lines |-> DSAPublicKey_format_lines,
    DSAPublicKey_new_from_SECKEYDSAPublicKey |-> DSAPublicKey_new_from_SECKEYDSAPublicKey,
    SignedData_format_lines |-> SignedData_format_lines,
    SignedData_new |-> SignedData_new,
    SignedData_dealloc |-> SignedData_dealloc,
    SignedData_new_from_SECItem |-> SignedData_new_from_SECItem,
    PublicKey_format_lines |-> PublicKey_format_lines,
    PublicKey_new_from_SECKEYPublicKey |-> PublicKey_new_from_SECKEYPublicKey,
    SubjectPublicKeyInfo_new_from_CERTSubjectPublicKeyInfo |-> SubjectPublicKeyInfo_new_from_CERTSubjectPublicKeyInfo,
    SubjectPublicKeyInfo_format_lines |-> SubjectPublicKeyInfo_format_lines,
    cert_distnames_as_CERTDistNames |-> cert_distnames_as_CERTDistNames ]
=============================================================================

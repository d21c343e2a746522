----------------------------- MODULE ErrorCalls -----------------------------
(***************************************************************************)
(* py_nspr_error.c: the exceptions that report a failed call of NSPR or    *)
(* NSS.  Notation: CallSteps.                                              *)
(***************************************************************************)
EXTENDS CallSteps

(* The text of an error: NSPR's own, what the table says, or both.         *)
get_error_desc ==
  Opt(Opt(Take("pr_err_msg"))) \o Opt(Take("final_err_msg")) \o Make("result")
    \o Clear({"final_err_msg", "pr_err_msg"}) \o Return("result")

io_get_nspr_error_string ==
  Try({}) \o Opt(ReturnNone) \o Make("text") \o Return("text")

(* Sets the exception.  The instance stays with the exception and with the *)
(* function, which never gives its own reference back.                     *)
SetError(message) ==
  message \o Make("exception_obj") \o Drop({"kwds"}) \o Raise \o Reraise

set_nspr_error ==
  Opt(Make("error_message")) \o Get("kwds", {})
    \o SetError(Opt(Try({})))

set_cert_verify_error ==
  Opt(Make("error_message")) \o Get("kwds", {})
    \o SetError(Opt(Try({})) \o Make("usages") \o Try({}) \o Opt(Try({})))

init_py_nspr_errors ==
  LET doc == {"py_error_doc"}
  IN Try({}) \o Get("py_error_doc", {})
       \o Loop(Get("error_str", doc) \o Drop({"error_str"}) \o Try(doc))
       \o Return("py_error_doc")

-----------------------------------------------------------------------------
(* NSPRError and CertVerifyError.  The object's own references are kept in *)
(* the fields desc, str and log.                                           *)

(* Both are made by the tp_new of Exception.                               *)
BaseException_new == Allocate

NSPRError_str == Opt(ReturnNone) \o Mute({})

NSPRError_dealloc == Clear({"desc", "str"}) \o ReturnNone

(* The description is owned twice, by the local variable and the field; so *)
(* is the string where it is made from a message.                          *)
Described ==
  Make("error_desc") \o Opt(Make("str_value")) \o Clear({"str"}) \o Take("str")
    \o Clear({"desc"}) \o Take("desc")

NSPRError_init ==
  Opt(Take("error_message")) \o Try({}) \o Described \o Clear({"error_message"})
    \o ReturnNone

CertVerifyError_str ==
  Get("super_str", {}) \o Make("str_value") \o Drop({"super_str"}) \o Return("str_value")

CertVerifyError_dealloc == Clear({"log", "desc", "str"}) \o ReturnNone

CertVerifyError_init ==
  LET message == {"error_message"}
      both == {"error_message", "super_kwds"}
  IN Opt(Take("error_message")) \o Try({}) \o Get("super_kwds", message)
       \o Opt(Try(both)) \o Opt(Make("code") \o Try(both)) \o Opt(Fail(both))
       \o Clear({"str", "desc"}) \o Take("str") \o Take("desc")
       \o Clear({"log"}) \o Opt(Take("log")) \o Clear(message) \o ReturnNone

PyInit_error ==
  Get("m", {}) \o Part("empty_tuple", {}) \o Get("py_error_doc", {})
    \o Get("py_module_doc", {}) \o Drop({"py_error_doc"}) \o Give("py_module_doc")
    \o Loop(Try({})) \o Get("capsule", {}) \o Either(Give("capsule"), Fail({}))
    \o Return("m")

(* The functions of this module, by name.                                  *)
ErrorBody ==
  [ get_error_desc |-> get_error_desc,
    io_get_nspr_error_string |-> io_get_nspr_error_string,
    set_nspr_error |-> set_nspr_error,
    set_cert_verify_error |-> set_cert_verify_error,
    init_py_nspr_errors |-> init_py_nspr_errors,
    BaseException_new |-> BaseException_new, NSPRError_str |-> NSPRError_str,
    NSPRError_dealloc |-> NSPRError_dealloc, NSPRError_init |-> NSPRError_init,
    CertVerifyError_str |-> CertVerifyError_str,
    CertVerifyError_dealloc |-> CertVerifyError_dealloc,
    CertVerifyError_init |-> CertVerifyError_init, PyInit_error |-> PyInit_error ]
=============================================================================

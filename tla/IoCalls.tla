------------------------------ MODULE IoCalls ------------------------------
(***************************************************************************)
(* py_nspr_io.c: network addresses, host entries and sockets, as far as    *)
(* they own something; what Socket reads is SocketReader.                  *)
(* Notation: CallSteps.                                                    *)
(***************************************************************************)
EXTENDS CallSteps

(* Py_BuildValue with "N" takes its arguments, and drops them if it fails. *)
Built(result, parts, U) ==
  Either(GiveAll(parts) \o Take(result),
         Raise \o Drop(parts) \o Clear(U) \o Reraise)

(* ASSIGN_REF: the field x holds the given object instead of its old one.  *)
Remember(x) == Clear({x}) \o Take(x)

-----------------------------------------------------------------------------
(* Network addresses.                                                      *)

NetworkAddress_new     == Allocate
NetworkAddress_dealloc == Clear({"py_hostname", "py_hostentry"}) \o ReturnNone
NetworkAddress_new_from_PRNetAddr == Allocate
NetworkAddress_set_port    == Try({}) \o Try({}) \o Try({}) \o ReturnNone
NetworkAddress_get_address == Try({}) \o Make("text") \o Return("text")

(* Looks the name up, without the GIL, in place of what was there.         *)
LookUp(U) ==
  Clear({"py_hostname", "py_hostentry"}) \o NoGilCall(U)
    \o Take("pr_addrinfo") \o Try(U \cup {"pr_addrinfo"})
    \o Get("py_hostname", U \cup {"pr_addrinfo"}) \o Drop({"pr_addrinfo"})

NetworkAddress_init_from_address_string == LookUp({}) \o ReturnNone

NetworkAddress_set_from_string ==
  Get("addr", {}) \o Try({}) \o LookUp({"addr"}) \o Drop({"addr"}) \o ReturnNone

NetworkAddress_init ==
  LET named == Try({}) \o Get("encoded_addr", {}) \o LookUp({"encoded_addr"})
                 \o Drop({"encoded_addr"})
  IN Try({}) \o Try({}) \o Try({}) \o Clear({"py_hostname", "py_hostentry"})
       \o Try({}) \o Opt(named) \o ReturnNone

NetworkAddress_str ==
  Opt(Make("text") \o Return("text")) \o Try({}) \o Get("unicode_addr", {})
    \o Make("result") \o Drop({"unicode_addr"}) \o Return("result")

-----------------------------------------------------------------------------
(* Address and host information.  The host name that was parsed is never   *)
(* released, and a second __init__ overwrites the fields.                  *)

AddrInfo_new == Allocate
AddrInfo_dealloc ==
  Clear({"pr_addrinfo", "py_hostname", "py_canonical_name", "py_netaddrs"})
    \o ReturnNone

AddrInfo_init ==
  Get("hostname", {}) \o Get("py_hostname", {})
    \o NoGil \o Get("pr_addrinfo", {}) \o Get("py_netaddrs", {})
    \o Loop(Either(Take("py_netaddr") \o Give("py_netaddr"),
                   Clear({"py_netaddrs"}) \o Fail({})))
    \o Get("py_canonical_name", {}) \o ReturnNone

(* addr_str still points to the text that was appended when a later step   *)
(* fails.                                                                  *)
AddrInfo_str ==
  LET fail == {"args", "format", "addr_str", "text"}
  IN Try({}) \o Get("args", fail) \o Get("format", fail) \o Get("text", fail)
       \o Clear({"format", "args"}) \o Get("format", fail)
       \o Loop(Get("args", fail) \o Get("addr_str", fail) \o Drop({"addr_str"})
                 \o Opt(Clear({"text"}) \o Fail(fail)) \o Clear({"args"}))
       \o Drop({"format"}) \o Return("text")

HostEntry_new     == Allocate
HostEntry_dealloc == Clear({"py_aliases", "py_netaddrs"}) \o ReturnNone

HostEntry_init ==
  LET encoded == {"encoded_addr"}
      item(x, tuple) == Either(Take(x) \o Give(x), Clear({tuple}) \o Fail({}))
  IN Try({})
       \o Either(Get("encoded_addr", {}) \o NoGilCall(encoded) \o Drop(encoded),
                 Either(NoGilCall({}), Fail({})))
       \o Get("py_aliases", {}) \o Loop(item("py_alias", "py_aliases"))
       \o Get("py_netaddrs", {}) \o Loop(item("py_netaddr", "py_netaddrs"))
       \o ReturnNone

(* Py_BuildValue refuses a NULL among the objects it is given.             *)
HostEntry_str ==
  LET exit == {"aliases", "addrs", "args", "format"}
      null(x, rest) == Opt(Null(x) \o Raise \o rest \o Fail(exit))
  IN null("aliases", Make("addrs")) \o Take("aliases")
       \o null("addrs", <<>>) \o Take("addrs")
       \o Get("args", exit) \o Get("format", exit)
       \o Make("text") \o Clear(exit) \o Return("text")

(* Mutant: the new object is forgotten when the lookup fails.              *)
HostEntryForgotten == Get("self", {}) \o NoGilCall({}) \o Return("self")

HostEntry_new_from_PRNetAddr ==
  Get("self", {}) \o NoGilCall({"self"}) \o Return("self")

HostEntry_get_network_addresses ==
  Try({}) \o Try({}) \o Opt(ReturnNone) \o Take("netaddrs") \o Return("netaddrs")

(* The address belongs to the tuple it was taken from.                     *)
HostEntry_get_network_address ==
  Try({}) \o Try({}) \o Opt(ReturnNone)
    \o Either(Lend("netaddr"), Fail({})) \o Return("netaddr")

-----------------------------------------------------------------------------
(* Sockets: the NSPR socket, the address it talks to and the readahead     *)
(* buffer.  The destructor does not close the socket.                      *)

Socket_new     == Allocate
Socket_dealloc == Clear({"py_netaddr", "readahead"}) \o ReturnNone

OpenSocket ==
  Try({}) \o Either(Try({}), Try({})) \o Allow \o Block \o Clear({"pr_socket"})
    \o Either(Try({}), Fail({})) \o Take("pr_socket")

Socket_init == OpenSocket \o ReturnNone

Socket_connect ==
  Try({}) \o Try({}) \o Remember("py_netaddr") \o NoGilCall({}) \o ReturnNone
Socket_bind == Socket_connect

(* Mutant: a failed PR_Listen is not turned into an exception.             *)
ListenFailsMutely ==
  Try({}) \o Allow \o Opt(Block \o Mute({})) \o Block \o ReturnNone

Socket_listen   == Try({}) \o NoGilCall({}) \o ReturnNone
Socket_shutdown == Socket_listen

(* Mutant: a failed PR_Close is reported without the GIL.                  *)
CloseFailsOutsideGil ==
  Opt(ReturnNone) \o Allow \o Opt(Clear({"pr_socket"}) \o Fail({}))
    \o Block \o Clear({"pr_socket"}) \o ReturnNone

Socket_close ==
  Opt(ReturnNone) \o Allow \o Opt(Block \o Clear({"pr_socket"}) \o Fail({}))
    \o Block \o Clear({"pr_socket"}) \o ReturnNone

(* The accepted socket is not closed when an object cannot be made.        *)
Socket_accept ==
  LET error == {"py_socket", "py_netaddr"}
  IN Try({}) \o NoGilCall({}) \o Take("accepted")
       \o Get("py_netaddr", error)
       \o Either(Give("accepted") \o Take("py_socket"), Fail(error))
       \o Built("return_values", error, error) \o Return("return_values")

Socket_accept_read ==
  LET error == {"py_buf", "py_socket", "py_netaddr"}
      resized == Opt(Clear({"py_buf"}) \o Fail(error))
  IN Try({}) \o Get("py_buf", {}) \o NoGil \o Try(error) \o Take("accepted")
       \o resized \o Get("py_netaddr", error)
       \o Either(Give("accepted") \o Take("py_socket"), Fail(error))
       \o Built("return_values", error, error) \o Return("return_values")

Socket_recv_from ==
  Try({}) \o Try({}) \o Try({}) \o Remember("py_netaddr") \o Get("py_buf", {}) \o NoGil
    \o Try({"py_buf"}) \o Opt(Try({"py_buf"})) \o Return("py_buf")

Socket_read ==
  LET lost_buffer == Null("readahead") \o Fail({})
      grow == Either(Clear({"readahead"}) \o Take("readahead"), lost_buffer)
      check == Opt(Clear({"readahead"}) \o Fail({}))
  IN Try({}) \o Try({}) \o Opt(Make("data") \o Return("data"))
       \o Loop(Opt(grow) \o NoGil \o check \o check)
       \o Get("py_buf", {}) \o Clear({"readahead"}) \o Return("py_buf")

(* No line, and no exception, is the end of the iteration.                 *)
Socket_iternext ==
  Get("line", {}) \o Opt(Mute({"line"})) \o Return("line")

Socket_send    == Try({}) \o NoGil \o Try({}) \o Make("amount") \o Return("amount")
Socket_sendall == Socket_send
Socket_send_to ==
  Try({}) \o Try({}) \o Remember("py_netaddr") \o NoGil \o Try({}) \o Make("amount")
    \o Return("amount")

Socket_get_sock_name == NoGilCall({}) \o Make("py_addr") \o Return("py_addr")

(* Mutant: the address is made and not returned.                           *)
PeerNameNotReturned == Try({}) \o Make("py_addr")

Socket_get_peer_name == Try({}) \o Make("py_addr") \o Return("py_addr")
Socket_fileno        == Try({}) \o Make("fd") \o Return("fd")
Socket_get_desc_type == Try({}) \o Make("type") \o Return("type")

Socket_set_socket_option ==
  Try({}) \o Try({}) \o Try({}) \o Try({}) \o ReturnNone

Socket_get_socket_option ==
  LET pair == Get("mcaddr", {}) \o Get("ifaddr", {"mcaddr"})
                \o Built("result", {"mcaddr", "ifaddr"}, {})
  IN Try({}) \o Try({})
       \o Either(pair, Either(Make("result"), Fail({}))) \o Return("result")

(* A socket object does not close its socket when it is dropped.           *)
Socket_new_tcp_pair ==
  LET objects == {"py_sock0", "py_sock1"}
      close(X) == Allow \o Block \o Fail(X)
      wrap(py, sock, open) == Either(Give(sock) \o Take(py), close(open))
  IN NoGilCall({}) \o Take("socks[0]") \o Take("socks[1]")
       \o Try({"socks[0]", "socks[1]"})
       \o wrap("py_sock0", "socks[0]", {"socks[0]", "socks[1]"})
       \o wrap("py_sock1", "socks[1]", {"socks[1]", "py_sock0"})
       \o Built("return_value", objects, objects) \o Return("return_value")

Socket_poll ==
  LET err == {"descs", "py_desc", "obj", "return_value"}
  IN Try({}) \o Try({}) \o Get("descs", {})
       \o Loop(Get("py_desc", err) \o Get("obj", err) \o Try(err) \o Clear({"obj"})
                 \o Get("obj", err) \o Try(err) \o Clear({"obj"}) \o Try(err)
                 \o Clear({"py_desc"}))
       \o NoGilCall(err) \o Get("return_value", err) \o Drop({"descs"})
       \o Return("return_value")

Socket_import_tcp_socket ==
  Try({}) \o Get("sock", {}) \o NoGilCall({"sock"})
    \o Opt(Fail({"sock"})) \o Give("sock") \o Take("self") \o Return("self")

Socket_str ==
  Get("args", {}) \o Get("format", {"args"}) \o Make("text")
    \o Drop({"args", "format"}) \o Return("text")

-----------------------------------------------------------------------------
(* Functions of the module.                                                *)

io_get_proto_by_name == Try({}) \o NoGilCall({}) \o Make("number") \o Return("number")

io_get_proto_by_number ==
  LET aliases == {"alias_tuple"}
  IN Try({}) \o NoGilCall({}) \o Get("alias_tuple", {})
       \o Loop(Part("alias", aliases)) \o Built("return_values", aliases, aliases)
       \o Return("return_values")

-----------------------------------------------------------------------------
(* The initialisation of an extension module: its types, the API it        *)
(* exports to the other modules and its tables of names.  The module       *)
(* object is not released when a step fails.                               *)
InitModule(values, tables) ==
  Get("m", {}) \o values \o Loop(Try({})) \o Get("capsule", {})
    \o Either(Give("capsule"), Fail({})) \o tables \o Loop(Try({})) \o Return("m")

PyInit_io == Try({}) \o InitModule(<<>>, <<>>)

(* The functions of this module, by name.                                  *)
IoBody ==
  [ NetworkAddress_new |-> NetworkAddress_new,
    NetworkAddress_dealloc |-> NetworkAddress_dealloc,
    NetworkAddress_new_from_PRNetAddr |-> NetworkAddress_new_from_PRNetAddr,
    NetworkAddress_set_port |-> NetworkAddress_set_port,
    NetworkAddress_get_address |-> NetworkAddress_get_address,
    NetworkAddress_init_from_address_string |-> NetworkAddress_init_from_address_string,
    NetworkAddress_set_from_string |-> NetworkAddress_set_from_string,
    NetworkAddress_init |-> NetworkAddress_init,
    NetworkAddress_str |-> NetworkAddress_str, AddrInfo_new |-> AddrInfo_new,
    AddrInfo_dealloc |-> AddrInfo_dealloc, AddrInfo_init |-> AddrInfo_init,
    AddrInfo_str |-> AddrInfo_str, HostEntry_new |-> HostEntry_new,
    HostEntry_dealloc |-> HostEntry_dealloc, HostEntry_init |-> HostEntry_init,
    HostEntry_str |-> HostEntry_str,
    HostEntry_new_from_PRNetAddr |-> HostEntry_new_from_PRNetAddr,
    HostEntry_get_network_addresses |-> HostEntry_get_network_addresses,
    HostEntry_get_network_address |-> HostEntry_get_network_address,
    Socket_new |-> Socket_new, Socket_dealloc |-> Socket_dealloc,
    Socket_init |-> Socket_init, Socket_connect |-> Socket_connect,
    Socket_bind |-> Socket_bind, Socket_listen |-> Socket_listen,
    Socket_shutdown |-> Socket_shutdown, Socket_close |-> Socket_close,
    Socket_accept |-> Socket_accept, Socket_accept_read |-> Socket_accept_read,
    Socket_recv_from |-> Socket_recv_from, Socket_read |-> Socket_read,
    Socket_iternext |-> Socket_iternext, Socket_send |-> Socket_send,
    Socket_sendall |-> Socket_sendall, Socket_send_to |-> Socket_send_to,
    Socket_get_sock_name |-> Socket_get_sock_name,
    Socket_get_peer_name |-> Socket_get_peer_name,
    Socket_fileno |-> Socket_fileno,
    Socket_get_desc_type |-> Socket_get_desc_type,
    Socket_set_socket_option |-> Socket_set_socket_option,
    Socket_get_socket_option |-> Socket_get_socket_option,
    Socket_new_tcp_pair |-> Socket_new_tcp_pair, Socket_poll |-> Socket_poll,
    Socket_import_tcp_socket |-> Socket_import_tcp_socket,
    Socket_str |-> Socket_str, io_get_proto_by_name |-> io_get_proto_by_name,
    io_get_proto_by_number |-> io_get_proto_by_number, PyInit_io |-> PyInit_io ]
=============================================================================

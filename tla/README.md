# Verification of python-nss-ng

TLA+ specifications of the parts of python-nss-ng whose correctness depends on
the order in which things happen, model-checked with TLC and, for the safety
part, proved with TLAPS. Paths below are relative to the repository.

- [Inventory of the system](#inventory)
- [Modules and how they correspond to the code](#modules)
- [Runs](#runs), [bounds](#bounds), [fairness](#fairness)
- [What the code does against its documents](#divergences) and
  [what the models take over as they found it](#known-deviations)
- [Proofs](#proofs)
- [Plan](#plan) and [what is not modelled](#not-modelled)

## Inventory

python-nss-ng is a set of CPython extension modules over NSS and NSPR
(`src/py_nss.c`, `src/py_ssl.c`, `src/py_nspr_io.c`, `src/py_nspr_error.c`) and
some Python helpers. Most of the code wraps one C structure in one Python type.
The state that outlives a call, and the steps that other actors can interleave
with, are in few places; what the other functions have in common is that each of
them acquires references, NSS objects, buffers and the GIL, can fail at many
points, and must give everything back by hand on each way out:

| Component | State | Operations | Interacts with | Hard part | What makes it correct |
|---|---|---|---|---|---|
| NSS lifecycle (`py_nss.c`) | NSS's initialised flag, its list of contexts, its list of shutdown functions; `InitContext.context`; the thread local `shutdown_callback` and `shutdown_callback_args` | `nss_init*`, `nss_initialize`, `nss_shutdown`, `nss_init_context`, `nss_shutdown_context`, `InitContext.shutdown`, its destructor, `set_shutdown_callback` | the GIL, NSS's initialisation lock, callbacks from NSS into Python | two locks taken in two orders, per-thread callbacks in a process-wide list, raw pointers kept by both sides | locks are balanced, shutdown always completes, no context is leaked or shut down by a stranger, no entry of the list dangles |
| Context managers (`nss_context.py`) | `_initialized` | `__enter__`, `__exit__` | NSS lifecycle, the password callback | nesting, managers shared by threads, failing shutdown, interrupts | a block that overlaps no other has NSS; after the last exit NSS is down |
| Socket reading (`py_nspr_io.c`) | `readahead` (buf, len, alloc_len), `pr_socket`, `makefile_refs` | `readline`, `readlines`, iteration, `recv`, `read`, `close`, `makefile`, `__init__` | NSPR, the peer | one buffer shared by five calls; short reads, errors, end of file in the middle; boundaries that coincide | the calls hand out the stream once and in order, and end |
| Socket descriptors | `pr_socket`, options, `py_netaddr` | `bind`, `listen`, `accept`, `send*`, `poll`, options | NSPR, other threads | a descriptor closed while another thread uses it | no use after close |
| SSL sockets (`py_ssl.c`) | callbacks and their data, PIN arguments; NSS's pointers to them, per descriptor | `__init__`, hook setters, `set_pkcs11_pin_arg`, `accept`, `force_handshake`, `rehandshake`, `reset_handshake`, their `_timeout` forms, the three hooks | NSS calls back with a borrowed object | lifetime of the object against the descriptor; inheritance on accept; setters interrupted by other threads | a hook's object is alive when the hook runs, gets its own data unless setters overlap it, and its refusal counts |
| Password callback, tokens | process-wide password function, thread local callback | `set_password_callback`, `PK11_password_callback` | NSS calls back, also in a handshake | process-wide against per-thread | a handshake that needs a password ends, callback or not |
| PKCS #12 | decoder context, nickname callback | import, export | NSS calls back | early returns from the callback | GIL balance, all or nothing import |
| Names and lists (AVA, RDN, DN, GeneralName, SecItem) | an arena each, from `tp_new` to `tp_dealloc` | parse, index, copy, compare, format | - | circular lists copied by hand, indexes at the boundaries, failure in the middle of a copy | what a failed copy acquired is given back; the copy equals the original |
| Certificates, CRLs, extensions, PK11 objects, InitParameters, verification log | one NSS object, arena or set of fields each | create, decode, format, one NSS call each | NSS | several hundred hand-written error paths, `__init__` run twice | everything acquired is released once on every path |
| Error table (`py_nspr_error.c`) | sorted table | lookup by bisection | all | bounds of the bisection | finds every code |
| `secure_logging.py`, `deprecations.py` | tables | redaction, warnings | - | - | nothing sensitive gets out |

`PROJECT.json` lists every component with its status, and every hazard found
with the line where it bites and the properties that cover it.

## Modules

| Modules | What they model |
|---|---|
| `NssInit` | external: NSS's initialised flag, contexts, shutdown list and lock |
| `NssLifecycle`, `NssLifecycleProofs`, `MCNssLifecycle` | the C functions that initialise and shut down NSS, with the GIL; implements `NssLifetime` |
| `NssLifetime`, `NssLifetimeProofs` | abstract: what those functions promise about the lifetime of NSS; the proof of the refinement |
| `NssContexts`, `NssContextsProofs` | the context managers over `NssInit` |
| `ByteStream` | abstract: what reading from a Socket promises |
| `SocketReader`, `SocketReaderProofs` | the readahead buffer, the reading calls, `close`, `__init__`; implements `ByteStream` |
| `SslHooks`, `SslHooksProofs`, `MCSslHooks` | hooks, PIN arguments, password function, accept and handshake |
| `CallSteps`, `CallPaths`, `CallPathsProofs`, `MCCallPaths` | a function as the sequence of its steps, and the machine that runs such sequences through every failure |
| `CallDiscipline`, `CallDisciplineProofs` | what can be read off the text of a function, variable by variable, and the proof that it is enough |
| `TextCalls`, `ItemCalls`, `CertificateCalls`, `NameCalls`, `Pk11Calls`, `ExtensionCalls`, `InitCalls`, `ModuleCalls` | the functions of `py_nss.c` as such sequences |
| `IoCalls`, `SslCalls`, `ErrorCalls` | the same for `py_nspr_io.c`, `py_ssl.c`, `py_nspr_error.c` |

### NssInit

External: NSS is not part of the repository. The module says what the callers in
`py_nss.c` depend on and no more: the lock, the flag of the traditional
initialisation, the list of contexts, and the shutdown list. Assumptions about
NSS that matter:

- one non-recursive lock guards all of this, and `nss_Shutdown` keeps it while
  it runs the registered functions;
- `NSS_Shutdown` answers only to a traditional initialisation, but resets
  the list of contexts too; `NSS_ShutdownContext` looks the address up in the
  list, fails when it is not there, and shuts NSS down when that was the last
  user;
- an entry of the shutdown list is identified by function and argument. The
  bindings register one function, so an entry is its argument. Slots of the
  list are reused, so the model promises no order.

### NssLifecycle

The C entry points, one thread per call, several threads. The variables and what
they stand for:

| Variable | Code |
|---|---|
| `gil` | the thread that holds CPython's GIL |
| `pc`, `op` | how far a thread got in which function; `entry` is the point just before the NSS call, `ensure`/`callback`/`finish` are inside `nss_Shutdown`, `return` is after it |
| `self`, `target` | the `InitContext` argument and the pointer passed to `NSS_ShutdownContext`, read before the GIL is dropped |
| `newArgs` | `new_callback_args` in `nss_set_shutdown_callback` |
| `ctxAddr` | `InitContext.context`, never cleared by the code; a slot is free again after `tp_dealloc` |
| `cbArgs` | the thread local `shutdown_callback_args`; `shutdown_callback` is set and deleted together with it |
| `current` | the entry NSS is calling back |
| `status` | the result of the call so far |
| `armed` | history: this thread's callback was accepted by NSS and not cancelled since |

A function that calls NSS is three or more actions: the call (arguments parsed,
GIL dropped if the function has `Py_BEGIN_ALLOW_THREADS`), the NSS step (which
waits for NSS's lock), and the return (which takes the GIL back). Whether the
GIL is dropped is a property of the function (`KeepsGil`, `DropsGil`).
`nss_shutdown` with registered callbacks goes through `ensure` (waiting for the
GIL), `callback` (Python runs; other threads may) and `finish`.

One outcome ends the process and stops the model (`Crashed`): `noGil`, the Python
API used without the GIL. `nss_initialize` and `nss_shutdown_context` get there when
NSS refuses, because their error paths do not restore the GIL
(`src/py_nss.c:21783-21787`, `21973-21977`): `lifecycle_gil` reports them.
`GilBalance` is about all the other ways out; of these two it says which calls
can take them, and that they are without the GIL then.

A thread that ends (`ThreadExit`) leaves its entries in NSS's shutdown list. The
tuples they point to stay allocated, because `set_thread_local`
(`src/py_nss.c:3268`) never gives back the reference from `PyDict_New`, so the
dict outlives its thread. `RegistrationCurrent` holds because of that leak:
giving the reference back without also unregistering at thread end would leave
dangling entries.

Not in the module: a callback that itself calls the functions of this module
(NSS's lock is not recursive), and failures inside `set_thread_local` (their
error path is in `TextCalls`; here the two keys are one variable).
`nss_is_initialized` changes nothing and has no action; its GIL handling is that
of `DropsGil`. Allocation failures in `NSS_Shutdown_Callback` have the effect of
the result `exception`. Python code cannot construct an `InitContext` (`tp_new`
is 0), so every object comes from `InitContext_new_from_NSSInitContext`.

### NssLifetime

What a program may rely on, without the locks and the callback mechanism: NSS is
up while it has a user, a flag for the process or a context. A call that gives
a user back asks first (`request`), and is then refused, served at once, or, as
the last user, made to shut NSS down: nobody else uses NSS meanwhile, each
registered callback runs once, and the call is told of success only if everything
succeeded. `NssLifecycle` contains the mapping as `Lifetime == INSTANCE
NssLifetime WITH ...`: the contexts and the flag count only while NSS's lock is
free, because `nss_Shutdown` clears them when it lets go of the lock; `closing` is
the owner of the lock; `request` is read off `op`, `pc`, `target` and `status`.

### NssContexts

`NSSContext` and `nss_context` from `src/nss_context.py`, several threads with
stacks of open with-blocks (`blocks`). One action is one statement that matters:
the call of `nss_init` or `nss_init_nodb`, the assignment of `_initialized`, the
shutdown, the clearing of the flag; other threads run in between. `Interrupt` is a
`KeyboardInterrupt`, which passes through `except Exception` handlers and leaves
`__enter__` or `__exit__` where it is. Three history variables name what excuses a
manager: `overlapped` (since NSS was last idle a block was entered while another
was open), `shared` (two threads used one manager at a time) and `cut` (an
interrupt stopped a manager where NSS was up and it had not yet remembered, or
not yet shut down). Both `shared` and `cut` are needed: without either of them
`LeftDown` is violated. NSS is initialised and shut down only through managers
here; the password callback that a manager sets stays set (`password`).

### ByteStream and SocketReader

`ByteStream` is abstract: a stream, an end, a count of what was handed out, and
the outcome of the latest call. `Deliver(n)` hands out the next n bytes, with
n = 0 only at the end; `Fail(n)` raises an error and may take n bytes with it.

`SocketReader` is the code: the readahead buffer, the C loops and the point where
PR_Recv blocks. `scan` is the top of the loop, `recv` is inside PR_Recv. The
refinement mapping is `given == taken - Len(held) - Len(readahead)`: what PR_Recv
took, minus what the call holds, minus what is buffered. `readahead` is
`readahead.buf[0 .. len-1]`; `len` is its length; `alloc_len` is kept as it is.
`ALLOC_INCREMENT` is a constant (1024 in the code).

The connections that one object goes through one after the other (a second
`__init__`) form one stream in the model; giving up a connection cuts off the
bytes PR_Recv never took (`Abandon`). `opened` remembers where the current
connection began. `SocketReader` contains the mapping as
`Stream == INSTANCE ByteStream WITH given <- given, ...`, and the property of the
run and the theorem is `StreamSpec == Stream!Spec`.

Error paths: no memory for the buffer or the result, an error or timeout from
PR_Recv, no memory for the line, a failing append in `readlines`, a failing
resize in `_recv`. `dead` is the NULL dereference of `close()` or `connect()` on
a Socket that is closed already.

Sizes: `recv` and `read` with a negative size are in the model (`read` without a
limit); `recv(0)` and `read(0)` are not: they pass an empty buffer to PR_Recv.
`readline(0)` and `readlines(0)` are, and behave as the code does, as if no size
were given: `ReadlineResult` and `ReadlinesResult` say so, and the documentation
says otherwise (see [below](#known-deviations)). The list that `readlines` returns
is `held`, its bytes, with `ends`, where in them each line ends: the empty line
that ends a list at the end of the stream is in it.

### SslHooks

NSS keeps, per descriptor, a borrowed pointer to the SSLSocket a hook was set
through (`hookArg`) and to the tuple of PIN arguments (`pinArg`); an accepted
descriptor starts with copies of the listening one's. The objects keep the
callback, its user data and the PIN arguments (`callback`, `data`, `pin`).

| State | Code |
|---|---|
| `at` | what a thread is doing: `hooking`, `stored`, `pinning`, `storing` are the middle of a setter, after an old value was released (its destructor may run and let other threads in); `nss` is inside the handshake without the GIL; `ensure`, `build`, `python` are inside a function NSS called |
| `stage` | how far the handshake of a descriptor came, kept over a timeout until it is resumed, reset or done again |
| `call` | the C frame: the descriptor, the pointer NSS passed, the callback and the data read so far |
| `raced`, `torn` | history: the hooks two threads were setting at a time; the threads about to call a hook that was raced, or set while they prepared the call |
| `botched` | history: the descriptors whose last new PIN arguments NSS refused |
| `answer`, `line` | history: what the certificate callback said; the objects a descriptor was opened and accepted through |
| `passwordFunc`, `passwordOf` | NSS's one password function; the thread local callback, which is out of reach once its thread has ended (`ThreadExit`) |

A setter is three steps: the callback is stored (`SetHook`), its data
(`StoreData`), and NSS is told (`HookNss`); Python may run after each. A hook
reads the size of the data, and only after further allocations the data and the
callback. Nothing in the code keeps the two sequences apart, and the model does
not either: any thread may set any hook at any time. What remains true is
`OwnDataUnlessTorn`; that a callback always gets its own data is not. NSS takes
new PIN arguments or refuses them, also on an open descriptor. A password callback
returns what it likes, however often it is asked.

The bindings keep nothing alive for NSS. What the program must do in return is
the constant `Rules`: *keep* - an SSLSocket is dropped only when no descriptor
opened or accepted through it is open and no hook set through it is running, and
its PIN arguments are not replaced while an accepted descriptor uses them; *alone* -
PIN arguments are not set, nor the descriptor closed, by one thread while another
is using them. The runs assume both; what each theorem assumes, which is less
for most of them, is said under [Proofs](#proofs).
In the model an SSLSocket that is gone reads as an empty one; the code would
read freed memory. Whatever it finds there, the answer of the hook is any of
`Answers`, so the theorems that assume no rule keep their meaning for a program
that does not crash; those about callbacks and data assume *keep*. What the rules
assume away the runs do not show: that a program which drops an SSLSocket NSS still
points to reads freed memory is read off the code, not off a run. That NSS copies
hooks and PIN arguments to accepted descriptors is external knowledge; the servers
of the tests and examples depend on it.

One step in the model, several in the code: `Socket_close` (the GIL is released
around `PR_Close`); `SSLSocket_accept`; the release of the old PIN arguments and
the storing of the new ones. A second `__init__` is `Socket_close` followed by
`SSLSocket_init` on the same object, which keeps its hooks and PIN arguments while
the new descriptor has none.

### CallSteps, CallPaths and the modules of calls

Most of the C code is straight-line: acquire, test, release, return. `CallSteps`
is a notation for such a function with the data left out: `Get(x, U)` is a call
whose result the function owns and whose failure path releases `U`, `Try(U)` a
test that may fail, `Give` hands a reference to a container, `Drop` and `Clear`
release (`Py_DECREF`, `Py_CLEAR`), `NoGilCall` an NSS call between
`Py_BEGIN_ALLOW_THREADS` and `Py_END_ALLOW_THREADS`, `Either`, `Opt` and `Loop`
the control flow. The modules of calls define one operator per C function, named
after it, and a table from names to sequences. `CallPaths` runs every function
along every path: each variable is NULL, owned, lent or gone; `lost` collects
references nobody can give back any more, `faults` the variables released, given
away or returned without owning them. The methods of a type share the fields of one
object from `tp_new` over any number of calls, `__init__` again included, to
`tp_dealloc`.

Not every function keeps the discipline. `MCCallPaths` lists the exceptions, function by
function and variable by variable (`MCKnownLeaks`, `MCKnownFaults`, `MCMutes`), and
the properties allow exactly these; a new leak in a listed function
is still found. The tables are the answer to the question which error paths need work.
The functions of `NssLifecycle` are not in the tables: the two that leave
`Py_BEGIN_ALLOW_THREADS` wrongly are reported by `lifecycle_gil`. In a callback from NSS the
GIL is the variable `gstate`, owned from `PyGILState_Ensure` to
`PyGILState_Release`: `NothingLost` is about it, not `GilHeld`.

`CallPaths` runs a function with all its variables at once. `CallDiscipline` reads
its text one variable at a time: `Facts` gives, for every function and variable,
the triples of the next step, what the variable may hold there, and whether an
exception is set; `Disciplined` says that these facts hold where the function
starts, are carried along by every step (`Follows`), and that no step with such a
fact loses, misuses or returns what it must not (`Loses`, `Misuses`, `FailsWell`,
`ReturnsWell`). The facts about a field where a method ends must be facts where
every method of the type begins (`MayRest`). `MCCallPaths` computes the
least such facts (`MCFacts`) from the text, and TLC finds the 448 functions
disciplined: no two variables of a function have to be looked at together.

## Runs

| Run | Question | Instance | Result |
|---|---|---|---|
| `lifecycle_safety` | who holds the GIL where, but for the two calls `lifecycle_gil` reports; order of the two locks, shutdown list, ownership of contexts, whose context a call closes, outcome of a shutdown, calls that only go on towards their return, refinement of NssLifetime, inductive invariant | 2 threads (one of which may exit), 2 objects, 2 addresses, the empty tuple and 2 others | holds |
| `lifecycle_live` | do calls return when no callback is set? | 2 threads, 1 object, 1 address, the empty tuple | holds |
| `lifecycle_gil` | is the Python API always used with the GIL? | as `lifecycle_safety` | violated |
| `lifecycle_dealloc` | does destroying an object leave other contexts alone? | as `lifecycle_safety` | violated |
| `lifecycle_deadlock` | does a shutdown with a callback complete? | as `lifecycle_live` | violated |
| `nss_contexts` | do blocks have NSS, and is it down when all have been left? | 3 threads, 2 managers (one with a password callback), nesting 2; 1,046,218 states | holds |
| `socket_reader` | refinement of ByteStream, buffer bound, lines, lists of lines, positive limits, no loop that turns on the spot, end of file, no waiting for a line that is there | newline and one other byte, 4 bytes sent, sizes up to 3, increment 2, one makefile | holds |
| `socket_recv_wait` | does `recv` block with bytes in hand? | as `socket_reader` | violated |
| `socket_reopen` | does a second `__init__` start afresh? | as `socket_reader` | violated |
| `ssl_hooks` | is what NSS points to alive, over inheritance, second `__init__`, replaced and refused PIN arguments and reuse of memory; is a refused certificate the end? | 2 threads, 2 objects, 2 descriptors, the certificate hook, 1 callback, 1 PIN tuple; 1,041,768 states | holds, but for PIN arguments of descriptors whose last ones NSS refused |
| `ssl_password` | whose data does a callback get, does NSS run without the GIL, does the handshake only go forward, does it end? | 2 threads (which may exit), 1 object, 1 descriptor, the client certificate or the handshake hook, 2 callbacks, password set and cleared; 274,036 states | holds, but for a password callback asked for ever |
| `call_paths` | is everything released once on every path, NULL returned with an exception only, the GIL held; is the text of every function what the proofs assume (`CodeOK` in `IInv`, `Disciplined` in `DInv`)? | all 448 functions, 27 types; 104,636 states | holds but for the listed exceptions |

### Bounds

In the lifecycle every interference is between two parties: two threads for two
locks, two private tuples so that a thread can replace its callback while the
other one keeps its own, two objects and two addresses so that an address can be
reused while another context is listed. In the reader, an increment of 2 with 4
bytes lets the buffer be grown twice, be filled and be emptied in parts; sizes up
to 3 are less than, equal to and greater than what one PR_Recv delivers, and
newlines can be anywhere in the stream. `MaxBytes`, `MaxSize` and `MaxRefs` appear
in guards and types only to keep the state space finite; the increment is a
parameter of the proof.

With managers the third thread lets a block overlap two others that do not overlap
each other; nesting 2 is enough to nest a manager in itself and in another one. In
`ssl_hooks` two objects and two descriptors are a listening socket and an accepted
one, or one made again in the memory of the other; the second object is also the
temporary one that the certificate callback is given. One PIN tuple that is set,
removed, refused and set again suffices for pointers that dangle or not. In
`ssl_password` two callbacks let one be mixed with the data of the other, and two
threads let a setter meet another setter or a hook at every step. `OneHook` keeps
to one kind of hook in a behaviour, whichever it is: hooks meet in one handshake
only through `stage`. Only a setter leads out of that, and none is ever obliged to
run, so a behaviour within the bound that is fair in it is fair. That the
certificate hook, the others and the PIN arguments are in separate runs is for
size; the proofs have no such split. In `call_paths` nothing is bounded but the
number of loop iterations that matter: a loop body is a cycle of the state graph.

The safety proofs do not depend on these bounds.

Symmetry is used in `lifecycle_safety` (objects, addresses, tuples other than the
empty one; threads are not symmetric, the main thread never exits) and in
`ssl_hooks`, neither of which has a liveness property.

Deadlock checking is off because the system may really stop: in the lifecycle
when the process dies (`Crashed`) or when the two locks block each other, which
`lifecycle_deadlock` asks about as a property; in the reader after a second
`close()` has killed the process; with SSL hooks when the descriptors and objects
of the instance are used up under the rules. `nss_contexts` and `call_paths` check
for deadlock.

### Fairness

`NssLifecycle!FairSpec` assumes strong fairness for three things per thread:
taking the GIL (CPython hands the GIL over on request: `SwitchThread` is the
holder's eval loop obeying after the switch interval, so a waiting thread gets it
again and again), giving it up, and the next C step of a call (a thread waiting
for NSS's lock is not starved by others; Python callbacks return). Nobody is
obliged to make a call, and threads need not exit. `SocketReader!FairSpec` assumes
weak fairness of the C code as a whole: a call that can go on does, and PR_Recv
returns when there is something to return. No byte, no end of file, no error and
no allocation failure is ever owed. `SslHooks!FairSpec` assumes strong fairness,
per thread, of taking the GIL and of its next step where it has begun something:
finishing a setter, NSS's steps, the functions NSS calls. Strong, because another
thread may take the GIL in between any number of times. NSS owes no particular
outcome, and a password callback no particular answer: `HandshakeEnds` is that a
handshake ends unless its own password callback is called over and over, the
endless loop that `src/py_nss.c:20807-20808` warns of. Nobody owes the end of a
thread or a timeout.

### Divergences

Five runs show what the code does against what a document or comment says. The
findings in `PROJECT.json` quote the lines.

1. `lifecycle_gil`: `nss_initialize` and `nss_shutdown_context` set the error
   without the GIL when NSS refuses, though the ChangeLog lists them as fixed.
2. `lifecycle_dealloc`: the destructor of an `InitContext` that was shut down
   relies on NSS not knowing the pointer any more; the allocator may have given
   the address to another context. `ClosesOnlyOwn` says that nothing else can go
   wrong there: with addresses that no two objects share, every call closes its
   own context or none.
3. `lifecycle_deadlock`: a shutdown callback waits for the GIL under NSS's lock
   while `nss_init_context` (or any of `KeepsGil`) waits for NSS's lock under the
   GIL. `LocksOrdered` says that this is the only way: no registered callback, no
   circle of waiting threads.
4. `socket_recv_wait`: `recv` blocks for the rest with buffered bytes in hand,
   and loses them on a timeout.
5. `socket_reopen`: `__init__` closes the old descriptor but keeps its readahead
   buffer.

### Known deviations

The models follow the code also where it is visibly not what its author meant;
there is no run against it, and a change there changes the model.

Against the documentation, and said so where the property is stated:
- `readline(0)` returns a whole line and `readlines(0)` reads to the end of the stream
  and ends its list with an empty line, though the documentation calls a non-negative
  size or hint a limit (`src/py_nspr_io.c:2378-2380`, `2494-2496`).
  `ReadlineResult` and `ReadlinesResult` state what the code does.
- A hook that runs between the assignments of a setter calls the new callback with the
  old data (`src/py_ssl.c:783-784`). `OwnDataUnlessTorn` says that this overlap, and that
  of two setters, is the only way.
- PIN arguments that NSS refuses leave it with a pointer to the previous, released ones
  (`src/py_ssl.c:1147-1150`). `PinsAlive` says that other descriptors are not affected,
  nor this one once NSS has taken new arguments.
- `get_pkcs11_pin_arg` asserts that NSS's PIN arguments are those of the SSLSocket
  (`src/py_ssl.c:1173`). They are not after a refusal, on an accepted descriptor, or
  after a second `__init__`.
- The password function is set for the process, its callback for one thread
  (`src/py_nss.c:20853-20861`): NSS asks where there is none, or none any more, and the
  answer is that of a failed callback. `HandshakeEnds` says that the handshake still
  ends.

References (in the tables of `MCCallPaths`):
- `set_nspr_error` (`src/py_nspr_error.c:181-210`) and `set_cert_verify_error`
  keep the exception object, and with it every raised NSPR error; the two
  exception types' `__init__` keep their parsed arguments.
- The `FMT_*` macros and `APPEND_LINES` keep a reference to every formatted line,
  `connection_info_format_lines` the whole list on failure.
- `accept`, `accept_read`, `new_tcp_pair`, the SSL `accept` and
  `get_proto_by_number` release objects a second time after `Py_BuildValue("N")`
  has failed.
- `HostEntry_get_network_address` returns a reference it does not own;
  `cipher_suite_from_name` and `ssl_library_version_from_name` read through NULL.
- The PKCS #12 nickname callback returns without `PyGILState_Release`
  (`src/py_nss.c:19568`).
- Destroying a Socket or SSLSocket does not close its descriptor.
- `KEYPQGParams_init` raises a ValueError for a mix of parameters and goes on.

Values and protocols:
- The module functions that look a constant up by name parse a `str` with the
  format for bytes and always fail; `set_sock_peer_id` passes no variable for its
  format; `check_ocsp_status` parses the arguments that were meant for the
  password callback; the directory arguments of the session cache are unused.
- A certificate callback whose result has no truth value counts as yes:
  `PyObject_IsTrue` returns -1 (`src/py_ssl.c:641`); `AuthRespected` says so.
- A handshake callback inherited by an accepted descriptor gets the listening
  object.
- `NSSContext` ignores its `flags` and leaves its password callback set.
- Of nested context managers the first exit shuts NSS down for the outer block.

## Proofs

TLC checks the instances above; TLAPS proves the following for every value of
the constants that satisfies `NobodyAssumption`, `LifecycleAssumption`,
`ContextAssumption`, `HooksAssumption` (the sentinels are not members of the sets
they stand outside of, the main thread is a thread, the empty tuple is a tuple, the
hooks are hooks) and `ReaderAssumption` (newline is a byte, the increment is
positive, the bounds are naturals).

`NssLifecycleProofs`:

- `Invariance`: `Spec => []IInv`. `IInv` is the conjunction of the type
  invariant, the three list and GIL properties and facts that make
  them inductive: `CallShape` (which places go with which functions and what the
  call holds there), `LockOwner` (NSS's lock is held by exactly the thread inside
  `nss_Shutdown`), `ListMeansUp` (entries exist only while NSS is initialised, or
  while a shutdown is still draining them), `TuplesPrivate` (two threads share
  only the empty tuple), and `OwnersHold` (a listed address is the address of its
  owner). Without `LockOwner` a second shutdown could empty the list under the
  first; without `TuplesPrivate` cancelling one's own registration could cancel
  somebody else's; without the clause on destruction in `OwnersHold` a destroyed
  object could still own a context.
- `GilBalanced` covers every way out of every function but the two of `lifecycle_gil`,
  which it names: a thread that is in `noGil` is in `nss_initialize` or
  `nss_shutdown_context`, was refused, and does not hold the GIL.
- `TypeCorrect`, `GilBalanced`, `RegistrationsCurrent`, `ArmedListed`,
  `NoContextLeaks` follow from it; `ShutdownRunsToTheEnd` and
  `OthersContextsStay` are the action properties `ShutdownOutcome` and
  `ClosesOnlyOwn`, proved per action under `IInv`.
- `LocksStayOrdered`: while no callback is registered, no chain of threads that
  wait for each other, over the GIL or over NSS's lock, has three links, so none is
  a circle. It is the safety half of `CallsReturn`, for any number of threads. It
  rests on `CallsBackEntries` (`nss_Shutdown` asks for the GIL only for an entry
  that is still in the list): without callbacks the owner of NSS's lock waits for
  nothing.
- `CallsGoOn` (`CallsAdvance`): each step of a call lowers the rank `ToGo` of its
  place, or comes back to `ensure` with a shorter list; the others only take the GIL
  or give it up. `ListShrinks` is why the
  list does get shorter: registering needs NSS's lock, which the thread in
  `nss_Shutdown` keeps (`LockOwner`), so no other thread adds to it. What
  is left to keep a call from returning is a lock or Python code: the other half of
  `CallsReturn`, and the reason why `lifecycle_deadlock` can only be a deadlock.

`NssLifetimeProofs`: `ImplementsLifetime` is `Spec => LifetimeSpec`. One lemma per
action shows that it is a step of `NssLifetime` or leaves the mapped variables
alone; `SameRequest` and `OneRequest` reduce the function `request` to the thread
that moved. The steps that need `IInv` are those inside `nss_Shutdown`
(`LockOwner` says whose shutdown it is, `ListMeansUp` that the list is empty at
its end) and the calls on contexts (`CallShape`).

`NssContextsProofs`:

- `ContextInvariant`: `IInv` is the types and three facts. `Private`: as long as no
  manager was shared, the threads use disjoint managers. `Alone`: as long as no
  block overlapped another, one thread at most is in a block, in one block, and
  NSS is up there. `Owed`: every time NSS is up, some thread owes its shutdown - it
  is about to set the flag or to shut down, or has an open block whose manager
  remembers - unless a manager was shared or an interrupt cut one short. A thread
  about to clear the flag does not count, because the block it left may be nested
  in another of the same manager; `Private` says that no other thread's debt is
  cleared with it.
- `BlocksHaveNss` (`InsideUp`) follows from `Alone`, `BlocksCleanUp` (`LeftDown`)
  from `Owed`: when everybody is out, nobody owes anything.

`SocketReaderProofs`:

- `Invariance`: `IInv` adds to the types `Unread` (held bytes followed by
  buffered bytes are exactly the stretch of the stream between `given` and
  `taken`), `CallShape`, `BufferFits`, `Lines` (a line operation waits only if
  no line is buffered; what `readlines` has collected is whole lines below the
  hint) and `Cuts` (the list it has collected is those bytes, cut after every
  newline and nowhere else).
- `BufferAlwaysFits`: no byte beyond `alloc_len`, and PR_Recv is never asked for
  zero bytes, which the loops would take for the end of file.
- `ImplementsByteStream`: `Spec => Stream!Spec`. Each action lemma proves both
  the invariant and the abstract step (`StreamStep`); calls that return are
  `Deliver`, error paths are `Fail`, `__init__` and `close` are `Abandon`,
  everything inside the loops is a stutter.
- `LinesAreLines` and `ListsOfLines` are the action properties
  `ReadlineResult` and `ReadlinesResult`. `LineReturned` reduces them to the two
  places where a line operation returns bytes, `LineBytes` describes what it
  returns there byte by byte; `Lines` and `Cuts` give what was collected before.
- `LoopsAdvance` (`ReadingAdvances`): while the peer is silent, each step inside a
  call takes bytes from the stream, shortens the buffer, or goes from the loop to
  PR_Recv. A call therefore makes finitely many steps between two actions of the
  peer: the safety half of `EofEndsCalls` and `LineArrives`.

`SslHooksProofs` has three invariants, from the weakest assumption to the strongest:

- `AnyInvariance`: `AnyInv` holds whatever the program does. `FrameShape` says what
  the frame of a thread refers to at each place, `OneHandshake` that a descriptor
  is in one thread's handshake, `HookStage` at which stage each function is called,
  `AnswerKept` that an answer other than yes stays with the handshake, which has
  failed, until another one is asked for. `TypeCorrect` and `RefusalRespected`
  follow. `GilGivenBack` needs no rule either and is inductive almost by itself.
- `KeptInvariance` assumes *keep*: `HeldLineage` says that NSS's pointers to
  SSLSockets lead to objects the descriptor came through, all of which the program
  holds, `HeldInUse` the same of the objects a thread is working with, whatever other
  threads set and close; `HooksKeptAlive` follows. `StoredData` says that callback and
  data of a hook belong together unless a setter is between them or the hook was
  raced, `SetterData` that a setter alone with its hook finds its callback there,
  `CallData` that a call which is not torn still finds the data it has measured;
  `OwnData` follows. Without `raced` surviving the end of the setters a hook could
  stay mixed up with nobody at it.
- `Invariance` assumes both rules (`Careful`): `PinLineage` says that the PIN
  arguments NSS points to are those of an object the descriptor came through, unless
  NSS refused its last ones, `PinsUndisturbed` that nobody sets or closes what a
  handshake uses and that a frame has the arguments NSS has. `PinsKeptAlive`
  follows. Hooks may be set at any time here too.

The lemmas go from what an action does to groups of variables (`Moves`, `HookMoves`,
`StageMoves`, `DataMoves`, `PinMoves`) to one lemma per conjunct and kind of move.

`HandshakeForward` (`HandshakeAdvances`) assumes no rule: with `AnyInv`, each step of a
thread inside a handshake on an open descriptor goes deeper into the function NSS
called, leaves the stage for a later one, or leaves the handshake; the exception is
a wrong password, after which NSS may ask again. So each hook is called once at
most per handshake, over all its timeouts: the safety half of `HandshakeEnds`.

`CallPathsProofs` is about any table of functions whose text satisfies `CodeOK`:
every hop leads to a step of the function and no step falls off its end
(`Closed`); between `Py_BEGIN_ALLOW_THREADS` and the next
`Py_END_ALLOW_THREADS` in the text there is only control, and it leads nowhere else
(`Bracketed`). `CodeOK` is a condition on the text; TLC finds it true of the 448
functions as the first conjunct of `IInv`.

- `Invariance`: such a function is at one of its own steps until it returns,
  whichever calls fail, and is without the GIL only inside such a bracket. One lemma
  per action; `GoesOn` and `Ends` are the two ways a step can leave the call.
- `GilAlwaysHeld` (`GilHeld`) follows: no reference is made, released or
  looked at and no exception is set without the GIL, and every return has it.

`CallDisciplineProofs` is about any table of functions and any facts with `CodeOK`
and `Disciplined`. The inductive invariant `DInv` adds to `IInv` that every variable
holds what the facts foresee where the function is (`Foreseen`), that the running
function is one of the object's and touches only its own variables and fields
(`Scoped`), and that between calls nothing is left but fields in which every
method may start (`Settled`). A step is taken apart into what it does to each
variable (`Becomes`, `LeftBehind`), because no step of `CallPaths` decides by two
variables at a time; only the end of a call adds the question whether an exception
is set, which is why it is part of a fact. One lemma per action.

- `DisciplineKept`: `Spec => []DInv`.
- `NothingIsLost` (`NothingLost`), `NothingIsReleasedTwice`
  (`NothingReleasedTwice`) and `ErrorsAreReported` (`ErrorReported`) follow: what a
  function releases, leaves behind and reports on every path, and from `tp_new`
  through any sequence of methods to `tp_dealloc`, is decided by its text. The hypotheses
  are not empty: TLC finds both true of the 448 functions, as conjuncts of
  `IInv` and `DInv`, with the listed exceptions as `Leaks`, `Faults` and `Silent`.

Only model-checked:

- The liveness properties `CallsReturn`, `EofEndsCalls`, `LineArrives` and
  `HandshakeEnds`: they need fairness and ENABLED. Of each the part that can be
  stated as a safety property is proved: `CallsGoOn` with `LocksStayOrdered`,
  `LoopsAdvance`, `HandshakeForward`.
- That the 448 functions satisfy `CodeOK` and `Disciplined`, and with which facts:
  these are statements about one large table of data, which TLC evaluates.
  `MCFacts` is a recursive definition, used by the run only.
- What the documentation states and the code does not have: the runs that
  find a violation.

## Plan

Done: the lifecycle and its refinement of `NssLifetime`, the context managers, the
reader, the hooks with their proofs, and the call paths of the four C files with
the proofs about the GIL, references and exceptions. Every invariant and action
property of a passing run is stated by a theorem. What would come next:

1. *Socket sharing.* Two threads on one Socket: `PR_Recv` without the GIL while
   another call grows, frees or closes; `recv_from` beside the buffer. Abstract: a
   descriptor in use is not closed. The code takes no measure against it, so the
   model would need rules like those of `SslHooks`.
2. *The managers as users of `NssLifetime`*: `NssContexts` over the abstract
   lifetime instead of over `NssInit`; the `NSS_ShutdownContext(NULL)`
   corner of `nss_init_context`; the two thread local keys of a shutdown callback
   as two variables.
3. *Pure algorithms*, one module each with a reference definition: error table
   bisection, GeneralName list copies, DN and RDN subscripting, hex and PEM
   conversions, redaction in `secure_logging.py`. RECURSIVE operators stay out of
   modules with proofs.

## Not modelled

The data of the PK11, certificate, extension, name and formatting functions:
what they decode and print. Their control is in the call paths, and that NSS
objects may still be referenced at shutdown is the `busy` outcome of
`ShutdownFinish`; there is no further protocol in them. The values of sizes and
indexes in those functions are left out with the data.

The order in which NSS calls the PKCS #12 nickname callback during an import, and
the contents of the constant name tables, are NSS's.

Two threads on one Socket, `recv_from` with bytes in the readahead buffer, and
`recv(0)`: see the plan.

`secure_logging.py` and `deprecations.py` are functions of strings and tables with
no state that outlives a call. Tests, the `mutants/` snapshots, documentation,
examples and build files are not part of the program.

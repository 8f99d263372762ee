------------------------------ MODULE Process ------------------------------
(***************************************************************************)
(* The process: main() of fss.c from the command line to the end, with the *)
(* options, the log, die() and the handler of SIGINT and SIGTERM, which    *)
(* logs and dies wherever the process is, also in the middle of logging or *)
(* dying.                                                                  *)
(*                                                                         *)
(* frames is the stack: main() at the bottom, above it one frame for each  *)
(* handler that interrupted what is below.  A handler ends with exit(), so *)
(* a frame below another never goes on.  What entry_client() and           *)
(* entry_server() do is in Network; here they log, fail or return.         *)
(***************************************************************************)
EXTENDS Options, Paths, FiniteSets

CONSTANTS
  Argvs,        \* the command lines, as getopt_long() sees them
  MaxSignals    \* bound: signals sent

Signals == {"INT", "TERM"}

\* What getopt_long() may come upon: an option of the table, one that is not in it or has
\* no argument, or no option.
ItemNames == Flags \cup {"help", "version", "verbose", "umask", "server", "client", "port",
                         "server_port", "log_file", "path", "server_addr", "unknown", "extra"}

ASSUME ArgvsAssumption ==
  \A line \in Argvs :
    /\ line \in Seq(Range(line))
    /\ \A i \in DOMAIN line : line[i].name \in ItemNames
    /\ \A i \in DOMAIN line : line[i].name = "path" => line[i].value \in BasePaths

VARIABLES
  argv, optind,  \* the items; the next one
  opts,          \* struct options
  monitored,     \* what is at the path of the options: "dir", "file" or "none"
  logfp,         \* _logfp: "stdout", "file", "closed" (freed by fclose()) or "null"
  syslogging,    \* _syslog
  verbose,       \* _verbose
  handlers,      \* signals whose handler is sig_int_term()
  pending,       \* signals sent and not delivered
  sent,          \* how many were sent
  said,          \* the last record written to _logfp: [prio, where]
  frames,        \* the stack: [sig, at, prio, then, status]
  ended          \* "no", or how the process ended

logVars == <<logfp, syslogging, verbose>>
sigVars == <<handlers, pending, sent>>
cmdVars == <<argv, optind, opts>>
vars == <<basepath, call, cmdVars, monitored, logVars, sigVars, said, frames, ended>>

Depth == Len(frames)
Top   == frames[Depth]
At(label) == ended = "no" /\ call = NoCall /\ Top.at = label

Frame(sig, at) == [sig |-> sig, at |-> at, prio |-> "ERR", then |-> "exit", status |-> "success"]

\* Only the frame at the top goes on.
TopBecomes(f) == frames' = [frames EXCEPT ![Depth] = f]

GoTo(label) == TopBecomes([Top EXCEPT !.at = label])

\* Log(): do_log(), then on at a label.
LogThen(prio, label) == TopBecomes([Top EXCEPT !.at = "log", !.prio = prio, !.then = label])

\* Log_die(): do_log(), then die().
LogDie(status, prio) ==
  TopBecomes([Top EXCEPT !.at = "log", !.prio = prio, !.then = "die", !.status = status])

DieWith(status) == TopBecomes([Top EXCEPT !.at = "die", !.status = status])

-----------------------------------------------------------------------------
(* main(): parse_argv() *)

\* An item that is no option is passed over, and reported when the options are done.
IsExtra(item) == item.name = "extra"
Extras == {i \in DOMAIN argv : IsExtra(argv[i])}

ParseOption ==
  /\ At("parse")
  /\ optind <= Len(argv)
  /\ LET item == argv[optind]
         step == IF IsExtra(item) THEN Parsed(opts) ELSE SetOption(opts, item)
     IN \/ /\ step.what = "options"
           /\ opts' = step.opts
           /\ optind' = optind + 1
           /\ UNCHANGED frames
        \/ /\ step.what = "die"
           /\ LogDie("failure", "ERR")
           /\ UNCHANGED <<opts, optind>>
        \/ /\ step.what = "print"
           /\ DieWith("success")
           /\ UNCHANGED <<opts, optind>>
  /\ UNCHANGED <<basepath, call, argv, monitored, logVars, sigVars, said, ended>>

\* print_usage() without arguments; otherwise each extra argument is an error
\* that ends nothing.
ParseRest ==
  /\ At("parse")
  /\ optind > Len(argv)
  /\ IF argv = <<>> THEN DieWith("success") /\ UNCHANGED optind
     ELSE IF optind <= Len(argv) + Cardinality(Extras)
     THEN LogThen("ERR", "parse") /\ optind' = optind + 1
     ELSE GoTo("check") /\ UNCHANGED optind
  /\ UNCHANGED <<basepath, call, argv, opts, monitored, logVars, sigVars, said, ended>>

\* check_options(), with verify_dir().
OptionsPass ==
  /\ opts.path # Nil
  /\ monitored = "dir"
  /\ opts.mode = "client" => opts.server_addr # Nil

CheckOptions ==
  /\ At("check")
  /\ IF OptionsPass THEN GoTo("reinit") ELSE LogDie("failure", "ERR")
  /\ UNCHANGED <<basepath, call, cmdVars, monitored, logVars, sigVars, said, ended>>

-----------------------------------------------------------------------------
(* main(): the rest *)

\* Mutant: the stream is only set when there is a file.
DefaultStreamNone == "null"

DefaultStream == "stdout"

\* reinit_log().  When the file cannot be opened, _logfp is NULL and Log_die()
\* finds it so.
ReinitLog ==
  /\ At("reinit")
  /\ \/ /\ opts.log_file = Nil
        /\ logfp' = DefaultStream
        /\ syslogging' = opts.syslog /\ verbose' = opts.verbose
        /\ GoTo("basepath")
     \/ /\ opts.log_file # Nil
        /\ logfp' = "file"
        /\ syslogging' = opts.syslog /\ verbose' = opts.verbose
        /\ GoTo("basepath")
     \/ /\ opts.log_file # Nil
        /\ logfp' = "null"
        /\ LogDie("failure", "ERR")
        /\ UNCHANGED <<syslogging, verbose>>
  /\ UNCHANGED <<basepath, call, cmdVars, monitored, sigVars, said, ended>>

\* set_basepath(): a second look at the directory.
SetBasepath ==
  /\ At("basepath")
  /\ IF monitored = "dir"
     THEN basepath' = opts.path /\ GoTo("umask")
     ELSE LogDie("failure", "ERR") /\ UNCHANGED basepath
  /\ UNCHANGED <<call, cmdVars, monitored, logVars, sigVars, said, ended>>

\* set_umask()
SetMask ==
  /\ At("umask")
  /\ IF opts.umask >= 512 THEN LogDie("failure", "ERR") ELSE GoTo("int")
  /\ UNCHANGED <<basepath, call, cmdVars, monitored, logVars, sigVars, said, ended>>

\* set_int_term()
InstallInt ==
  /\ At("int")
  /\ handlers' = handlers \cup {"INT"}
  /\ GoTo("term")
  /\ UNCHANGED <<basepath, call, cmdVars, monitored, logVars, pending, sent, said, ended>>

InstallTerm ==
  /\ At("term")
  /\ handlers' = handlers \cup {"TERM"}
  /\ GoTo("run")
  /\ UNCHANGED <<basepath, call, cmdVars, monitored, logVars, pending, sent, said, ended>>

\* test_network(): one record of what it does, a failure, or the end of a client.
Run ==
  /\ At("run")
  /\ \/ \E prio \in {"INFO", "DEBUG"} : LogThen(prio, "run")
     \/ LogDie("failure", "ERR")
     \/ opts.mode = "client" /\ DieWith("success")
  /\ UNCHANGED <<basepath, call, cmdVars, monitored, logVars, sigVars, said, ended>>

-----------------------------------------------------------------------------
(* do_log() *)

\* Mutant: without --verbose errors are not written either.
FilteredErrors(prio) == ~verbose /\ prio \in {"INFO", "ERR"}

Filtered(prio) == ~verbose /\ prio = "INFO"

\* A frame below is inside syslog(), which is not to be entered from a handler
\* again: it may block on its own lock.
SyslogBusy == \E i \in 1..(Depth - 1) : frames[i].at = "syslog"

LogBegin ==
  /\ At("log")
  /\ \/ Filtered(Top.prio) /\ GoTo(Top.then) /\ UNCHANGED ended
     \/ ~Filtered(Top.prio) /\ GoTo(IF syslogging THEN "syslog" ELSE "stream") /\ UNCHANGED ended
     \/ ~Filtered(Top.prio) /\ syslogging /\ SyslogBusy /\ ended' = "hung" /\ UNCHANGED frames
  /\ UNCHANGED <<basepath, call, cmdVars, monitored, logVars, sigVars, said>>

SyslogReturns ==
  /\ At("syslog")
  /\ GoTo("stream")
  /\ UNCHANGED <<basepath, call, cmdVars, monitored, logVars, sigVars, said, ended>>

\* assert(_logfp) and fprintf().
WriteRecord ==
  /\ At("stream")
  /\ CASE logfp = "null"   -> ended' = "aborted" /\ UNCHANGED <<said, frames>>
       [] logfp = "closed" -> ended' = "undefined" /\ UNCHANGED <<said, frames>>
       [] OTHER            -> /\ said' = [prio |-> Top.prio, where |-> logfp]
                              /\ GoTo(Top.then)
                              /\ UNCHANGED ended
  /\ UNCHANGED <<basepath, call, cmdVars, monitored, logVars, sigVars>>

-----------------------------------------------------------------------------
(* die(): close_log() and exit() *)

CloseSyslog ==
  /\ At("die")
  /\ \/ /\ syslogging' = FALSE
        /\ GoTo("fclose")
        /\ UNCHANGED ended
     \/ /\ syslogging /\ SyslogBusy
        /\ ended' = "hung"
        /\ UNCHANGED <<syslogging, frames>>
  /\ UNCHANGED <<basepath, call, cmdVars, monitored, logfp, verbose, sigVars, said>>

\* fclose() frees the stream also when it returns EOF; the record about that is
\* the last use of it.
CloseFile ==
  /\ At("fclose")
  /\ \/ logfp \in {"stdout", "null"} /\ GoTo("clear") /\ UNCHANGED <<logfp, ended>>
     \/ logfp = "file" /\ logfp' = "closed" /\ GoTo("clear") /\ UNCHANGED ended
     \/ logfp = "file" /\ logfp' = "closed" /\ LogThen("ERR", "exit") /\ UNCHANGED ended
     \/ logfp = "closed" /\ ended' = "undefined" /\ UNCHANGED <<logfp, frames>>
  /\ UNCHANGED <<basepath, call, cmdVars, monitored, syslogging, verbose, sigVars, said>>

ClearStream ==
  /\ At("clear")
  /\ logfp' = "null"
  /\ GoTo("exit")
  /\ UNCHANGED <<basepath, call, cmdVars, monitored, syslogging, verbose, sigVars, said, ended>>

Exit ==
  /\ At("exit")
  /\ ended' = Top.status
  /\ UNCHANGED <<basepath, call, cmdVars, monitored, logVars, sigVars, said, frames>>

-----------------------------------------------------------------------------
(* Signals and users *)

Send(s) ==
  /\ ended = "no" /\ call = NoCall
  /\ sent < MaxSignals
  /\ s \notin pending
  /\ pending' = pending \cup {s}
  /\ sent' = sent + 1
  /\ UNCHANGED <<basepath, call, cmdVars, monitored, logVars, handlers, said, frames, ended>>

\* Mutant: the handler only reports the signal.
HandlerReturns(s) == [Frame(s, "log") EXCEPT !.prio = "NOTICE", !.then = "run"]

\* sig_int_term(): Log_die(DIE_SUCCESS, LOG_NOTICE, "Bye~").
Handler(s) == [Frame(s, "log") EXCEPT !.prio = "NOTICE", !.then = "die"]

\* Without a handler the signal kills.  A handler's own signal waits while it runs.
Deliver(s) ==
  /\ ended = "no" /\ call = NoCall
  /\ s \in pending
  /\ \A i \in 1..Depth : frames[i].sig # s
  /\ pending' = pending \ {s}
  /\ IF s \in handlers
     THEN frames' = Append(frames, Handler(s)) /\ UNCHANGED ended
     ELSE ended' = "killed" /\ UNCHANGED frames
  /\ UNCHANGED <<basepath, call, cmdVars, monitored, logVars, handlers, sent, said>>

\* The monitored directory is replaced or removed, until the process has looked
\* at it twice.
ChangeMonitored ==
  /\ ended = "no" /\ basepath = <<>>
  /\ monitored' \in {"dir", "file", "none"}
  /\ UNCHANGED <<basepath, call, cmdVars, logVars, sigVars, said, frames, ended>>

-----------------------------------------------------------------------------

\* init_log(), load_default_options() and parse_config_file() have been called.
Init ==
  /\ basepath = <<>> /\ call = NoCall
  /\ argv \in Argvs /\ optind = 1
  /\ opts = Defaults
  /\ monitored \in {"dir", "file", "none"}
  /\ logfp = "stdout" /\ syslogging = TRUE /\ verbose = TRUE
  /\ handlers = {} /\ pending = {} /\ sent = 0
  /\ said = [prio |-> "none", where |-> "none"]
  /\ frames = <<Frame("main", "parse")>>
  /\ ended = "no"

Step ==
  \/ ParseOption \/ ParseRest \/ CheckOptions
  \/ ReinitLog \/ SetBasepath \/ SetMask \/ InstallInt \/ InstallTerm \/ Run
  \/ LogBegin \/ SyslogReturns \/ WriteRecord
  \/ CloseSyslog \/ CloseFile \/ ClearStream \/ Exit
  \/ \E s \in Signals : Deliver(s)

\* A path function is called and returns between two steps of a running process,
\* or ends it with Log_die().
Failed ==
  \/ call.op = "walk" /\ call.rela = Died
  \/ call.op = "walk" /\ opts.force_use_digest /\ call.back = Died
  \/ call.op \in {"event", "mkdir"} /\ call.full = Died

PathStep ==
  /\ Top.at = "run" /\ ended = "no"
  /\ Depth = 1 /\ pending = {}
  /\ \/ CallPath /\ UNCHANGED frames
     \/ ReturnPath /\ IF Failed THEN LogDie("failure", "ERR") ELSE UNCHANGED frames
  /\ UNCHANGED <<cmdVars, monitored, logVars, sigVars, said, ended>>

Ended == ended # "no" /\ UNCHANGED vars

Next ==
  \/ Step
  \/ PathStep
  \/ \E s \in Signals : Send(s)
  \/ ChangeMonitored
  \/ Ended

Spec == Init /\ [][Next]_vars

\* main() goes on, and the kernel delivers a signal it may deliver.
FairSpec == Spec /\ WF_vars(Step) /\ \A s \in Signals : WF_vars(Deliver(s))

-----------------------------------------------------------------------------
(* Properties *)

\* The last item of one of these names before the n-th of a line; def if there is none.
LastGiven(line, n, names, def) ==
  LET at == {i \in DOMAIN line : i < n /\ line[i].name \in names}
  IN IF at = {} THEN def ELSE line[CHOOSE i \in at : \A j \in at : j <= i]

\* o is what the items before the n-th ask for.
AsGiven(o, line, n) ==
  LET ValueGiven(name, def) == LastGiven(line, n, {name}, [value |-> def]).value
      default == [num |-> DefaultPort]
  IN /\ o.mode = LastGiven(line, n, {"server", "client"}, [name |-> "client"]).name
     /\ \A flag \in Flags \cup {"verbose"} :
          o[flag] <=> \E i \in DOMAIN line : i < n /\ line[i].name = flag
     /\ \A str \in {"log_file", "path", "server_addr"} : o[str] = ValueGiven(str, Nil)
     /\ o.local_port = ValueGiven("port", default).num % Word
     /\ o.remote_port = ValueGiven("server_port", default).num % Word
     /\ o.local_port # 0 /\ o.remote_port # 0

\* At each item of the command line, every option has the value that was given last,
\* a port modulo 2^16, or its default, in whatever order the options came.
ParsedAsGiven == AsGiven(opts, argv, optind)

\* The assertion on _logfp fails and a freed stream is used in two situations only:
\* the log file cannot be opened or closed, or a signal arrives while die() is
\* between closing the stream and the end.
StreamThere ==
  ended \in {"aborted", "undefined"} =>
    \/ opts.log_file # Nil /\ (Depth = 1 \/ Top.then = "exit")
    \/ \E i \in 1..(Depth - 1) :
         \/ frames[i].at \in {"clear", "exit"}
         \/ frames[i].at \in {"log", "syslog", "stream"} /\ frames[i].then = "exit"

\* A process that ends with a failure has written an error last, and once the log
\* is set up, to the file if there is one.
FailureSaid ==
  ended = "failure" =>
    /\ said.prio = "ERR"
    /\ basepath # <<>> => said.where = IF opts.log_file = Nil THEN "stdout" ELSE "file"

\* Once both signals are handled and syslog() is not used, a signal ends the process.
EndsOnSignal ==
  (handlers = Signals /\ pending # {} /\ ~syslogging) ~> ended \notin {"no", "hung"}
=============================================================================

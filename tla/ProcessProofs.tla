--------------------------- MODULE ProcessProofs ---------------------------
(***************************************************************************)
(* main(), the log and the signal handler, for any command lines, options  *)
(* and number of signals.                                                  *)
(*                                                                         *)
(* Only the top of the stack goes on, so whatever left the log stream      *)
(* closed or NULL is still on the stack, at the place where it did.        *)
(***************************************************************************)
EXTENDS Process, PathsProofs

Labels == {"parse", "check", "reinit", "basepath", "umask", "int", "term", "run",
           "log", "syslog", "stream", "die", "fclose", "clear", "exit"}

Frames == [sig : Signals \cup {"main"}, at : Labels, prio : {"ERR", "INFO", "DEBUG", "NOTICE"},
           then : {"parse", "run", "die", "exit"}, status : {"success", "failure"}]

Stack ==
  /\ frames \in Seq(Frames)
  /\ Depth \in Nat \ {0}

Logging(f) == f.at \in {"log", "syslog", "stream"}

-----------------------------------------------------------------------------
(* The stack *)

LEMMA FrameIsFrame ==
  ASSUME NEW s \in Signals \cup {"main"}, NEW label \in Labels
  PROVE  Frame(s, label) \in Frames
BY DEF Frame, Frames

LEMMA TopIsFrame == ASSUME Stack PROVE Top \in Frames
BY ElementOfSeq DEF Stack, Top, Depth

\* What a step of the top leaves: its new frame, and all below it.
LEMMA Becomes ==
  ASSUME Stack, NEW f \in Frames, TopBecomes(f)
  PROVE  /\ Stack' /\ Depth' = Depth /\ Top' = f
         /\ \A i \in 1..Depth : frames'[i] = IF i = Depth THEN f ELSE frames[i]
<1>1. Len(frames) \in 1..Len(frames)
  BY DEF Stack, Depth
<1>2. frames' = [frames EXCEPT ![Len(frames)] = f]
  BY DEF TopBecomes, Depth
<1>3. frames' \in Seq(Frames) /\ Len(frames') = Len(frames)
  BY <1>1, <1>2, LenProperties DEF Stack
<1>4. \A i \in 1..Len(frames) : frames'[i] = IF i = Len(frames) THEN f ELSE frames[i]
  BY <1>2, LenProperties DEF Stack
<1> QED
  BY <1>1, <1>3, <1>4 DEF Stack, Depth, Top

\* The same by the fields: where the top goes on, with which record and which end.
Moves(at, prio, then, status) ==
  /\ Stack' /\ Depth' = Depth
  /\ \A i \in 1..Depth : i # Depth => frames'[i] = frames[i]
  /\ Top' = frames'[Depth] /\ Top' \in Frames
  /\ Top'.at = at /\ Top'.prio = prio /\ Top'.then = then /\ Top'.status = status

LEMMA TopMoves ==
  ASSUME Stack
  PROVE  /\ \A label \in Labels : GoTo(label) => Moves(label, Top.prio, Top.then, Top.status)
         /\ \A prio \in {"ERR", "INFO", "DEBUG"}, label \in {"parse", "run", "exit"} :
              LogThen(prio, label) => Moves("log", prio, label, Top.status)
         /\ LogDie("failure", "ERR") => Moves("log", "ERR", "die", "failure")
         /\ DieWith("success") => Moves("die", Top.prio, Top.then, "success")
<1>1. Top \in Frames
  BY TopIsFrame
<1>2. ASSUME NEW f \in Frames, TopBecomes(f)
      PROVE  Moves(f.at, f.prio, f.then, f.status)
  <2>1. Depth \in 1..Depth
    BY DEF Stack
  <2> QED
    BY <1>2, <2>1, Becomes DEF Moves
<1>3. ASSUME NEW label \in Labels, GoTo(label)
      PROVE  Moves(label, Top.prio, Top.then, Top.status)
  <2> DEFINE f == [Top EXCEPT !.at = label]
  <2>1. /\ f \in Frames /\ f.at = label
        /\ f.prio = Top.prio /\ f.then = Top.then /\ f.status = Top.status
    BY <1>1 DEF Frames
  <2>2. TopBecomes(f)
    BY <1>3 DEF GoTo
  <2> HIDE DEF f
  <2> QED
    BY <1>2, <2>1, <2>2
<1>4. ASSUME NEW prio \in {"ERR", "INFO", "DEBUG"}, NEW label \in {"parse", "run", "exit"},
             LogThen(prio, label)
      PROVE  Moves("log", prio, label, Top.status)
  <2> DEFINE f == [Top EXCEPT !.at = "log", !.prio = prio, !.then = label]
  <2>1. f \in Frames /\ f.at = "log" /\ f.prio = prio /\ f.then = label /\ f.status = Top.status
    BY <1>1 DEF Frames, Labels
  <2>2. TopBecomes(f)
    BY <1>4 DEF LogThen
  <2> HIDE DEF f
  <2> QED
    BY <1>2, <2>1, <2>2
<1>5. ASSUME LogDie("failure", "ERR")
      PROVE  Moves("log", "ERR", "die", "failure")
  <2> DEFINE f == [Top EXCEPT !.at = "log", !.prio = "ERR", !.then = "die", !.status = "failure"]
  <2>1. f \in Frames /\ f.at = "log" /\ f.prio = "ERR" /\ f.then = "die" /\ f.status = "failure"
    BY <1>1 DEF Frames, Labels
  <2>2. TopBecomes(f)
    BY <1>5 DEF LogDie
  <2> HIDE DEF f
  <2> QED
    BY <1>2, <2>1, <2>2
<1>6. ASSUME DieWith("success")
      PROVE  Moves("die", Top.prio, Top.then, "success")
  <2> DEFINE f == [Top EXCEPT !.at = "die", !.status = "success"]
  <2>1. /\ f \in Frames /\ f.at = "die" /\ f.status = "success"
        /\ f.prio = Top.prio /\ f.then = Top.then
    BY <1>1 DEF Frames, Labels
  <2>2. TopBecomes(f)
    BY <1>6 DEF DieWith
  <2> HIDE DEF f
  <2> QED
    BY <1>2, <2>1, <2>2
<1> QED
  BY <1>3, <1>4, <1>5, <1>6

-----------------------------------------------------------------------------
(* The invariant *)

Main == frames[1]

\* A handler does nothing but log and die.
HandlersDie ==
  \A i \in 2..Depth :
    /\ frames[i].at \in {"log", "syslog", "stream", "die", "fclose", "clear", "exit"}
    /\ frames[i].then \in {"die", "exit"}
    /\ frames[i].status = "success"

\* main() up to reinit_log().
Early == Main.at \in {"parse", "check", "reinit"} \/ (Logging(Main) /\ Main.then = "parse")

LogStream == IF opts.log_file = Nil THEN "stdout" ELSE "file"

Phases ==
  /\ handlers = {} => Depth = 1
  /\ Early => handlers = {} /\ logfp = "stdout" /\ basepath = <<>>
  /\ Main.at = "basepath" => handlers = {} /\ basepath = <<>> /\ logfp = LogStream

Streams ==
  /\ logfp \in {"stdout", "file", "closed", "null"}
  /\ logfp \in {"file", "closed"} => opts.log_file # Nil
  /\ logfp = "stdout" /\ basepath # <<>> => opts.log_file = Nil
  /\ \A i \in 1..Depth : Logging(frames[i]) /\ frames[i].then = "exit" => opts.log_file # Nil

\* Between the end of the stream and that of the process.
Closing(f) == f.at \in {"clear", "exit"} \/ (Logging(f) /\ f.then = "exit")

\* reinit_log() has not got its file, and says so.
Unopened ==
  /\ opts.log_file # Nil /\ handlers = {}
  /\ Logging(Main) /\ Main.then = "die" /\ Main.prio = "ERR"

StreamGone == logfp \in {"closed", "null"} => Unopened \/ \E i \in 1..Depth : Closing(frames[i])

ErrorWritten ==
  /\ said.prio = "ERR"
  /\ basepath # <<>> => said.where = LogStream

\* main() on its way to a failure: the error first, then die().
Failure ==
  /\ Main.status = "failure" =>
       /\ Main.at \in {"log", "syslog", "stream", "die", "fclose", "clear", "exit"}
       /\ Logging(Main) => Main.prio = "ERR" /\ Main.then \in {"die", "exit"}
       /\ Depth = 1 /\ ~Logging(Main) => ErrorWritten
  /\ Depth = 1 /\ Logging(Main) /\ Main.then = "exit" => logfp = "closed"

ProcessInv ==
  /\ Stack /\ HandlersDie /\ Phases /\ Streams /\ StreamGone /\ Failure
  /\ StreamThere /\ FailureSaid

LEMMA InitProcess == Init => ProcessInv
<1> SUFFICES ASSUME Init PROVE ProcessInv
  OBVIOUS
<1> DEFINE f == Frame("main", "parse")
<1>1. f \in Frames /\ f.at = "parse" /\ f.status = "success"
  BY FrameIsFrame DEF Labels, Frame
<1>2. frames = <<f>>
  BY DEF Init
<1> HIDE DEF f
<1>3. /\ frames \in Seq(Frames) /\ Len(frames) = 1 /\ frames[1] = f
  BY <1>1, <1>2
<1>4. Stack /\ Depth = 1 /\ Main = f
  BY <1>3 DEF Stack, Depth, Main
<1>5. /\ handlers = {} /\ logfp = "stdout" /\ basepath = <<>> /\ ended = "no"
  BY DEF Init
<1>6. HandlersDie
  BY <1>4 DEF HandlersDie
<1>7. Phases /\ Failure
  BY <1>1, <1>4, <1>5 DEF Phases, Failure, Logging
<1>8. Streams
  BY <1>1, <1>4, <1>5 DEF Streams, Logging, Main
<1> QED
  BY <1>4, <1>5, <1>6, <1>7, <1>8 DEF ProcessInv, StreamGone, StreamThere, FailureSaid

\* What is left to show of a step by which the process does not end, and the top moves.
LEMMA TopStep ==
  ASSUME ProcessInv, ended = "no",
         NEW at, NEW prio, NEW then, NEW status, Moves(at, prio, then, status)
  PROVE  /\ Depth = 1 => Top = Main /\ Top' = Main'
         /\ Depth > 1 => Main' = Main
         /\ Depth > 1 /\ at \in {"log", "syslog", "stream", "die", "fclose", "clear", "exit"}
              /\ then \in {"die", "exit"} /\ status = "success" => HandlersDie'
         /\ Depth = 1 => HandlersDie'
         /\ \A i \in 1..Depth : i = Depth \/ frames'[i] = frames[i]
<1>1. Depth \in Nat \ {0} /\ Depth' = Depth /\ Top = frames[Depth] /\ Top' = frames'[Depth]
  BY DEF ProcessInv, Stack, Moves, Top
<1>2. \A i \in 1..Depth : i # Depth => frames'[i] = frames[i]
  BY DEF Moves
<1>3. 1 \in 1..Depth
  BY <1>1
<1>4. (Depth = 1 => Top = Main /\ Top' = Main') /\ (Depth > 1 => Main' = Main)
  BY <1>1, <1>2, <1>3 DEF Main
<1>5. Depth = 1 => HandlersDie'
  BY <1>1 DEF HandlersDie
<1>6. ASSUME Depth > 1, at \in {"log", "syslog", "stream", "die", "fclose", "clear", "exit"},
             then \in {"die", "exit"}, status = "success"
      PROVE  HandlersDie'
  <2> SUFFICES ASSUME NEW i \in 2..Depth
               PROVE  /\ frames'[i].at \in {"log", "syslog", "stream", "die", "fclose", "clear", "exit"}
                      /\ frames'[i].then \in {"die", "exit"}
                      /\ frames'[i].status = "success"
    BY <1>1 DEF HandlersDie
  <2>1. CASE i = Depth
    BY <1>1, <1>6, <2>1 DEF Moves
  <2>2. CASE i # Depth
    BY <1>1, <1>2, <2>2 DEF ProcessInv, HandlersDie
  <2> QED
    BY <2>1, <2>2
<1> QED
  BY <1>1, <1>2, <1>4, <1>5, <1>6

\* Only main() is at one of its places.
LEMMA MainOnly ==
  ASSUME ProcessInv,
         Top.at \in {"parse", "check", "reinit", "basepath", "umask", "int", "term", "run"}
  PROVE  Depth = 1 /\ Top = Main
BY DEF ProcessInv, Stack, HandlersDie, Top, Main

\* A step that touches neither the stream nor what decides about it, and by which main()
\* comes from one of its places to another, or ends.
LEMMA MainMoves ==
  ASSUME ProcessInv, ended = "no",
         Top.at \in {"parse", "check", "reinit", "basepath", "umask", "int", "term", "run"},
         NEW at \in Labels, NEW prio, NEW then, NEW status, Moves(at, prio, then, status),
         UNCHANGED <<logfp, ended, said>>,
         opts'.log_file = opts.log_file \/ Main.at = "parse",
         Phases', basepath' # <<>> /\ logfp = "stdout" => opts'.log_file = Nil,
         at \notin {"clear", "exit"},
         Logging(Top') => then # "exit",
         status = "failure" => at = "log" /\ prio = "ERR" /\ then = "die"
  PROVE  ProcessInv'
<1>1. /\ Depth = 1 /\ Depth' = 1 /\ Top = Main /\ Top' = Main' /\ HandlersDie' /\ Stack'
      /\ Main'.at = at /\ Main'.prio = prio /\ Main'.then = then /\ Main'.status = status
      /\ Main = frames[1] /\ Main' = frames'[1]
  BY MainOnly, TopStep DEF Moves, Main
<1>2. ~Logging(Main) /\ ~Closing(Main)
  BY <1>1 DEF Logging, Closing
<1>3. logfp \in {"stdout", "file"}
  BY <1>1, <1>2 DEF ProcessInv, StreamGone, Streams, Unopened, Main
<1>4. Main.at = "parse" => logfp = "stdout"
  BY DEF ProcessInv, Phases, Early
<1>5. Streams'
  BY <1>1, <1>3, <1>4 DEF ProcessInv, Streams, Main
<1>6. StreamGone' /\ StreamThere' /\ FailureSaid'
  BY <1>3 DEF StreamGone, StreamThere, FailureSaid
<1>7. Failure'
  BY <1>1 DEF Failure, Logging
<1> QED
  BY <1>1, <1>5, <1>6, <1>7 DEF ProcessInv

-----------------------------------------------------------------------------
(* main() *)

LEMMA AtPlace ==
  ASSUME ProcessInv, NEW label \in {"parse", "check", "reinit", "basepath", "umask", "int",
                                     "term", "run"}, At(label)
  PROVE  /\ ended = "no" /\ Top.at = label /\ Main.at = label /\ Depth = 1 /\ Top = Main
         /\ Top.status # "failure" /\ Stack
<1>1. ended = "no" /\ Top.at = label
  BY DEF At
<1>2. Depth = 1 /\ Top = Main
  BY <1>1, MainOnly
<1> QED
  BY <1>1, <1>2 DEF ProcessInv, Failure

LEMMA ParseOptionKeeps == ASSUME ProcessInv, ParseOption PROVE ProcessInv'
<1>1. /\ ended = "no" /\ Top.at = "parse" /\ Main.at = "parse" /\ Depth = 1 /\ Top = Main
      /\ Top.status # "failure" /\ Stack
  BY AtPlace DEF ParseOption
<1>2. /\ handlers = {} /\ logfp = "stdout" /\ basepath = <<>>
      /\ UNCHANGED <<handlers, logfp, basepath, ended, said>>
  BY <1>1 DEF ProcessInv, Phases, Early, ParseOption, logVars, sigVars
<1>3. \/ UNCHANGED frames
      \/ Moves("log", "ERR", "die", "failure")
      \/ Moves("die", Top.prio, Top.then, "success")
  BY <1>1, TopMoves DEF ParseOption
<1>4. CASE UNCHANGED frames
  <2>1. UNCHANGED <<Depth, Main>> /\ Stack' /\ HandlersDie'
    BY <1>1, <1>4 DEF Depth, Main, Stack, ProcessInv, HandlersDie
  <2>2. Phases'
    BY <1>1, <1>2, <2>1 DEF Phases, Early
  <2>3. Streams'
    BY <1>1, <1>2, <1>4, <2>1 DEF Streams, Main, Logging
  <2>4. Failure'
    BY <1>1, <1>2, <2>1 DEF ProcessInv, Failure, Logging
  <2> QED
    BY <1>1, <1>2, <2>1, <2>2, <2>3, <2>4 DEF ProcessInv, StreamGone, StreamThere, FailureSaid
<1>5. ASSUME NEW at \in Labels, NEW prio, NEW then, NEW status, Moves(at, prio, then, status),
             (at = "log" /\ then = "die") \/ at = "die"
      PROVE  Phases' /\ Top' = Main' /\ Top'.at = at
  <2>1. Depth' = 1 /\ Top' = Main' /\ Top'.at = at /\ Top'.then = then
    BY <1>1, <1>5, TopStep DEF Moves
  <2> QED
    BY <1>2, <1>5, <2>1 DEF Phases, Early, Logging
<1>6. CASE Moves("log", "ERR", "die", "failure")
  <2>1. Phases'
    BY <1>5, <1>6 DEF Labels
  <2> QED
    BY <1>1, <1>2, <1>6, <2>1, MainMoves DEF Labels
<1>7. CASE Moves("die", Top.prio, Top.then, "success")
  <2>1. Phases' /\ ~Logging(Top')
    BY <1>5, <1>7 DEF Labels, Logging
  <2> QED
    BY <1>1, <1>2, <1>7, <2>1, MainMoves DEF Labels
<1> QED
  BY <1>3, <1>4, <1>6, <1>7

\* A step of main() that moves it, when the stream and what decides about it stay.
LEMMA MainGoes ==
  ASSUME ProcessInv,
         NEW label \in {"parse", "check", "reinit", "basepath", "umask", "int", "term", "run"},
         At(label),
         NEW at \in Labels, NEW prio, NEW then, NEW status, Moves(at, prio, then, status),
         UNCHANGED <<logfp, ended, said, opts>>,
         at \notin {"basepath", "clear", "exit"},
         handlers \subseteq handlers',
         at \in {"parse", "check", "reinit"} \/ (at = "log" /\ then = "parse") =>
           label \in {"parse", "check"} /\ UNCHANGED <<handlers, basepath>>,
         basepath' # <<>> /\ logfp = "stdout" => opts.log_file = Nil,
         at \in {"log", "syslog", "stream"} => then # "exit" /\ at = "log",
         status = "failure" => at = "log" /\ prio = "ERR" /\ then = "die"
  PROVE  ProcessInv'
<1>1. /\ ended = "no" /\ Top.at = label /\ Main.at = label /\ Depth = 1 /\ Top = Main
      /\ Top.status # "failure" /\ Stack
  BY AtPlace
<1>2. Depth' = 1 /\ Top' = Main' /\ Top'.at = at /\ Top'.then = then
  BY <1>1, TopStep DEF Moves
<1>3. Phases'
  BY <1>1, <1>2 DEF ProcessInv, Phases, Early, Logging
<1>4. Logging(Top') => then # "exit"
  BY <1>2 DEF Logging
<1> QED
  BY <1>1, <1>3, <1>4, MainMoves

LEMMA ParseRestKeeps == ASSUME ProcessInv, ParseRest PROVE ProcessInv'
<1>1. Top.status # "failure" /\ Stack /\ At("parse")
  BY AtPlace DEF ParseRest
<1>2. /\ UNCHANGED <<logfp, ended, said, opts, handlers, basepath>>
      /\ basepath = <<>>
  BY <1>1, AtPlace DEF ParseRest, logVars, sigVars, ProcessInv, Phases, Early
<1>3. \/ Moves("die", Top.prio, Top.then, "success")
      \/ Moves("log", "ERR", "parse", Top.status)
      \/ Moves("check", Top.prio, Top.then, Top.status)
  BY <1>1, TopMoves DEF ParseRest, Labels
<1>4. CASE Moves("die", Top.prio, Top.then, "success")
  BY <1>1, <1>2, <1>4, MainGoes DEF Labels
<1>5. CASE Moves("log", "ERR", "parse", Top.status)
  BY <1>1, <1>2, <1>5, MainGoes DEF Labels
<1>6. CASE Moves("check", Top.prio, Top.then, Top.status)
  BY <1>1, <1>2, <1>6, MainGoes DEF Labels
<1> QED
  BY <1>3, <1>4, <1>5, <1>6

LEMMA CheckOptionsKeeps == ASSUME ProcessInv, CheckOptions PROVE ProcessInv'
<1>1. Top.status # "failure" /\ Stack /\ At("check")
  BY AtPlace DEF CheckOptions
<1>2. /\ UNCHANGED <<logfp, ended, said, opts, handlers, basepath>>
      /\ basepath = <<>>
  BY <1>1, AtPlace DEF CheckOptions, logVars, sigVars, cmdVars, ProcessInv, Phases, Early
<1>3. \/ Moves("log", "ERR", "die", "failure")
      \/ Moves("reinit", Top.prio, Top.then, Top.status)
  BY <1>1, TopMoves DEF CheckOptions, Labels
<1>4. CASE Moves("log", "ERR", "die", "failure")
  BY <1>1, <1>2, <1>4, MainGoes DEF Labels
<1>5. CASE Moves("reinit", Top.prio, Top.then, Top.status)
  BY <1>1, <1>2, <1>5, MainGoes DEF Labels
<1> QED
  BY <1>3, <1>4, <1>5

LEMMA ReinitLogKeeps == ASSUME ProcessInv, ReinitLog PROVE ProcessInv'
<1>1. /\ ended = "no" /\ Top.at = "reinit" /\ Main.at = "reinit" /\ Depth = 1 /\ Top = Main
      /\ Top.status # "failure" /\ Stack
  BY AtPlace DEF ReinitLog
<1>2. /\ handlers = {} /\ basepath = <<>>
      /\ UNCHANGED <<handlers, ended, said, opts, basepath>>
  BY <1>1 DEF ReinitLog, sigVars, cmdVars, ProcessInv, Phases, Early
<1>3. \/ logfp' = LogStream /\ Moves("basepath", Top.prio, Top.then, Top.status)
      \/ opts.log_file # Nil /\ logfp' = "null" /\ Moves("log", "ERR", "die", "failure")
  BY <1>1, TopMoves DEF ReinitLog, Labels, LogStream, DefaultStream
<1>4. /\ Depth' = 1 /\ Top' = Main' /\ HandlersDie' /\ Stack' /\ Main' = frames'[1]
  BY <1>1, <1>3, TopStep DEF Moves, Main
<1>5. CASE logfp' = LogStream /\ Moves("basepath", Top.prio, Top.then, Top.status)
  <2>1. Main'.at = "basepath" /\ Main'.status # "failure"
    BY <1>1, <1>4, <1>5 DEF Moves
  <2>2. Phases' /\ Streams' /\ StreamGone' /\ Failure'
    BY <1>2, <1>4, <1>5, <2>1
       DEF Phases, Early, Streams, StreamGone, Failure, LogStream, Logging
  <2> QED
    BY <1>1, <1>2, <1>4, <2>2 DEF ProcessInv, StreamThere, FailureSaid
<1>6. CASE opts.log_file # Nil /\ logfp' = "null" /\ Moves("log", "ERR", "die", "failure")
  <2>1. Main'.at = "log" /\ Main'.prio = "ERR" /\ Main'.then = "die"
    BY <1>4, <1>6 DEF Moves
  <2>2. Phases' /\ Streams' /\ StreamGone' /\ Failure'
    BY <1>2, <1>4, <1>6, <2>1
       DEF Phases, Early, Streams, StreamGone, Unopened, Failure, Logging
  <2> QED
    BY <1>1, <1>2, <1>4, <2>2 DEF ProcessInv, StreamThere, FailureSaid
<1> QED
  BY <1>3, <1>5, <1>6

LEMMA SetBasepathKeeps == ASSUME ProcessInv, SetBasepath PROVE ProcessInv'
<1>1. Top.status # "failure" /\ Stack /\ At("basepath") /\ Main.at = "basepath"
  BY AtPlace DEF SetBasepath
<1>2. /\ UNCHANGED <<logfp, ended, said, opts, handlers>>
      /\ logfp = "stdout" => opts.log_file = Nil
  BY <1>1 DEF SetBasepath, logVars, sigVars, cmdVars, ProcessInv, Phases, LogStream
<1>3. \/ Moves("log", "ERR", "die", "failure")
      \/ Moves("umask", Top.prio, Top.then, Top.status)
  BY <1>1, TopMoves DEF SetBasepath, Labels
<1>4. CASE Moves("log", "ERR", "die", "failure")
  BY <1>1, <1>2, <1>4, MainGoes DEF Labels
<1>5. CASE Moves("umask", Top.prio, Top.then, Top.status)
  BY <1>1, <1>2, <1>5, MainGoes DEF Labels
<1> QED
  BY <1>3, <1>4, <1>5

LEMMA SetMaskKeeps == ASSUME ProcessInv, SetMask PROVE ProcessInv'
<1>1. Top.status # "failure" /\ Stack /\ At("umask")
  BY AtPlace DEF SetMask
<1>2. /\ UNCHANGED <<logfp, ended, said, opts, handlers, basepath>>
      /\ basepath # <<>> /\ logfp = "stdout" => opts.log_file = Nil
  BY DEF SetMask, logVars, sigVars, cmdVars, ProcessInv, Streams
<1>3. \/ Moves("log", "ERR", "die", "failure")
      \/ Moves("int", Top.prio, Top.then, Top.status)
  BY <1>1, TopMoves DEF SetMask, Labels
<1>4. CASE Moves("log", "ERR", "die", "failure")
  BY <1>1, <1>2, <1>4, MainGoes DEF Labels
<1>5. CASE Moves("int", Top.prio, Top.then, Top.status)
  BY <1>1, <1>2, <1>5, MainGoes DEF Labels
<1> QED
  BY <1>3, <1>4, <1>5

LEMMA InstallKeeps == ASSUME ProcessInv, InstallInt \/ InstallTerm PROVE ProcessInv'
<1>1. CASE InstallInt
  <2>1. Top.status # "failure" /\ Stack /\ At("int")
    BY <1>1, AtPlace DEF InstallInt
  <2>2. /\ UNCHANGED <<logfp, ended, said, opts, basepath>> /\ handlers \subseteq handlers'
        /\ basepath # <<>> /\ logfp = "stdout" => opts.log_file = Nil
    BY <1>1 DEF InstallInt, logVars, cmdVars, ProcessInv, Streams
  <2>3. Moves("term", Top.prio, Top.then, Top.status)
    BY <1>1, <2>1, TopMoves DEF InstallInt, Labels
  <2> QED
    BY <2>1, <2>2, <2>3, MainGoes DEF Labels
<1>2. CASE InstallTerm
  <2>1. Top.status # "failure" /\ Stack /\ At("term")
    BY <1>2, AtPlace DEF InstallTerm
  <2>2. /\ UNCHANGED <<logfp, ended, said, opts, basepath>> /\ handlers \subseteq handlers'
        /\ basepath # <<>> /\ logfp = "stdout" => opts.log_file = Nil
    BY <1>2 DEF InstallTerm, logVars, cmdVars, ProcessInv, Streams
  <2>3. Moves("run", Top.prio, Top.then, Top.status)
    BY <1>2, <2>1, TopMoves DEF InstallTerm, Labels
  <2> QED
    BY <2>1, <2>2, <2>3, MainGoes DEF Labels
<1> QED
  BY <1>1, <1>2

LEMMA RunKeeps == ASSUME ProcessInv, Run PROVE ProcessInv'
<1>1. Top.status # "failure" /\ Stack /\ At("run")
  BY AtPlace DEF Run
<1>2. /\ UNCHANGED <<logfp, ended, said, opts, handlers, basepath>>
      /\ basepath # <<>> /\ logfp = "stdout" => opts.log_file = Nil
  BY DEF Run, logVars, sigVars, cmdVars, ProcessInv, Streams
<1>3. \/ \E prio \in {"INFO", "DEBUG"} : Moves("log", prio, "run", Top.status)
      \/ Moves("log", "ERR", "die", "failure")
      \/ Moves("die", Top.prio, Top.then, "success")
  BY <1>1, TopMoves DEF Run
<1>4. CASE \E prio \in {"INFO", "DEBUG"} : Moves("log", prio, "run", Top.status)
  BY <1>1, <1>2, <1>4, MainGoes DEF Labels
<1>5. CASE Moves("log", "ERR", "die", "failure")
  BY <1>1, <1>2, <1>5, MainGoes DEF Labels
<1>6. CASE Moves("die", Top.prio, Top.then, "success")
  BY <1>1, <1>2, <1>6, MainGoes DEF Labels
<1> QED
  BY <1>3, <1>4, <1>5, <1>6

-----------------------------------------------------------------------------
(* do_log() and die() *)

\* The process ends, or nothing of this happens.
LEMMA SameStack ==
  ASSUME ProcessInv, UNCHANGED <<frames, opts, logfp, handlers, basepath, said>>,
         StreamThere', FailureSaid'
  PROVE  ProcessInv'
<1>1. UNCHANGED <<Depth, Main, LogStream>>
  BY DEF Depth, Main, LogStream
<1>2. Stack' /\ HandlersDie'
  BY <1>1 DEF ProcessInv, Stack, HandlersDie
<1>3. Phases' /\ Failure'
  BY <1>1 DEF ProcessInv, Phases, Early, Failure, ErrorWritten, Logging
<1>4. Streams'
  BY <1>1 DEF ProcessInv, Streams, Logging
<1>5. StreamGone'
  BY <1>1 DEF ProcessInv, StreamGone, Unopened, Closing, Logging
<1> QED
  BY <1>2, <1>3, <1>4, <1>5 DEF ProcessInv

LEMMA TopOfHandler ==
  ASSUME ProcessInv
  PROVE  /\ Depth \in Nat \ {0} /\ Top = frames[Depth] /\ Top \in Frames
         /\ Depth > 1 =>
              /\ Top.at \in {"log", "syslog", "stream", "die", "fclose", "clear", "exit"}
              /\ Top.then \in {"die", "exit"} /\ Top.status = "success"
              /\ handlers # {}
BY TopIsFrame DEF ProcessInv, Stack, HandlersDie, Top, Phases

\* Before the record: the frame keeps all but its place.
LEMMA StillLogging ==
  ASSUME ProcessInv, ended = "no", Logging(Top),
         NEW label \in {"syslog", "stream"}, Moves(label, Top.prio, Top.then, Top.status),
         UNCHANGED <<opts, logfp, handlers, basepath, said, ended>>
  PROVE  ProcessInv'
<1>1. /\ Depth = 1 => Top = Main /\ Top' = Main'
      /\ Depth > 1 => Main' = Main
      /\ HandlersDie'
      /\ \A i \in 1..Depth : i = Depth \/ frames'[i] = frames[i]
  BY TopStep, TopOfHandler
<1>2. /\ Stack' /\ Depth' = Depth /\ Top' = frames'[Depth] /\ Top = frames[Depth]
      /\ Depth \in Nat \ {0} /\ Logging(Top') /\ Top'.at = label
      /\ Top'.prio = Top.prio /\ Top'.then = Top.then /\ Top'.status = Top.status
  BY TopOfHandler DEF Moves, Logging
<1>3. LogStream' = LogStream
  BY DEF LogStream
<1>4. Phases'
  BY <1>1, <1>2, <1>3 DEF ProcessInv, Phases, Early, Logging
<1>5. Streams'
  BY <1>1, <1>2 DEF ProcessInv, Streams, Logging
<1>6. StreamGone'
  <2>1. ASSUME NEW i \in 1..Depth, Closing(frames[i])
        PROVE  Closing(frames'[i])
    BY <1>1, <1>2, <2>1 DEF Closing, Logging
  <2>2. ASSUME Unopened PROVE Unopened'
    BY <1>1, <1>2, <2>2 DEF Unopened, ProcessInv, Phases, Logging
  <2> QED
    BY <1>2, <2>1, <2>2 DEF ProcessInv, StreamGone
<1>7. Failure'
  BY <1>1, <1>2, <1>3 DEF ProcessInv, Failure, ErrorWritten, Logging
<1>8. StreamThere' /\ FailureSaid'
  BY DEF StreamThere, FailureSaid
<1> QED
  BY <1>1, <1>2, <1>4, <1>5, <1>6, <1>7, <1>8 DEF ProcessInv

\* After the record, which is left out or on the stream.
LEMMA Logged ==
  ASSUME ProcessInv, ended = "no", Logging(Top),
         Moves(Top.then, Top.prio, Top.then, Top.status),
         UNCHANGED <<opts, logfp, handlers, basepath, ended>>,
         \/ said' = said /\ Top.prio # "ERR"
         \/ said' = [prio |-> Top.prio, where |-> logfp] /\ logfp \notin {"closed", "null"}
  PROVE  ProcessInv'
<1>1. /\ Depth = 1 => Top = Main /\ Top' = Main'
      /\ Depth > 1 => Main' = Main
      /\ HandlersDie'
      /\ \A i \in 1..Depth : i = Depth \/ frames'[i] = frames[i]
  BY TopStep, TopOfHandler
<1>2. /\ Stack' /\ Depth' = Depth /\ Top' = frames'[Depth] /\ Top = frames[Depth]
      /\ Depth \in Nat \ {0} /\ Top'.at = Top.then
      /\ Top'.prio = Top.prio /\ Top'.then = Top.then /\ Top'.status = Top.status
      /\ Top.then \in {"parse", "run", "die", "exit"}
      /\ Depth > 1 => Top.then \in {"die", "exit"}
      /\ ~Logging(Top')
  BY TopOfHandler DEF Moves, Logging, Frames
<1>3. LogStream' = LogStream
  BY DEF LogStream
<1>4. Phases'
  BY <1>1, <1>2, <1>3 DEF ProcessInv, Phases, Early
<1>5. Streams'
  BY <1>1, <1>2 DEF ProcessInv, Streams
<1>6. StreamGone'
  <2>1. ASSUME NEW i \in 1..Depth, Closing(frames[i])
        PROVE  Closing(frames'[i])
    BY <1>1, <1>2, <2>1 DEF Closing, Logging
  <2>2. Unopened => logfp \notin {"closed", "null"}
    BY <1>1, <1>2 DEF Unopened, ProcessInv, Phases
  <2> QED
    BY <1>2, <2>1, <2>2 DEF ProcessInv, StreamGone
<1>7. Failure'
  <2>1. CASE Depth > 1
    BY <1>1, <1>2, <2>1 DEF ProcessInv, Failure
  <2>2. CASE Depth = 1 /\ Main.status # "failure"
    BY <1>1, <1>2, <2>2 DEF Failure
  <2>3. CASE Depth = 1 /\ Main.status = "failure"
    <3>1. Main.prio = "ERR" /\ Main.then \in {"die", "exit"}
      BY <1>1, <2>3 DEF ProcessInv, Failure
    <3>2. said' = [prio |-> "ERR", where |-> logfp] /\ logfp \in {"stdout", "file"}
      BY <1>1, <2>3, <3>1 DEF ProcessInv, Streams
    <3>3. ErrorWritten'
      BY <3>2 DEF ErrorWritten, ProcessInv, Streams, LogStream
    <3> QED
      BY <1>1, <1>2, <2>3, <3>1, <3>3 DEF Failure
  <2> QED
    BY <1>2, <2>1, <2>2, <2>3
<1>8. StreamThere' /\ FailureSaid'
  BY DEF StreamThere, FailureSaid
<1> QED
  BY <1>1, <1>2, <1>4, <1>5, <1>6, <1>7, <1>8 DEF ProcessInv

LEMMA LogBeginKeeps == ASSUME ProcessInv, LogBegin PROVE ProcessInv'
<1>1. /\ ended = "no" /\ Logging(Top) /\ Stack
      /\ UNCHANGED <<opts, logfp, handlers, basepath, said>>
  BY DEF LogBegin, At, Logging, ProcessInv, logVars, sigVars, cmdVars
<1>2. Top.then \in Labels
  BY TopOfHandler DEF Frames, Labels
<1>3. CASE Filtered(Top.prio) /\ GoTo(Top.then) /\ UNCHANGED ended
  <2>1. Moves(Top.then, Top.prio, Top.then, Top.status) /\ Top.prio # "ERR"
    BY <1>1, <1>2, <1>3, TopMoves DEF Filtered
  <2> QED
    BY <1>1, <1>3, <2>1, Logged
<1>4. CASE GoTo(IF syslogging THEN "syslog" ELSE "stream") /\ UNCHANGED ended
  <2>1. PICK label \in {"syslog", "stream"} : GoTo(label)
    BY <1>4
  <2>2. Moves(label, Top.prio, Top.then, Top.status)
    BY <1>1, <2>1, TopMoves DEF Labels
  <2> QED
    BY <1>1, <1>4, <2>2, StillLogging
<1>5. CASE ended' = "hung" /\ UNCHANGED frames
  BY <1>1, <1>5, SameStack DEF StreamThere, FailureSaid
<1> QED
  BY <1>3, <1>4, <1>5 DEF LogBegin

LEMMA SyslogReturnsKeeps == ASSUME ProcessInv, SyslogReturns PROVE ProcessInv'
<1>1. /\ ended = "no" /\ Logging(Top) /\ Stack
      /\ UNCHANGED <<opts, logfp, handlers, basepath, said, ended>>
  BY DEF SyslogReturns, At, Logging, ProcessInv, logVars, sigVars, cmdVars
<1>2. Moves("stream", Top.prio, Top.then, Top.status)
  BY <1>1, TopMoves DEF Labels, SyslogReturns
<1> QED
  BY <1>1, <1>2, StillLogging

\* Where the stream is gone, whoever let it go is below, or at the top and about it.
LEMMA StreamGoneAt ==
  ASSUME ProcessInv, logfp \in {"closed", "null"}, Top.at \in {"stream", "fclose"}
  PROVE  \/ opts.log_file # Nil /\ (Depth = 1 \/ Top.then = "exit") /\ Top.at = "stream"
         \/ \E i \in 1..(Depth - 1) : Closing(frames[i])
<1>1. Depth \in Nat \ {0} /\ Top = frames[Depth]
  BY TopOfHandler
<1>2. CASE Unopened
  BY <1>1, <1>2 DEF Unopened, ProcessInv, Phases, Main, Logging
<1>3. CASE Closing(Top)
  <2>1. Logging(Top) /\ Top.then = "exit" /\ Top.at = "stream"
    BY <1>3 DEF Closing, Logging
  <2>2. Depth \in 1..Depth
    BY <1>1
  <2> QED
    BY <1>1, <2>1, <2>2 DEF ProcessInv, Streams
<1>4. CASE \E i \in 1..(Depth - 1) : Closing(frames[i])
  BY <1>4
<1>5. \A i \in 1..Depth : i = Depth \/ i \in 1..(Depth - 1)
  BY <1>1
<1> QED
  BY <1>1, <1>2, <1>3, <1>4, <1>5 DEF ProcessInv, StreamGone

LEMMA WriteRecordKeeps == ASSUME ProcessInv, WriteRecord PROVE ProcessInv'
<1>1. /\ ended = "no" /\ Top.at = "stream" /\ Logging(Top) /\ Stack
      /\ UNCHANGED <<opts, logfp, handlers, basepath>>
  BY DEF WriteRecord, At, Logging, ProcessInv, logVars, sigVars, cmdVars
<1>2. CASE logfp \in {"null", "closed"}
  <2>1. ended' \in {"aborted", "undefined"} /\ UNCHANGED <<said, frames>>
    BY <1>2 DEF WriteRecord
  <2>2. StreamThere'
    BY <1>1, <1>2, <2>1, StreamGoneAt DEF StreamThere, Closing, Logging, Depth, Top
  <2> QED
    BY <1>1, <2>1, <2>2, SameStack DEF FailureSaid
<1>3. CASE logfp \notin {"null", "closed"}
  <2>1. said' = [prio |-> Top.prio, where |-> logfp] /\ GoTo(Top.then) /\ UNCHANGED ended
    BY <1>3 DEF WriteRecord
  <2>2. Top.then \in Labels
    BY TopOfHandler DEF Frames, Labels
  <2>3. Moves(Top.then, Top.prio, Top.then, Top.status)
    BY <1>1, <2>1, <2>2, TopMoves
  <2> QED
    BY <1>1, <1>3, <2>1, <2>3, Logged
<1> QED
  BY <1>2, <1>3

\* From one step of close_log() to the next, or to the record about fclose().
LEMMA DieGoes ==
  ASSUME ProcessInv, ended = "no", Top.at \in {"die", "fclose", "clear"},
         NEW at \in {"log", "fclose", "clear", "exit"}, NEW prio, NEW then,
         Moves(at, prio, then, Top.status), Top.at = "clear" => at = "exit",
         UNCHANGED <<opts, handlers, basepath, said, ended>>,
         \/ at = "log" /\ prio = "ERR" /\ then = "exit" /\ logfp = "file" /\ logfp' = "closed"
         \/ /\ at # "log" /\ then = Top.then
            /\ \/ logfp' = logfp
               \/ at = "clear" /\ logfp = "file" /\ logfp' = "closed"
               \/ at = "exit" /\ logfp' = "null"
  PROVE  ProcessInv'
<1>1. /\ Depth \in Nat \ {0} /\ Top = frames[Depth]
      /\ Depth > 1 => Top.then \in {"die", "exit"} /\ Top.status = "success" /\ handlers # {}
  BY TopOfHandler
<1>2. /\ Depth = 1 => Top = Main /\ Top' = Main'
      /\ Depth > 1 => Main' = Main
      /\ HandlersDie'
      /\ \A i \in 1..Depth : i = Depth \/ frames'[i] = frames[i]
  BY <1>1, TopStep
<1>3. /\ Stack' /\ Depth' = Depth /\ Top' = frames'[Depth]
      /\ Top'.at = at /\ Top'.prio = prio /\ Top'.then = then /\ Top'.status = Top.status
  BY DEF Moves
<1>4. LogStream' = LogStream /\ ~Logging(Top)
  BY DEF LogStream, Logging
<1>5. Phases'
  BY <1>1, <1>2, <1>3, <1>4 DEF ProcessInv, Phases, Early, Logging
<1>6. Streams'
  BY <1>1, <1>2, <1>3 DEF ProcessInv, Streams, Logging
<1>7. StreamGone'
  <2>1. ASSUME at # "fclose"
        PROVE  Closing(Top') \/ logfp' = logfp
    BY <1>3, <2>1 DEF Closing, Logging
  <2>2. ASSUME Closing(Top')
        PROVE  StreamGone'
    <3>1. Depth \in 1..Depth' /\ Top' = frames'[Depth]
      BY <1>1, <1>3
    <3> QED
      BY <2>2, <3>1 DEF StreamGone
  <2>3. ASSUME logfp' = logfp, at # "log"
        PROVE  StreamGone'
    <3>1. ~Unopened
      BY <1>2, <1>4 DEF Unopened, ProcessInv, Phases
    <3>2. ASSUME NEW i \in 1..Depth, Closing(frames[i])
          PROVE  Closing(frames'[i])
      BY <1>1, <1>2, <1>3, <1>4, <2>3, <3>2 DEF Closing, Logging
    <3> QED
      BY <1>3, <2>3, <3>1, <3>2 DEF ProcessInv, StreamGone
  <2> QED
    BY <2>1, <2>2, <2>3
<1>8. Failure'
  BY <1>1, <1>2, <1>3, <1>4 DEF ProcessInv, Failure, ErrorWritten, Logging
<1>9. StreamThere' /\ FailureSaid'
  BY DEF StreamThere, FailureSaid
<1> QED
  BY <1>2, <1>3, <1>5, <1>6, <1>7, <1>8, <1>9 DEF ProcessInv

LEMMA DieKeeps ==
  ASSUME ProcessInv, CloseSyslog \/ CloseFile \/ ClearStream \/ Exit
  PROVE  ProcessInv'
<1>1. /\ ended = "no" /\ Stack
      /\ UNCHANGED <<opts, handlers, basepath, said>>
  BY DEF CloseSyslog, CloseFile, ClearStream, Exit, At, ProcessInv, logVars, sigVars, cmdVars
<1>2. CASE CloseSyslog
  <2>1. Top.at = "die" /\ UNCHANGED logfp
    BY <1>2 DEF CloseSyslog, At
  <2>2. CASE GoTo("fclose") /\ UNCHANGED ended
    <3>1. Moves("fclose", Top.prio, Top.then, Top.status)
      BY <1>1, <2>2, TopMoves DEF Labels
    <3> QED
      BY <1>1, <2>1, <2>2, <3>1, DieGoes
  <2>3. CASE ended' = "hung" /\ UNCHANGED frames
    BY <1>1, <2>1, <2>3, SameStack DEF StreamThere, FailureSaid
  <2> QED
    BY <1>2, <2>2, <2>3 DEF CloseSyslog
<1>3. CASE CloseFile
  <2>1. Top.at = "fclose"
    BY <1>3 DEF CloseFile, At
  <2>2. CASE /\ logfp' = logfp \/ (logfp = "file" /\ logfp' = "closed")
             /\ GoTo("clear") /\ UNCHANGED ended
    <3>1. Moves("clear", Top.prio, Top.then, Top.status)
      BY <1>1, <2>2, TopMoves DEF Labels
    <3> QED
      BY <1>1, <2>1, <2>2, <3>1, DieGoes
  <2>3. CASE logfp = "file" /\ logfp' = "closed" /\ LogThen("ERR", "exit") /\ UNCHANGED ended
    <3>1. Moves("log", "ERR", "exit", Top.status)
      BY <1>1, <2>3, TopMoves
    <3> QED
      BY <1>1, <2>1, <2>3, <3>1, DieGoes
  <2>4. CASE logfp = "closed" /\ ended' = "undefined" /\ UNCHANGED <<logfp, frames>>
    <3>1. StreamThere'
      BY <2>1, <2>4, StreamGoneAt DEF StreamThere, Closing, Logging, Depth, Top
    <3> QED
      BY <1>1, <2>4, <3>1, SameStack DEF FailureSaid
  <2> QED
    BY <1>3, <2>2, <2>3, <2>4 DEF CloseFile
<1>4. CASE ClearStream
  <2>1. Top.at = "clear" /\ logfp' = "null" /\ GoTo("exit") /\ UNCHANGED ended
    BY <1>4 DEF ClearStream, At
  <2>2. Moves("exit", Top.prio, Top.then, Top.status)
    BY <1>1, <2>1, TopMoves DEF Labels
  <2> QED
    BY <1>1, <2>1, <2>2, DieGoes
<1>5. CASE Exit
  <2>1. Top.at = "exit" /\ ended' = Top.status /\ UNCHANGED <<logfp, frames>>
    BY <1>5 DEF Exit, At, logVars
  <2>2. StreamThere'
    BY <2>1, TopOfHandler DEF StreamThere, Frames
  <2>3. Top.status = "failure" => ErrorWritten
    BY <2>1, TopOfHandler DEF ProcessInv, Failure, Main, Logging
  <2>4. FailureSaid'
    BY <1>1, <2>1, <2>3 DEF FailureSaid, ErrorWritten, LogStream
  <2> QED
    BY <1>1, <2>1, <2>2, <2>4, SameStack
<1> QED
  BY <1>2, <1>3, <1>4, <1>5

-----------------------------------------------------------------------------
(* Signals, users and calls *)

LEMMA DeliverKeeps ==
  ASSUME ProcessInv, NEW s \in Signals, Deliver(s)
  PROVE  ProcessInv'
<1>1. /\ ended = "no" /\ UNCHANGED <<opts, logfp, handlers, basepath, said>>
  BY DEF Deliver, logVars, cmdVars
<1>2. CASE ended' = "killed" /\ UNCHANGED frames
  BY <1>1, <1>2, SameStack DEF StreamThere, FailureSaid
<1>3. CASE s \in handlers /\ frames' = Append(frames, Handler(s)) /\ UNCHANGED ended
  <2> DEFINE f == Handler(s)
  <2>1. /\ f \in Frames /\ f.at = "log" /\ f.then = "die" /\ f.status = "success"
    BY DEF Handler, Frame, Frames, Labels
  <2>2. frames' = Append(frames, f)
    BY <1>3
  <2> HIDE DEF f
  <2>3. frames \in Seq(Frames) /\ Depth \in Nat \ {0} /\ Depth = Len(frames)
    BY DEF ProcessInv, Stack, Depth
  <2>4. /\ frames' \in Seq(Frames) /\ Depth' = Depth + 1 /\ frames'[Depth + 1] = f
        /\ \A i \in 1..Depth : frames'[i] = frames[i]
    BY <2>1, <2>2, <2>3, AppendProperties DEF Depth
  <2>5. Stack' /\ Main' = Main
    BY <2>3, <2>4 DEF Stack, Main
  <2>6. HandlersDie'
    <3>1. \A i \in 2..Depth + 1 : i = Depth + 1 \/ i \in 2..Depth
      BY <2>3
    <3> QED
      BY <2>1, <2>3, <2>4, <3>1 DEF ProcessInv, HandlersDie
  <2>7. Phases'
    BY <1>1, <1>3, <2>5 DEF ProcessInv, Phases, Early, LogStream
  <2>8. Streams'
    <3>1. \A i \in 1..Depth + 1 : i = Depth + 1 \/ i \in 1..Depth
      BY <2>3
    <3> QED
      BY <1>1, <2>1, <2>4, <3>1 DEF ProcessInv, Streams
  <2>9. StreamGone'
    <3>1. ~Unopened
      BY <1>3 DEF Unopened
    <3>2. \A i \in 1..Depth : i \in 1..Depth + 1
      BY <2>3
    <3> QED
      BY <1>1, <2>4, <3>1, <3>2 DEF ProcessInv, StreamGone
  <2>10. Failure'
    BY <1>1, <2>3, <2>4, <2>5 DEF ProcessInv, Failure
  <2>11. StreamThere' /\ FailureSaid'
    BY <1>1, <1>3 DEF StreamThere, FailureSaid
  <2> QED
    BY <2>5, <2>6, <2>7, <2>8, <2>9, <2>10, <2>11 DEF ProcessInv
<1> QED
  BY <1>2, <1>3 DEF Deliver

LEMMA PathStepKeeps == ASSUME ProcessInv, PathStep PROVE ProcessInv'
<1>1. /\ ended = "no" /\ Top.at = "run" /\ Stack /\ Depth = 1 /\ Top = Main
      /\ UNCHANGED <<opts, logfp, handlers, said, ended, basepath>>
  BY MainOnly DEF PathStep, ProcessInv, CallPath, ReturnPath, logVars, sigVars, cmdVars
<1>2. CASE UNCHANGED frames
  BY <1>1, <1>2, SameStack DEF StreamThere, FailureSaid
<1>3. CASE LogDie("failure", "ERR")
  <2>1. Moves("log", "ERR", "die", "failure")
    BY <1>1, <1>3, TopMoves
  <2>2. Depth' = 1 /\ Main'.at = "log" /\ Main'.then = "die" /\ Top'.then = "die"
    BY <1>1, <2>1, TopStep DEF Moves
  <2>3. Phases'
    BY <1>1, <2>2 DEF ProcessInv, Phases, Early
  <2>4. basepath' # <<>> /\ logfp = "stdout" => opts'.log_file = Nil
    BY <1>1 DEF ProcessInv, Streams
  <2> QED
    BY <1>1, <2>1, <2>2, <2>3, <2>4, MainMoves DEF Labels
<1> QED
  BY <1>2, <1>3 DEF PathStep

LEMMA OthersKeep ==
  ASSUME ProcessInv, \/ \E s \in Signals : Send(s)
                     \/ ChangeMonitored
                     \/ Ended
                     \/ UNCHANGED vars
  PROVE  ProcessInv'
<1>1. UNCHANGED <<frames, opts, logfp, handlers, basepath, said, ended>>
  BY DEF Send, ChangeMonitored, Ended, vars, logVars, sigVars, cmdVars
<1>2. StreamThere' /\ FailureSaid'
  BY <1>1 DEF ProcessInv, StreamThere, FailureSaid, Depth, Top
<1> QED
  BY <1>1, <1>2, SameStack

LEMMA StepProcess == ASSUME ProcessInv, [Next]_vars PROVE ProcessInv'
BY ParseOptionKeeps, ParseRestKeeps, CheckOptionsKeeps, ReinitLogKeeps, SetBasepathKeeps,
   SetMaskKeeps, InstallKeeps, RunKeeps, LogBeginKeeps, SyslogReturnsKeeps, WriteRecordKeeps,
   DieKeeps, DeliverKeeps, PathStepKeeps, OthersKeep, Zenon
   DEF Next, Step

LEMMA ProcessHolds == Spec => []ProcessInv
BY InitProcess, StepProcess, PTL DEF Spec

\* assert(_logfp) in do_log(), with any signals at any step: it fails, or a freed stream is
\* written to, only for a log file that cannot be opened or closed, or while a handler has
\* interrupted die() after it closed the stream.
THEOREM StreamIsThere == Spec => []StreamThere
<1>1. ProcessInv => StreamThere
  BY DEF ProcessInv
<1> QED
  BY <1>1, ProcessHolds, PTL

\* DIE_FAILURE: no process ends with it that has not written an error, as its last record
\* and where the options say, whatever signals come on the way from Log_die() to exit().
THEOREM FailuresAreSaid == Spec => []FailureSaid
<1>1. ProcessInv => FailureSaid
  BY DEF ProcessInv
<1> QED
  BY <1>1, ProcessHolds, PTL

-----------------------------------------------------------------------------
(* The options *)

Fields == {"log_file", "syslog", "umask", "verbose", "mode", "force_use_digest",
           "follow_symbolic", "include_hidden", "server_addr", "path", "local_port",
           "remote_port"}

Strings == {"log_file", "path", "server_addr"}

\* What set_option() leaves of an option, where it does not end the process.
Sets(o, item, opt) ==
  /\ DOMAIN opt = Fields
  /\ opt.mode = IF item.name \in {"server", "client"} THEN item.name ELSE o.mode
  /\ \A flag \in Flags \cup {"verbose"} :
       opt[flag] = IF item.name = flag THEN TRUE ELSE o[flag]
  /\ \A str \in Strings : opt[str] = IF item.name = str THEN item.value ELSE o[str]
  /\ opt.local_port = IF item.name = "port" THEN item.value.num % Word ELSE o.local_port
  /\ opt.remote_port = IF item.name = "server_port" THEN item.value.num % Word ELSE o.remote_port
  /\ item.name = "port" => opt.local_port # 0
  /\ item.name = "server_port" => opt.remote_port # 0

LEMMA Setting ==
  ASSUME NEW o, DOMAIN o = Fields, o = [f \in Fields |-> o[f]],
         NEW item, item.name \in ItemNames,
         NEW step, step = IF IsExtra(item) THEN Parsed(o) ELSE SetOption(o, item),
         step.what = "options"
  PROVE  Sets(o, item, step.opts) /\ step.opts = [f \in Fields |-> step.opts[f]]
<1> DEFINE x == item.name
           opt == step.opts
<1>1. CASE x \in {"unknown", "extra"}
  <2>1. step = Parsed(o)
    BY <1>1 DEF IsExtra, SetOption, Flags
  <2>2. opt = o
    BY <2>1 DEF Parsed
  <2> QED
    BY <1>1, <2>2 DEF Sets, Flags, Strings
<1>2. CASE x \in {"help", "version"}
  <2>1. step = [what |-> "print"]
    BY <1>2 DEF IsExtra, SetOption, Prints, Flags
  <2> QED
    BY <2>1
<1>3. CASE x = "umask"
  <2>1. step = IF item.value # Nil THEN Dies ELSE Parsed([o EXCEPT !.umask = item.value.num])
    BY <1>3 DEF IsExtra, SetOption, SetUmask, Flags
  <2>2. opt = [o EXCEPT !.umask = item.value.num]
    BY <2>1 DEF Dies, Parsed
  <2> QED
    BY <1>3, <2>2 DEF Sets, Fields, Flags, Strings
<1>4. CASE x \in {"server", "client"}
  <2>1. step = Parsed([o EXCEPT !.mode = x])
    BY <1>4 DEF IsExtra, SetOption, Flags
  <2>2. opt = [o EXCEPT !.mode = x]
    BY <2>1 DEF Parsed
  <2> QED
    BY <1>4, <2>2 DEF Sets, Fields, Flags, Strings
<1>5. CASE x \in Flags \cup {"verbose"}
  <2>1. step = Parsed([o EXCEPT ![x] = TRUE])
    BY <1>5 DEF IsExtra, SetOption, Flags
  <2> DEFINE set == [o EXCEPT ![x] = TRUE]
  <2>2. step = Parsed(set)
    BY <2>1
  <2> HIDE DEF set
  <2>3. opt = set
    BY <2>2 DEF Parsed
  <2>4. opt = [o EXCEPT ![x] = TRUE]
    BY <2>3, Zenon DEF set
  <2> QED
    BY <1>5, <2>4, ZenonT(60) DEF Sets, Fields, Flags, Strings
<1>6. CASE x \in Strings
  <2>1. step = Parsed([o EXCEPT ![x] = item.value])
    BY <1>6 DEF IsExtra, SetOption, SetString, Flags, Strings
  <2>2. opt = [o EXCEPT ![x] = item.value]
    BY <2>1 DEF Parsed
  <2> QED
    BY <1>6, <2>2, ZenonT(60) DEF Sets, Fields, Flags, Strings
<1>7. ASSUME NEW field \in {"local_port", "remote_port"},
             step = SetPort(o, field, item.value)
      PROVE  /\ opt = [o EXCEPT ![field] = item.value.num % Word]
             /\ item.value.num % Word # 0
  <2>1. /\ step = Parsed([o EXCEPT ![field] = StrToPort(item.value)])
        /\ StrToPort(item.value) # 0
    BY <1>7 DEF SetPort, Dies
  <2>2. StrToPort(item.value) = item.value.num % Word
    BY <2>1 DEF StrToPort
  <2> QED
    BY <2>1, <2>2 DEF Parsed
<1>8. CASE x = "port"
  <2>1. step = SetPort(o, "local_port", item.value)
    BY <1>8 DEF IsExtra, SetOption, Flags
  <2>2. opt = [o EXCEPT !["local_port"] = item.value.num % Word] /\ item.value.num % Word # 0
    BY <1>7, <2>1
  <2> QED
    BY <1>8, <2>2 DEF Sets, Fields, Flags, Strings
<1>9. CASE x = "server_port"
  <2>1. step = SetPort(o, "remote_port", item.value)
    BY <1>9 DEF IsExtra, SetOption, Flags
  <2>2. opt = [o EXCEPT !["remote_port"] = item.value.num % Word] /\ item.value.num % Word # 0
    BY <1>7, <2>1
  <2> QED
    BY <1>9, <2>2 DEF Sets, Fields, Flags, Strings
<1> QED
  BY <1>1, <1>2, <1>3, <1>4, <1>5, <1>6, <1>8, <1>9 DEF ItemNames, Flags, Strings

\* One item more: it is the last that was given, or changes nothing.
LEMMA OneMoreItem ==
  ASSUME NEW line, line \in Seq(Range(line)), NEW n \in 1..Len(line), NEW names, NEW def
  PROVE  LastGiven(line, n + 1, names, def) =
           IF line[n].name \in names THEN line[n] ELSE LastGiven(line, n, names, def)
<1> DEFINE At0 == {i \in DOMAIN line : i < n /\ line[i].name \in names}
           At1 == {i \in DOMAIN line : i < n + 1 /\ line[i].name \in names}
<1>1. DOMAIN line = 1..Len(line) /\ Len(line) \in Nat /\ n \in DOMAIN line
  BY LenProperties
<1>2. LastGiven(line, n + 1, names, def) =
        IF At1 = {} THEN def ELSE line[CHOOSE i \in At1 : \A j \in At1 : j <= i]
  BY DEF LastGiven
<1>3. LastGiven(line, n, names, def) =
        IF At0 = {} THEN def ELSE line[CHOOSE i \in At0 : \A j \in At0 : j <= i]
  BY DEF LastGiven
<1>4. CASE line[n].name \in names
  <2>1. n \in At1 /\ \A j \in At1 : j <= n /\ j \in Nat
    BY <1>1, <1>4
  <2>2. (CHOOSE i \in At1 : \A j \in At1 : j <= i) = n
    BY <1>1, <2>1
  <2> HIDE DEF At0, At1
  <2> QED
    BY <1>2, <1>4, <2>1, <2>2
<1>5. CASE line[n].name \notin names
  <2>1. At1 = At0
    BY <1>1, <1>5
  <2> HIDE DEF At0, At1
  <2> QED
    BY <1>2, <1>3, <1>5, <2>1
<1> QED
  BY <1>4, <1>5

LEMMA NoMoreItems ==
  ASSUME NEW line, line \in Seq(Range(line)), NEW n \in Nat, n > Len(line), NEW names, NEW def
  PROVE  LastGiven(line, n + 1, names, def) = LastGiven(line, n, names, def)
<1> DEFINE At0 == {i \in DOMAIN line : i < n /\ line[i].name \in names}
           At1 == {i \in DOMAIN line : i < n + 1 /\ line[i].name \in names}
<1>1. DOMAIN line = 1..Len(line) /\ Len(line) \in Nat
  BY LenProperties
<1>2. At1 = At0
  BY <1>1
<1>3. LastGiven(line, n + 1, names, def) =
        IF At1 = {} THEN def ELSE line[CHOOSE i \in At1 : \A j \in At1 : j <= i]
  BY DEF LastGiven
<1>4. LastGiven(line, n, names, def) =
        IF At0 = {} THEN def ELSE line[CHOOSE i \in At0 : \A j \in At0 : j <= i]
  BY DEF LastGiven
<1> HIDE DEF At0, At1
<1> QED
  BY <1>2, <1>3, <1>4

LEMMA NoneGiven ==
  ASSUME NEW line, line \in Seq(Range(line)), NEW names, NEW def
  PROVE  LastGiven(line, 1, names, def) = def
<1>1. DOMAIN line = 1..Len(line) /\ Len(line) \in Nat
  BY LenProperties
<1>2. {i \in DOMAIN line : i < 1 /\ line[i].name \in names} = {}
  BY <1>1
<1> QED
  BY <1>2 DEF LastGiven

LEMMA DefaultPortFits == DefaultPort % Word = DefaultPort /\ DefaultPort # 0
<1>1. \A m \in Nat : m > 3375 => 3375 % m = 3375
  OBVIOUS
<1> QED
  BY <1>1, OptionsAssumption DEF DefaultPort

\* The property by its parts.
LEMMA AsGivenParts ==
  ASSUME NEW o, NEW line, NEW n
  PROVE  AsGiven(o, line, n) <=>
           /\ o.mode = LastGiven(line, n, {"server", "client"}, [name |-> "client"]).name
           /\ \A flag \in Flags \cup {"verbose"} :
                o[flag] <=> \E i \in DOMAIN line : i < n /\ line[i].name = flag
           /\ \A str \in Strings :
                o[str] = LastGiven(line, n, {str}, [value |-> Nil]).value
           /\ o.local_port = LastGiven(line, n, {"port"},
                                       [value |-> [num |-> DefaultPort]]).value.num % Word
           /\ o.remote_port = LastGiven(line, n, {"server_port"},
                                        [value |-> [num |-> DefaultPort]]).value.num % Word
           /\ o.local_port # 0 /\ o.remote_port # 0
BY DEF AsGiven, Strings

ParseInv ==
  /\ argv \in Argvs
  /\ optind \in Nat \ {0}
  /\ opts = [f \in Fields |-> opts[f]]
  /\ ParsedAsGiven

LEMMA InitParse == Init => ParseInv
<1> SUFFICES ASSUME Init PROVE ParseInv
  OBVIOUS
<1>1. argv \in Argvs /\ optind = 1 /\ opts = Defaults
  BY DEF Init
<1>2. argv \in Seq(Range(argv)) /\ DOMAIN argv = 1..Len(argv) /\ Len(argv) \in Nat
  BY <1>1, ArgvsAssumption, LenProperties
<1>3. opts = [f \in Fields |-> opts[f]]
  BY <1>1 DEF Defaults, Fields
<1>4. \A i \in DOMAIN argv : ~(i < 1)
  BY <1>2
<1>5. \A names, def : LastGiven(argv, 1, names, def) = def
  BY <1>2, NoneGiven
<1>6. AsGiven(Defaults, argv, 1)
  <2>1. \A flag \in Flags \cup {"verbose"} : ~Defaults[flag]
    BY DEF Defaults, Flags
  <2>2. \A str \in Strings : Defaults[str] = Nil
    BY DEF Defaults, Strings
  <2>3. /\ Defaults.mode = "client"
        /\ Defaults.local_port = DefaultPort /\ Defaults.remote_port = DefaultPort
    BY DEF Defaults
  <2> QED
    BY <1>4, <1>5, <2>1, <2>2, <2>3, DefaultPortFits, AsGivenParts
<1> QED
  BY <1>1, <1>3, <1>6 DEF ParseInv, ParsedAsGiven

LEMMA OneMoreGiven ==
  ASSUME NEW line, line \in Seq(Range(line)), NEW n \in 1..Len(line),
         NEW o, NEW o2, Sets(o, line[n], o2), AsGiven(o, line, n)
  PROVE  AsGiven(o2, line, n + 1)
<1> DEFINE item == line[n]
<1>1. DOMAIN line = 1..Len(line) /\ Len(line) \in Nat
  BY LenProperties
<1>2. \A names, def : LastGiven(line, n + 1, names, def) =
                        IF item.name \in names THEN item ELSE LastGiven(line, n, names, def)
  BY OneMoreItem
<1>3. o2.mode = LastGiven(line, n + 1, {"server", "client"}, [name |-> "client"]).name
  BY <1>2, AsGivenParts DEF Sets
<1>4. ASSUME NEW flag \in Flags \cup {"verbose"}
      PROVE  o2[flag] <=> \E i \in DOMAIN line : i < n + 1 /\ line[i].name = flag
  <2>1. o[flag] <=> \E i \in DOMAIN line : i < n /\ line[i].name = flag
    BY AsGivenParts
  <2>2. \A i \in DOMAIN line : i < n + 1 <=> i < n \/ i = n
    BY <1>1
  <2>3. n \in DOMAIN line
    BY <1>1
  <2>4. CASE item.name = flag
    BY <2>2, <2>3, <2>4 DEF Sets
  <2>5. CASE item.name # flag
    <3>1. o2[flag] = o[flag]
      BY <2>5 DEF Sets
    <3>2. (\E i \in DOMAIN line : i < n + 1 /\ line[i].name = flag) <=>
            \E i \in DOMAIN line : i < n /\ line[i].name = flag
      BY <2>2, <2>5
    <3> QED
      BY <2>1, <3>1, <3>2
  <2> QED
    BY <2>4, <2>5
<1>5. ASSUME NEW str \in Strings
      PROVE  o2[str] = LastGiven(line, n + 1, {str}, [value |-> Nil]).value
  <2>1. o[str] = LastGiven(line, n, {str}, [value |-> Nil]).value
    BY AsGivenParts
  <2>2. LastGiven(line, n + 1, {str}, [value |-> Nil]) =
          IF item.name = str THEN item ELSE LastGiven(line, n, {str}, [value |-> Nil])
    BY <1>2
  <2>3. o2[str] = IF item.name = str THEN item.value ELSE o[str]
    BY DEF Sets
  <2> QED
    BY <2>1, <2>2, <2>3
<1>6. /\ o2.local_port = LastGiven(line, n + 1, {"port"},
                                  [value |-> [num |-> DefaultPort]]).value.num % Word
      /\ o2.local_port # 0
  BY <1>2, AsGivenParts DEF Sets
<1>7. /\ o2.remote_port = LastGiven(line, n + 1, {"server_port"},
                                   [value |-> [num |-> DefaultPort]]).value.num % Word
      /\ o2.remote_port # 0
  BY <1>2, AsGivenParts DEF Sets
<1> HIDE DEF item
<1> QED
  BY <1>3, <1>4, <1>5, <1>6, <1>7, AsGivenParts

LEMMA StepParse == ASSUME ParseInv, [Next]_vars PROVE ParseInv'
<1>1. /\ argv \in Argvs /\ optind \in Nat \ {0} /\ AsGiven(opts, argv, optind)
      /\ opts = [f \in Fields |-> opts[f]]
      /\ argv \in Seq(Range(argv)) /\ DOMAIN argv = 1..Len(argv) /\ Len(argv) \in Nat
  BY ArgvsAssumption, LenProperties DEF ParseInv, ParsedAsGiven
<1>2. CASE UNCHANGED cmdVars
  BY <1>1, <1>2 DEF cmdVars, ParseInv, ParsedAsGiven
<1>3. CASE ParseRest
  <2>1. /\ UNCHANGED <<argv, opts>> /\ optind > Len(argv)
        /\ optind' = optind \/ optind' = optind + 1
    BY <1>3 DEF ParseRest
  <2>2. CASE optind' = optind
    BY <1>1, <2>1, <2>2 DEF ParseInv, ParsedAsGiven
  <2>3. CASE optind' = optind + 1
    <3>1. \A names, def : LastGiven(argv, optind + 1, names, def) =
                            LastGiven(argv, optind, names, def)
      BY <1>1, <2>1, NoMoreItems
    <3>2. \A i \in DOMAIN argv : i < optind + 1 <=> i < optind
      BY <1>1, <2>1
    <3>3. \A flag : (\E i \in DOMAIN argv : i < optind + 1 /\ argv[i].name = flag) <=>
                     \E i \in DOMAIN argv : i < optind /\ argv[i].name = flag
      BY <3>2
    <3>4. /\ opts.mode = LastGiven(argv, optind + 1, {"server", "client"}, [name |-> "client"]).name
          /\ opts.local_port = LastGiven(argv, optind + 1, {"port"},
                                        [value |-> [num |-> DefaultPort]]).value.num % Word
          /\ opts.remote_port = LastGiven(argv, optind + 1, {"server_port"},
                                         [value |-> [num |-> DefaultPort]]).value.num % Word
          /\ opts.local_port # 0 /\ opts.remote_port # 0
      BY <1>1, <3>1, AsGivenParts
    <3>5. \A flag \in Flags \cup {"verbose"} :
            opts[flag] <=> \E i \in DOMAIN argv : i < optind + 1 /\ argv[i].name = flag
      BY <1>1, <3>3, AsGivenParts
    <3>6. \A str \in Strings :
            opts[str] = LastGiven(argv, optind + 1, {str}, [value |-> Nil]).value
      <4> TAKE str \in Strings
      <4>1. opts[str] = LastGiven(argv, optind, {str}, [value |-> Nil]).value
        BY <1>1, AsGivenParts
      <4> QED
        BY <3>1, <4>1
    <3>7. AsGiven(opts, argv, optind + 1)
      BY <3>4, <3>5, <3>6, AsGivenParts
    <3> QED
      BY <1>1, <2>1, <2>3, <3>7 DEF ParseInv, ParsedAsGiven
  <2> QED
    BY <2>1, <2>2, <2>3
<1>4. CASE ParseOption
  <2> DEFINE item == argv[optind]
             step == IF IsExtra(item) THEN Parsed(opts) ELSE SetOption(opts, item)
  <2>1. /\ UNCHANGED argv /\ optind \in 1..Len(argv)
        /\ \/ step.what = "options" /\ opts' = step.opts /\ optind' = optind + 1
           \/ UNCHANGED <<opts, optind>>
    BY <1>1, <1>4 DEF ParseOption
  <2>2. CASE UNCHANGED <<opts, optind>>
    BY <1>1, <2>1, <2>2 DEF ParseInv, ParsedAsGiven
  <2>3. CASE step.what = "options" /\ opts' = step.opts /\ optind' = optind + 1
    <3>1. Sets(opts, item, opts') /\ opts' = [f \in Fields |-> opts'[f]]
      <4> DEFINE now == step
      <4>1. /\ DOMAIN opts = Fields /\ opts = [f \in Fields |-> opts[f]]
            /\ now = IF IsExtra(item) THEN Parsed(opts) ELSE SetOption(opts, item)
            /\ now.what = "options" /\ opts' = now.opts /\ item.name \in ItemNames
        BY <1>1, <2>1, <2>3, ArgvsAssumption
      <4> HIDE DEF now, item
      <4> QED
        BY <4>1, Setting
    <3>2. AsGiven(opts', argv, optind + 1)
      BY <1>1, <2>1, <3>1, OneMoreGiven
    <3> QED
      BY <1>1, <2>1, <2>3, <3>1, <3>2 DEF ParseInv, ParsedAsGiven
  <2> QED
    BY <2>1, <2>2, <2>3
<1>5. ParseOption \/ ParseRest \/ UNCHANGED cmdVars
  BY DEF Next, Step, CheckOptions, ReinitLog, SetBasepath, SetMask, InstallInt, InstallTerm, Run,
         LogBegin, SyslogReturns, WriteRecord, CloseSyslog, CloseFile, ClearStream, Exit,
         Deliver, PathStep, Send, ChangeMonitored, Ended, vars, cmdVars
<1> QED
  BY <1>2, <1>3, <1>4, <1>5

\* parse_argv() and set_option(), for any command line: of an option that is given more than
\* once the last counts, whatever comes between, no option touches another, and a port is
\* never 0.
THEOREM OptionsAreAsGiven == Spec => []ParsedAsGiven
<1>1. ParseInv => ParsedAsGiven
  BY DEF ParseInv
<1> QED
  BY <1>1, InitParse, StepParse, PTL DEF Spec

-----------------------------------------------------------------------------
(* The paths *)

\* set_basepath() has a path to set, and path functions are called with no other base.
PathInv ==
  /\ basepath \in BasePaths \cup {<<>>}
  /\ Main.at \in {"reinit", "basepath"} => opts.path # Nil
  /\ SpellingsMeet /\ BuffersKept /\ MkdirInOrder

LEMMA NoCallIsRight ==
  ASSUME call = NoCall
  PROVE  SpellingsMeet /\ BuffersKept /\ MkdirInOrder
<1>1. call.op = "none"
  BY DEF NoCall
<1> QED
  BY <1>1 DEF SpellingsMeet, WalkNamesFiles, EventNamesWatcher, BuffersKept, MkdirInOrder

LEMMA SameCallIsRight ==
  ASSUME SpellingsMeet, BuffersKept, MkdirInOrder, UNCHANGED <<basepath, call>>
  PROVE  SpellingsMeet' /\ BuffersKept' /\ MkdirInOrder'
BY DEF SpellingsMeet, WalkNamesFiles, EndsOnce, EventNamesWatcher, BuffersKept, MkdirInOrder

LEMMA InitPaths == Init => PathInv
<1> SUFFICES ASSUME Init PROVE PathInv
  OBVIOUS
<1>1. basepath = <<>> /\ call = NoCall
  BY DEF Init
<1>2. Main.at = "parse"
  BY DEF Init, Main, Frame
<1> QED
  BY <1>1, <1>2, NoCallIsRight DEF PathInv

\* --path is one of the base paths, or was not given.
LEMMA PathIsGiven ==
  ASSUME ParseInv
  PROVE  opts.path \in BasePaths \cup {Nil}
<1> DEFINE at == {i \in DOMAIN argv : i < optind /\ argv[i].name \in {"path"}}
           last == CHOOSE i \in at : \A j \in at : j <= i
<1>1. /\ argv \in Seq(Range(argv)) /\ DOMAIN argv = 1..Len(argv) /\ Len(argv) \in Nat
      /\ \A i \in DOMAIN argv : argv[i].name = "path" => argv[i].value \in BasePaths
  BY ArgvsAssumption, LenProperties DEF ParseInv
<1>2. opts.path = LastGiven(argv, optind, {"path"}, [value |-> Nil]).value
  <2>1. AsGiven(opts, argv, optind) /\ "path" \in Strings
    BY DEF ParseInv, ParsedAsGiven, Strings
  <2>2. opts["path"] = LastGiven(argv, optind, {"path"}, [value |-> Nil]).value
    BY <2>1, AsGivenParts
  <2> QED
    BY <2>2
<1>3. LastGiven(argv, optind, {"path"}, [value |-> Nil]) =
        IF at = {} THEN [value |-> Nil] ELSE argv[last]
  BY DEF LastGiven
<1>4. CASE at = {}
  BY <1>2, <1>3, <1>4
<1>5. CASE at # {}
  <2>1. at \in SUBSET (1..Len(argv))
    BY <1>1
  <2> HIDE DEF at
  <2>2. \E i \in at : \A j \in at : i >= j
    BY <1>1, <1>5, <2>1, GreatestNumber
  <2>3. \E i \in at : \A j \in at : j <= i
    BY <2>1, <2>2
  <2>4. last \in at
    BY <2>3
  <2> HIDE DEF last
  <2>5. last \in DOMAIN argv /\ argv[last].name = "path"
    BY <2>4 DEF at
  <2> QED
    BY <1>1, <1>2, <1>3, <1>5, <2>5
<1> QED
  BY <1>4, <1>5

\* A step of the top to another place leaves main() where it was, unless it is the top.
LEMMA ElsewhereGoes ==
  ASSUME ProcessInv, NEW at, at \notin {"reinit", "basepath"},
         NEW prio, NEW then, NEW status, Moves(at, prio, then, status)
  PROVE  Main'.at \in {"reinit", "basepath"} => Main'.at = Main.at
<1>1. Depth \in Nat \ {0} /\ 1 \in 1..Depth
  BY DEF ProcessInv, Stack
<1>2. CASE Depth = 1
  BY <1>2 DEF Moves, Main
<1>3. CASE Depth # 1
  BY <1>1, <1>3 DEF Moves, Main
<1> QED
  BY <1>2, <1>3

LEMMA ElsewhereLeads ==
  ASSUME ProcessInv, [Next]_vars, ~CheckOptions, ~ReinitLog
  PROVE  Main'.at \in {"reinit", "basepath"} => Main'.at = Main.at
<1> DEFINE Stays == Main'.at \in {"reinit", "basepath"} => Main'.at = Main.at
<1>1. Stack /\ Top \in Frames
  BY TopIsFrame DEF ProcessInv
<1>2. UNCHANGED frames => Stays
  BY DEF Main
<1>3. Top.then \in Labels /\ Top.then \notin {"reinit", "basepath"}
  BY <1>1 DEF Frames, Labels
<1>4. \A label \in Labels : label \notin {"reinit", "basepath"} /\ GoTo(label) => Stays
  BY <1>1, TopMoves, ElsewhereGoes
<1>5. \A prio \in {"ERR", "INFO", "DEBUG"}, label \in {"parse", "run", "exit"} :
        LogThen(prio, label) => Stays
  BY <1>1, TopMoves, ElsewhereGoes
<1>6. (LogDie("failure", "ERR") => Stays) /\ (DieWith("success") => Stays)
  BY <1>1, TopMoves, ElsewhereGoes
<1> HIDE DEF Stays
<1>7. ASSUME ParseOption PROVE Stays
  BY <1>2, <1>6, <1>7 DEF ParseOption
<1>8. ASSUME ParseRest PROVE Stays
  BY <1>4, <1>5, <1>6, <1>8 DEF ParseRest, Labels
<1>9. ASSUME SetBasepath \/ SetMask \/ InstallInt \/ InstallTerm PROVE Stays
  BY <1>4, <1>6, <1>9 DEF SetBasepath, SetMask, InstallInt, InstallTerm, Labels
<1>10. ASSUME Run PROVE Stays
  BY <1>5, <1>6, <1>10 DEF Run
<1>11. ASSUME LogBegin \/ SyslogReturns \/ WriteRecord PROVE Stays
  BY <1>2, <1>3, <1>4, <1>11 DEF LogBegin, SyslogReturns, WriteRecord, Labels
<1>12. ASSUME CloseSyslog \/ CloseFile \/ ClearStream \/ Exit PROVE Stays
  BY <1>2, <1>4, <1>5, <1>12 DEF CloseSyslog, CloseFile, ClearStream, Exit, Labels
<1>13. ASSUME NEW s \in Signals, Deliver(s) PROVE Stays
  <2>1. CASE UNCHANGED frames
    BY <1>2, <2>1
  <2>2. CASE frames' = Append(frames, Handler(s))
    <3>1. frames \in Seq(Frames) /\ Len(frames) \in Nat \ {0} /\ 1 \in 1..Len(frames)
      BY <1>1 DEF Stack, Depth
    <3>2. Handler(s) \in Frames
      BY DEF Handler, Frame, Frames, Labels
    <3>3. frames'[1] = frames[1]
      BY <2>2, <3>1, <3>2, AppendProperties
    <3> QED
      BY <3>3 DEF Main, Stays
  <2> QED
    BY <1>13, <2>1, <2>2 DEF Deliver
<1>14. ASSUME PathStep PROVE Stays
  BY <1>2, <1>6, <1>14 DEF PathStep
<1>15. ASSUME (\E s \in Signals : Send(s)) \/ ChangeMonitored \/ Ended \/ UNCHANGED vars PROVE Stays
  BY <1>2, <1>15 DEF Send, ChangeMonitored, Ended, vars
<1>16. Stays
  BY <1>7, <1>8, <1>9, <1>10, <1>11, <1>12, <1>13, <1>14, <1>15, Zenon DEF Next, Step
<1> QED
  BY <1>16 DEF Stays

\* What the call of a path function comes to is right.
LEMMA CallPathIsRight ==
  ASSUME basepath \in BasePaths \cup {<<>>}, CallPath
  PROVE  SpellingsMeet' /\ BuffersKept' /\ MkdirInOrder'
<1>1. basepath \in BasePaths /\ basepath' = basepath
  BY DEF CallPath
<1>2. PICK c \in Components :
        /\ KernelTakes(Reported(basepath, c))
        /\ \/ call' = Walked(c)
           \/ \E n \in FileNames : call' = Heard(c, n)
           \/ c # <<>> /\ call' = MkdirCalled(c)
  BY DEF CallPath
<1>3. EndsOnce' <=> EndsOnce
  BY <1>1 DEF EndsOnce
<1> DEFINE r == call'
<1>4. CASE call' = Walked(c)
  <2>1. r.op = "walk" /\ r.comps = c
    BY <1>4 DEF Walked
  <2>2. WalkRight(c, r)
    BY <1>1, <1>2, <1>4, WalkIsRight
  <2>3. WalkNamesFiles'
    BY <1>3, <2>1, <2>2 DEF WalkNamesFiles, WalkRight
  <2>4. EventNamesWatcher' /\ MkdirInOrder'
    BY <2>1 DEF EventNamesWatcher, MkdirInOrder
  <2>5. BuffersKept'
    BY <2>1, <2>2 DEF BuffersKept, WalkRight
  <2> QED
    BY <2>3, <2>4, <2>5 DEF SpellingsMeet
<1>5. CASE \E n \in FileNames : call' = Heard(c, n)
  <2>1. PICK n \in FileNames : call' = Heard(c, n)
    BY <1>5
  <2>2. r.op = "event" /\ r.comps = Append(c, n)
    BY <2>1 DEF Heard
  <2>3. EventRight(r.comps, r)
    BY <1>1, <2>1, <2>2, EventIsRight
  <2>4. EventNamesWatcher'
    BY <1>1, <2>3 DEF EventNamesWatcher, EventRight
  <2>5. WalkNamesFiles' /\ MkdirInOrder'
    BY <2>2 DEF WalkNamesFiles, MkdirInOrder
  <2>6. BuffersKept'
    BY <2>2, <2>3 DEF BuffersKept, EventRight
  <2> QED
    BY <2>4, <2>5, <2>6 DEF SpellingsMeet
<1>6. CASE c # <<>> /\ call' = MkdirCalled(c)
  <2>1. r.op = "mkdir" /\ r.comps = c
    BY <1>6 DEF MkdirCalled
  <2>2. MkdirRight(c, r)
    BY <1>1, <1>2, <1>6, MkdirIsRight
  <2>3. MkdirInOrder'
    BY <1>1, <2>1, <2>2 DEF MkdirInOrder, MkdirRight
  <2>4. WalkNamesFiles' /\ EventNamesWatcher' /\ BuffersKept'
    BY <2>1 DEF WalkNamesFiles, EventNamesWatcher, BuffersKept
  <2> QED
    BY <2>3, <2>4 DEF SpellingsMeet
<1> QED
  BY <1>2, <1>4, <1>5, <1>6

LEMMA StepPaths ==
  ASSUME ProcessInv, ParseInv, PathInv, [Next]_vars
  PROVE  PathInv'
<1>1. opts.path \in BasePaths \cup {Nil}
  BY PathIsGiven
<1>2. CASE PathStep
  <2>1. UNCHANGED <<opts, basepath>>
    BY <1>2 DEF PathStep, CallPath, ReturnPath, cmdVars
  <2>2. ~CheckOptions /\ ~ReinitLog
    BY <1>2 DEF PathStep, CheckOptions, ReinitLog, At
  <2>3. Main'.at \in {"reinit", "basepath"} => opts'.path # Nil
    BY <2>1, <2>2, ElsewhereLeads DEF PathInv
  <2>4. CASE CallPath
    BY <2>1, <2>3, <2>4, CallPathIsRight DEF PathInv
  <2>5. CASE ReturnPath
    <3>1. SpellingsMeet' /\ BuffersKept' /\ MkdirInOrder'
      <4>1. (call.op)' = "none"
        BY <2>5 DEF ReturnPath, NoCall
      <4> QED
        BY <4>1 DEF SpellingsMeet, WalkNamesFiles, EventNamesWatcher, BuffersKept, MkdirInOrder
    <3> QED
      BY <2>1, <2>3, <3>1 DEF PathInv
  <2> QED
    BY <1>2, <2>4, <2>5 DEF PathStep
<1>3. CASE SetBasepath
  <2>1. /\ call = NoCall /\ call' = NoCall /\ Top.at = "basepath" /\ UNCHANGED opts
        /\ basepath' = opts.path \/ basepath' = basepath
    BY <1>3 DEF SetBasepath, At, cmdVars
  <2>2. Main.at = "basepath"
    BY <2>1, MainOnly
  <2>3. ~CheckOptions /\ ~ReinitLog
    BY <2>1 DEF CheckOptions, ReinitLog, At
  <2>4. basepath' \in BasePaths \cup {<<>>}
    BY <1>1, <2>1, <2>2 DEF PathInv
  <2>5. Main'.at \in {"reinit", "basepath"} => opts'.path # Nil
    BY <2>1, <2>3, ElsewhereLeads DEF PathInv
  <2>6. SpellingsMeet' /\ BuffersKept' /\ MkdirInOrder'
    <3>1. (call.op)' = "none"
      BY <2>1 DEF NoCall
    <3> QED
      BY <3>1 DEF SpellingsMeet, WalkNamesFiles, EventNamesWatcher, BuffersKept, MkdirInOrder
  <2> QED
    BY <2>4, <2>5, <2>6 DEF PathInv
<1>4. CASE ~PathStep /\ ~SetBasepath
  <2>1. UNCHANGED <<basepath, call>>
    BY <1>4, Zenon
       DEF Next, Step, ParseOption, ParseRest, CheckOptions, ReinitLog, SetMask, InstallInt,
           InstallTerm, Run, LogBegin, SyslogReturns, WriteRecord, CloseSyslog, CloseFile,
           ClearStream, Exit, Deliver, Send, ChangeMonitored, Ended, vars
  <2>2. SpellingsMeet' /\ BuffersKept' /\ MkdirInOrder'
    BY <2>1, SameCallIsRight DEF PathInv
  <2>3. CASE CheckOptions
    <3>1. At("check") /\ Stack /\ UNCHANGED opts
      BY <2>3 DEF CheckOptions, ProcessInv, cmdVars
    <3>2. CASE OptionsPass
      BY <2>1, <2>2, <3>1, <3>2 DEF PathInv, OptionsPass
    <3>3. CASE ~OptionsPass
      <4>1. Moves("log", "ERR", "die", "failure")
        BY <2>3, <3>1, <3>3, TopMoves DEF CheckOptions
      <4>2. Main'.at \in {"reinit", "basepath"} => Main'.at = Main.at
        BY <4>1, ElsewhereGoes
      <4> QED
        BY <2>1, <2>2, <3>1, <4>2 DEF PathInv
    <3> QED
      BY <3>2, <3>3
  <2>4. CASE ReinitLog
    <3>1. At("reinit") /\ UNCHANGED opts
      BY <2>4 DEF ReinitLog, cmdVars
    <3>2. Main.at = "reinit"
      BY <3>1, MainOnly DEF At
    <3> QED
      BY <2>1, <2>2, <3>1, <3>2 DEF PathInv
  <2>5. CASE ~CheckOptions /\ ~ReinitLog
    <3>1. Main'.at \in {"reinit", "basepath"} => Main'.at = Main.at
      BY <2>5, ElsewhereLeads
    <3>2. UNCHANGED opts \/ Main.at = "parse"
      <4>1. CASE ParseOption
        BY <4>1, MainOnly DEF ParseOption, At
      <4>2. CASE ~ParseOption
        BY <4>2, Zenon
           DEF Next, Step, ParseRest, CheckOptions, ReinitLog, SetBasepath, SetMask, InstallInt,
               InstallTerm, Run, LogBegin, SyslogReturns, WriteRecord, CloseSyslog, CloseFile,
               ClearStream, Exit, Deliver, PathStep, Send, ChangeMonitored, Ended, vars, cmdVars
      <4> QED
        BY <4>1, <4>2
    <3> QED
      BY <2>1, <2>2, <3>1, <3>2 DEF PathInv
  <2> QED
    BY <2>3, <2>4, <2>5
<1> QED
  BY <1>2, <1>3, <1>4

LEMMA PathsHold == Spec => []PathInv
BY InitProcess, StepProcess, InitParse, StepParse, InitPaths, StepPaths, PTL DEF Spec

\* full2rela(), rela2full(), the filters of do_update_flist() and pathncat(), for any names at
\* any depth and a base path that ends in one separator at most: relapath and fullpath of a
\* file are inverse, .fss is what is skipped, and the name a watcher is looked up by is the
\* one a scan gave it.
THEOREM NamesMeet == Spec => []SpellingsMeet
<1>1. PathInv => SpellingsMeet
  BY DEF PathInv
<1> QED
  BY <1>1, PathsHold, PTL

\* The size checks of pathncat(), pathncat2() and rela2full() suffice for a buffer of
\* MAX_PATH_LEN, except for one byte of an event's name, however the base path ends.
THEOREM NothingBehindBuffers == Spec => []BuffersKept
<1>1. PathInv => BuffersKept
  BY DEF PathInv
<1> QED
  BY <1>1, PathsHold, PTL

\* mkdir_p() on a relapath of any depth: the directories it makes are those on the way from
\* the monitored directory, all of them and no other.
THEOREM DirectoriesMade == Spec => []MkdirInOrder
<1>1. PathInv => MkdirInOrder
  BY DEF PathInv
<1> QED
  BY <1>1, PathsHold, PTL
=============================================================================

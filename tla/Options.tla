------------------------------ MODULE Options ------------------------------
(***************************************************************************)
(* The options of options.c, and the conversions of utils.c they use, as   *)
(* functions of the option record.                                         *)
(*                                                                         *)
(* getopt_long() hands over one item at a time: [name, value].  The value  *)
(* of --umask or of a port is a string by what sscanf() sees in it: [text, *)
(* num], where text is "empty", "word" or, if it begins with a number num, *)
(* "number".                                                               *)
(***************************************************************************)
EXTENDS Integers, Sequences

CONSTANTS
  Nil,        \* the NULL pointer
  Word,       \* 2^16: what a port wraps at
  ProcUmask   \* the umask the process is started with

DefaultPort == 3375

ASSUME OptionsAssumption == Word \in Nat /\ Word > DefaultPort /\ ProcUmask \in 0..511

\* load_default_options(), after the memset() of main().
Defaults ==
  [log_file |-> Nil, syslog |-> FALSE, umask |-> ProcUmask, verbose |-> FALSE,
   mode |-> "client", force_use_digest |-> FALSE, follow_symbolic |-> FALSE,
   include_hidden |-> FALSE, server_addr |-> Nil, path |-> Nil,
   local_port |-> DefaultPort, remote_port |-> DefaultPort]

\* What a step of the parser comes to.
Parsed(o)   == [what |-> "options", opts |-> o]
Dies        == [what |-> "die"]
Prints      == [what |-> "print"]

\* str2uint16(): 0 for what does not begin with a number; sscanf() reduces a
\* number that is too large.
StrToPort(v) == IF v.text = "number" THEN v.num % Word ELSE 0

\* A port option.  An empty string ends the process in str2uint16(); 0, which
\* stands for what cannot be parsed, is refused.
SetPort(o, field, v) ==
  IF v.text = "empty" \/ StrToPort(v) = 0 THEN Dies
  ELSE Parsed([o EXCEPT ![field] = StrToPort(v)])

\* --umask: the condition is that of a value that is missing, the other way
\* round.  str2modet(NULL) would be undefined; getopt_long() always has a value.
SetUmask(o, v) == IF v # Nil THEN Dies ELSE Parsed([o EXCEPT !.umask = v.num])

Flags == {"syslog", "follow_symbolic", "include_hidden", "force_use_digest"}

\* Mutant: the first of two values is kept.
SetStringOnce(o, field, v) == [o EXCEPT ![field] = IF @ = Nil THEN v ELSE @]

SetString(o, field, v) == [o EXCEPT ![field] = v]

\* set_option(); "unknown" is what getopt_long() returns '?' for: no such option,
\* or one without the argument it needs.
SetOption(o, item) ==
  CASE item.name \in {"help", "version"}   -> Prints
    [] item.name = "verbose"               -> Parsed([o EXCEPT !.verbose = TRUE])
    [] item.name = "umask"                 -> SetUmask(o, item.value)
    [] item.name \in {"server", "client"}  -> Parsed([o EXCEPT !.mode = item.name])
    [] item.name \in Flags                 -> Parsed([o EXCEPT ![item.name] = TRUE])
    [] item.name = "port"                  -> SetPort(o, "local_port", item.value)
    [] item.name = "server_port"           -> SetPort(o, "remote_port", item.value)
    [] item.name \in {"log_file", "path", "server_addr"} ->
         Parsed(SetString(o, item.name, item.value))
    [] item.name = "unknown"               -> Parsed(o)
=============================================================================

--------------------------------- MODULE Cli ---------------------------------
(***************************************************************************)
(* The command line: parse_args, main's dispatch and its exit code.  Words *)
(* are classes: "--config" stands for the seven options that take a path,  *)
(* and check for check-config and print-servers, which only load the       *)
(* configuration.                                                          *)
(***************************************************************************)
EXTENDS Integers, Sequences, FiniteSets, SequencesExt

CONSTANTS
    MaxArgs     \* bound: the words of a command line

ASSUME ArgsAssumption == MaxArgs \in Nat

Commands == {"resolve", "apply", "run", "check"}
Numbers == {"5", "60"}
ValueOptions == {"--config", "--lock-timeout"}
OtherOptions == {"--help", "-x"}
CliWords == Commands \cup Numbers \cup ValueOptions \cup OtherOptions

VARIABLES
    args,       \* the command line
    todo,       \* the steps still to do, in order
    done,       \* the steps that have succeeded
    exit        \* the exit code, or Running

Running == -1
cliVars == <<args, todo, done, exit>>

-----------------------------------------------------------------------------
(* parse_args                                                              *)

DefaultOpts == [config |-> "default", lock_timeout |-> "default"]
Usage == [ok |-> FALSE]
Parsed(command, opts) == [ok |-> TRUE, command |-> command, opts |-> opts]

(* Mutant: the value is looked at and not consumed.                        *)
After_Peeked(i) == i + 1

(* Where the loop goes on after the option at i and its value.             *)
After(i) == i + 2

(* The loop: the position it is at, the first plain word so far or "none", *)
(* the options, and whether it has given up.                               *)
LoopStart == [at |-> 1, command |-> "none", opts |-> DefaultOpts, usage |-> FALSE]

(* One iteration; at the end of the line and after an error there is none. *)
iterate(a, s) ==
    LET word  == a[s.at]
        value == a[s.at + 1]
        error == [s EXCEPT !.usage = TRUE]
    IN  IF s.usage \/ s.at > Len(a) THEN s
        ELSE CASE word \in OtherOptions -> error
               [] word \in ValueOptions /\ s.at = Len(a) -> error
               [] word = "--config" /\ s.at < Len(a) ->
                     [s EXCEPT !.at = After(@), !.opts.config = value]
               [] word = "--lock-timeout" /\ s.at < Len(a) ->
                     IF value \notin Numbers THEN error
                     ELSE [s EXCEPT !.at = After(@), !.opts.lock_timeout = value]
               [] word \in Commands \cup Numbers ->
                     IF s.command # "none" THEN error
                     ELSE [s EXCEPT !.at = @ + 1, !.command = word]

(* Every iteration takes a word, so that there are at most Len(a).         *)
parse_args(a) ==
    LET state[k \in 0 .. Len(a)] == IF k = 0 THEN LoopStart ELSE iterate(a, state[k - 1])
        end == state[Len(a)]
    IN  IF end.usage \/ end.command = "none" THEN Usage ELSE Parsed(end.command, end.opts)

-----------------------------------------------------------------------------
(* main                                                                    *)

(* What a command does, in order; a word that is no command does nothing.  *)
Steps(command) == CASE command = "resolve" -> <<"resolve">>
                    [] command = "apply" -> <<"apply">>
                    [] command = "run" -> <<"resolve", "apply">>
                    [] command = "check" -> <<"check">>
                    [] OTHER -> <<>>

CliInit == /\ args \in SeqOf(CliWords, MaxArgs)
           /\ todo = <<>> /\ done = {} /\ exit = Running

Started == todo # <<>> \/ done # {}

UsageError == /\ ~Started /\ exit = Running
              /\ ~parse_args(args).ok
              /\ exit' = 2
              /\ UNCHANGED <<args, todo, done>>

UnknownCommand == /\ ~Started /\ exit = Running
                  /\ parse_args(args).ok /\ parse_args(args).command \notin Commands
                  /\ exit' = 1
                  /\ UNCHANGED <<args, todo, done>>

Dispatch == /\ ~Started /\ exit = Running
            /\ parse_args(args).ok /\ parse_args(args).command \in Commands
            /\ todo' = Steps(parse_args(args).command)
            /\ UNCHANGED <<args, done, exit>>

(* cmd_resolve, whatever became of the names, or cmd_apply with all_ok, or *)
(* a valid configuration.                                                  *)
Succeeds == /\ todo # <<>> /\ exit = Running
            /\ done' = done \cup {Head(todo)}
            /\ todo' = Tail(todo)
            /\ exit' = IF Len(todo) = 1 THEN 0 ELSE Running
            /\ UNCHANGED args

(* An error in any of them: of the configuration, the clock, the runtime,  *)
(* the answers file, the lock, or a reconciliation that is not complete.   *)
Fails == /\ todo # <<>> /\ exit = Running
         /\ exit' = 1
         /\ UNCHANGED <<args, todo, done>>

CliNext == UsageError \/ UnknownCommand \/ Dispatch \/ Succeeds \/ Fails

CliSpec == CliInit /\ [][CliNext]_cliVars

-----------------------------------------------------------------------------
(* Correctness.                                                            *)

(* The options that stand directly before position k, without a gap.       *)
RunBefore(a, k) == {j \in 1 .. k - 1 : \A h \in j .. k - 1 : a[h] \in ValueOptions}

(* Of such a run every second word is the value of the one before it.      *)
IsValue(a, k) == Cardinality(RunBefore(a, k)) % 2 = 1

Keywords(a) == {k \in 1 .. Len(a) : ~IsValue(a, k)}
Places(a, option) == {k \in Keywords(a) : a[k] = option}

ValueOf(a, option) ==
    LET at == Places(a, option)
    IN IF at = {} THEN "default"
       ELSE a[1 + CHOOSE k \in at : \A j \in at : j <= k]

WellFormed(a) ==
    /\ \A k \in Keywords(a) : a[k] \notin OtherOptions
    /\ \A k \in Keywords(a) : a[k] \in ValueOptions => k < Len(a)
    /\ \A k \in Places(a, "--lock-timeout") : a[k + 1] \in Numbers
    /\ Cardinality({k \in Keywords(a) : a[k] \notin ValueOptions}) = 1

(* A word is a value exactly when its place says so, even if it looks like *)
(* a command or an option; a line is accepted exactly when it is options   *)
(* with values around one command, and the last of repeated options counts *)
(* (parse_args).                                                           *)
ParseExact ==
    LET r == parse_args(args)
    IN /\ r.ok <=> WellFormed(args)
       /\ r.ok => /\ \E k \in Keywords(args) : r.command = args[k] /\ args[k] \notin ValueOptions
                  /\ r.opts = [config |-> ValueOf(args, "--config"),
                               lock_timeout |-> ValueOf(args, "--lock-timeout")]

(* The exit code tells the timer what happened: 0 exactly when every step  *)
(* of the command was done, 2 only when nothing was begun; and run applies *)
(* only after its own resolve has written the answers (main).              *)
ExitTells ==
    /\ "apply" \in done /\ parse_args(args).command = "run" => "resolve" \in done
    /\ exit = 0 <=> /\ parse_args(args).ok /\ done # {}
                    /\ done = Range(Steps(parse_args(args).command))
    /\ exit = 2 => done = {} /\ ~parse_args(args).ok

(* Arguments in, exit code out: both as the words of the line say          *)
(* (parse_args, main).                                                     *)
CommandLineExact == ParseExact /\ ExitTells

==============================================================================

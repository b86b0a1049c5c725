-------------------------------- MODULE Shell --------------------------------
(***************************************************************************)
(* The shell of src/src/App/Shell/Shell.cpp: lines of commands between     *)
(* semicolons, the history with what repeats from it, and the scope.  A    *)
(* command may repeat a line, which Eval() then evaluates inside of the    *)
(* line the command is in.  All of it runs in the Evm thread.              *)
(*                                                                         *)
(* A name is a sequence: <<"gps", "on">> stands for gps.on, and a scope is *)
(* what it begins with.  A part of a line is what it was split and trimmed *)
(* to: its first word, its arguments, whether a quote is in it, and, when  *)
(* it begins with a ! that more follows, the number that atoi finds there. *)
(***************************************************************************)
EXTENDS Integers, Sequences, SequencesExt

CONSTANTS
  Lines,             \* what comes as a line, or in a message: sequences of parts
  Commands,          \* that modules of the program add and remove
  MAX_HISTORY_SIZE,
  NumLimit           \* numbers of the history are uint16_t

ASSUME ShellAssumption ==
  /\ Lines \subseteq Seq([word : Seq(STRING), args : Seq(Seq(STRING)), num : Int,
                         quoted : BOOLEAN]) \ {<<>>}
  /\ MAX_HISTORY_SIZE \in Nat \ {0} /\ NumLimit \in Nat /\ NumLimit > MAX_HISTORY_SIZE

VARIABLES
  cmdLookup_,     \* the names there are of Commands, with their argCount
  prefix_,
  historyList_,   \* records of num and cmd
  evals           \* the calls of Eval(), the innermost at the end

shellVars == <<cmdLookup_, prefix_, historyList_, evals>>

AnyCount == -1
Repeats == {<<"!!">>, <<".">>}
internalCommandSet_ ==
  Repeats \cup {<<"!">>, <<"?">>, <<"clear">>, <<"help">>, <<"h">>, <<"history">>, <<"scope">>}

(* What Init() registers: these print, but for scope and the repeats.      *)
InternalCount(name) == IF name \in {<<"?">>, <<"help">>, <<"scope">>} THEN AnyCount ELSE 0

ShellInit ==
  /\ cmdLookup_ = <<>> /\ prefix_ = <<>> /\ historyList_ = <<>> /\ evals = <<>>

AddCommand(name, argCount) ==
  /\ name \notin DOMAIN cmdLookup_ \cup internalCommandSet_
  /\ cmdLookup_' = [n \in DOMAIN cmdLookup_ \cup {name} |->
                      IF n = name THEN argCount ELSE cmdLookup_[n]]
  /\ UNCHANGED <<prefix_, historyList_, evals>>

RemoveCommand(name) ==
  /\ name \in DOMAIN cmdLookup_
  /\ cmdLookup_' = [n \in DOMAIN cmdLookup_ \ {name} |-> cmdLookup_[n]]
  /\ UNCHANGED <<prefix_, historyList_, evals>>

-----------------------------------------------------------------------------
(* The parts that are the whole of an internal command.                    *)
IsInternal(part) ==
  /\ part.word \in internalCommandSet_ /\ part.args = <<>> /\ ~part.quoted

NoNumber == -1

(* A call of Eval(): fresh, until it looked for a repeat in its first part;*)
(* todo, what is left to execute, and didInternalCmd.                      *)
Eval(input) == [input |-> input, todo |-> input, fresh |-> TRUE, internal |-> FALSE]

(* Of a call that has nothing to execute and nothing to remember.          *)
Done(eval) == [eval EXCEPT !.todo = <<>>, !.fresh = FALSE, !.internal = TRUE]

(* RepeatPriorCommand(), after which eval goes on.                         *)
Repeat(eval) ==
  evals' = Front(evals) \o <<eval>>
             \o IF historyList_ = <<>> THEN <<>> ELSE <<Eval(Last(historyList_).cmd)>>

(* Where HistoryGet() finds num: once at most, as num goes round later.    *)
HistoryAt(num) == {i \in DOMAIN historyList_ : historyList_[i].num = num}

Top == Last(evals)

(* Eval() gets a line.                                                     *)
LineReceived(input) ==
  /\ evals = <<>> /\ evals' = <<Eval(input)>>
  /\ UNCHANGED <<cmdLookup_, prefix_, historyList_>>

(* Repeats at the front of the line take all of it.                        *)
LookForRepeat ==
  /\ evals # <<>> /\ Top.fresh
  /\ LET first == Top.todo[1]
         found == HistoryAt(first.num)
     IN  CASE first.word = <<"!!">> /\ IsInternal(first) -> Repeat(Done(Top))
           [] first.num # NoNumber ->
                evals' = [evals EXCEPT ![Len(evals)] =
                            IF found = {} THEN Done(Top)
                            ELSE [Eval(historyList_[CHOOSE i \in found : TRUE].cmd)
                                    EXCEPT !.fresh = FALSE]]
           [] OTHER -> evals' = [evals EXCEPT ![Len(evals)].fresh = FALSE]
  /\ UNCHANGED <<cmdLookup_, prefix_, historyList_>>

(* ShellCmdExecute: the scoped command, or else the one of that name.      *)
Names(part) ==
  IF part.word \in internalCommandSet_ THEN {part.word}
  ELSE IF prefix_ \o part.word \in DOMAIN cmdLookup_ THEN {prefix_ \o part.word}
  ELSE {part.word} \cap DOMAIN cmdLookup_

ArgCount(name) == IF name \in internalCommandSet_ THEN InternalCount(name) ELSE cmdLookup_[name]

Invokes(part, name) ==
  name \in Names(part) /\ ArgCount(name) \in {AnyCount, Len(part.args)}

(* Mutant: what repeats is remembered too.                                 *)
DidInternalForgotten(eval, part) == eval.internal

(* didInternalCmd, with this part.                                         *)
DidInternal(eval, part) == eval.internal \/ IsInternal(part)

(* What a command of a module does with the shell are steps of their own.  *)
ExecutePart ==
  /\ evals # <<>> /\ ~Top.fresh /\ Top.todo # <<>>
  /\ LET part == Head(Top.todo)
         next == [Top EXCEPT !.todo = Tail(@), !.internal = DidInternal(Top, part)]
     IN  /\ IF \E name \in Repeats : Invokes(part, name) THEN Repeat(next)
            ELSE evals' = [evals EXCEPT ![Len(evals)] = next]
         /\ prefix_' = IF Invokes(part, <<"scope">>) /\ part.args # <<>> THEN Head(part.args)
                       ELSE prefix_
  /\ UNCHANGED <<cmdLookup_, historyList_>>

HistoryAdd(cmd) ==
  historyList_' =
    IF historyList_ = <<>> THEN <<[num |-> 1, cmd |-> cmd]>>
    ELSE IF Last(historyList_).cmd = cmd THEN historyList_
    ELSE (IF Len(historyList_) = MAX_HISTORY_SIZE THEN Tail(historyList_) ELSE historyList_)
           \o <<[num |-> (Last(historyList_).num + 1) % NumLimit, cmd |-> cmd]>>

EvalReturns ==
  /\ evals # <<>> /\ ~Top.fresh /\ Top.todo = <<>>
  /\ evals' = Front(evals)
  /\ IF Top.internal THEN UNCHANGED historyList_ ELSE HistoryAdd(Top.input)
  /\ UNCHANGED <<cmdLookup_, prefix_>>

ShellNext ==
  \/ \E input \in Lines : LineReceived(input)
  \/ LookForRepeat \/ ExecutePart \/ EvalReturns
  \/ \E name \in Commands : RemoveCommand(name) \/ \E n \in {AnyCount, 0} : AddCommand(name, n)

ShellSpec == ShellInit /\ [][ShellNext]_shellVars

-----------------------------------------------------------------------------
(* "watch out for infinite loop on '.' being in the list": no line is      *)
(* evaluated inside of itself, from which Eval() would never return.       *)
NoEndlessRepeat ==
  \A i, j \in DOMAIN evals : i # j => evals[i].input # evals[j].input

=============================================================================

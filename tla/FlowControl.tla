---------------------------- MODULE FlowControl ----------------------------
(***************************************************************************)
(* Handler bodies of a flow: what the executor makes of one at run time    *)
(* (runtime/evaluator/executor.cpp) and what the validator concludes about *)
(* it at compile time (compiler/semantics/validate.cpp).                   *)
(*                                                                         *)
(* A statement is <<"step">> (let, assign, expression), <<"assert">>,      *)
(* <<"return">>, <<"goto", s>> or <<"if", then, else>>, whose branches are *)
(* blocks and whose else may be NoBlock.  Values are abstracted: a         *)
(* condition may come out either way and any evaluation may fail.  The     *)
(* branches of an if hold plain statements: one level of nesting.          *)
(***************************************************************************)
EXTENDS Integers, Sequences, FiniteSets, SequencesExt

CONSTANTS Names,    \* state names
          NoBlock   \* the absent else branch, the absent handler

(* ExecOutcome of executor.hpp, and the result with error diagnostics. *)
Continue == <<"continue">>
Returned == <<"return">>
AssertFailed == <<"assert">>
EvalError == <<"error">>
GotoState(s) == <<"goto", s>>
-----------------------------------------------------------------------------
(* exec_block: statements run in order until one has errors or leaves the  *)
(* block.  The result is the set of outcomes the values may lead to.       *)
ExecBlock(block, Exec(_)) ==
    FoldLeft(LAMBDA outcomes, s :
                IF Continue \in outcomes
                  THEN (outcomes \ {Continue}) \cup Exec(s)
                  ELSE outcomes,
             {Continue}, block)

(* exec_statement for everything but an if. *)
ExecPlain(s) ==
    CASE s[1] = "step"   -> {Continue, EvalError}
      [] s[1] = "assert" -> {Continue, AssertFailed, EvalError}
      [] s[1] = "return" -> {Returned, EvalError}
      [] s[1] = "goto"   -> {GotoState(s[2])}

ExecElse(branch) ==
    IF branch = NoBlock THEN {Continue} ELSE ExecBlock(branch, ExecPlain)

ExecStatement(s) ==
    IF s[1] = "if"
      THEN {EvalError} \cup ExecBlock(s[2], ExecPlain) \cup ExecElse(s[3])
      ELSE ExecPlain(s)

Outcomes(body) == ExecBlock(body, ExecStatement)
-----------------------------------------------------------------------------
(* ControlFlowSummary, and whether the analysis reported an error. *)
Summary(falls, goto, return, error) ==
    [may_fallthrough |-> falls, saw_goto |-> goto, saw_return |-> return,
     reported |-> error]

(* analyze_block: the statements after one that does not fall through are  *)
(* not looked at.                                                          *)
AnalyzeBlock(block, Analyze(_)) ==
    FoldLeft(LAMBDA sum, s :
                IF sum.may_fallthrough
                  THEN Summary(Analyze(s).may_fallthrough,
                               sum.saw_goto \/ Analyze(s).saw_goto,
                               sum.saw_return \/ Analyze(s).saw_return,
                               sum.reported \/ Analyze(s).reported)
                  ELSE sum,
             Summary(TRUE, FALSE, FALSE, FALSE), block)

(* analyze_statement for everything but an if, in a handler from whose     *)
(* state the states of targets are declared transitions.                   *)
AnalyzePlain(s, targets, final) ==
    CASE s[1] \in {"step", "assert"} -> Summary(TRUE, FALSE, FALSE, FALSE)
      [] s[1] = "return" -> Summary(FALSE, FALSE, TRUE, ~final)
      [] s[1] = "goto"   -> Summary(FALSE, TRUE, FALSE, s[2] \notin targets)

(* Slip: an if without else is taken for one whose else does not return. *)
ElseCannotFall(branch, targets, final) ==
    IF branch = NoBlock
      THEN Summary(FALSE, FALSE, FALSE, FALSE)
      ELSE AnalyzeBlock(branch, LAMBDA t : AnalyzePlain(t, targets, final))

AnalyzeElse(branch, targets, final) ==
    IF branch = NoBlock
      THEN Summary(TRUE, FALSE, FALSE, FALSE)
      ELSE AnalyzeBlock(branch, LAMBDA t : AnalyzePlain(t, targets, final))

AnalyzeStatement(s, targets, final) ==
    IF s[1] = "if"
      THEN LET then == AnalyzeBlock(s[2], LAMBDA t : AnalyzePlain(t, targets, final))
               else == AnalyzeElse(s[3], targets, final)
           IN  Summary(then.may_fallthrough \/ else.may_fallthrough,
                       then.saw_goto \/ else.saw_goto,
                       then.saw_return \/ else.saw_return,
                       then.reported \/ else.reported)
      ELSE AnalyzePlain(s, targets, final)

Analyze(body, targets, final) ==
    AnalyzeBlock(body, LAMBDA s : AnalyzeStatement(s, targets, final))

(* check_flows on one handler: nothing reported, a final handler only      *)
(* returns, another one only leaves by goto.                               *)
HandlerAccepted(body, targets, final) ==
    LET sum == Analyze(body, targets, final)
    IN  /\ ~sum.reported
        /\ ~sum.may_fallthrough
        /\ sum.saw_return = final
        /\ sum.saw_goto = ~final
-----------------------------------------------------------------------------
Gotos(outcomes) == {s \in Names : GotoState(s) \in outcomes}

(* The summary of a body says what its executions do: it claims a          *)
(* fall-through, a goto or a return just when some execution ends that     *)
(* way, and reports an error just when some execution would take an        *)
(* undeclared transition or return from a state that is not final.         *)
ExactFor(body, targets, final) ==
    LET sum == Analyze(body, targets, final)
        out == Outcomes(body)
    IN  /\ sum.may_fallthrough <=> Continue \in out
        /\ sum.saw_goto <=> Gotos(out) # {}
        /\ sum.saw_return <=> Returned \in out
        /\ sum.reported <=>
              \/ Gotos(out) \ targets # {}
              \/ Returned \in out /\ ~final
=============================================================================

--------------------------- MODULE MCAgentRuntime ---------------------------
(***************************************************************************)
(* AgentRuntime on every agent over a small set of names, accepted by the  *)
(* compiler or not, with handler bodies of every kind.                     *)
(***************************************************************************)
EXTENDS AgentRuntime

CONSTANT MaxSize   \* bound: plain statements and ifs in a body

First == CHOOSE s \in Names : TRUE

(* Every declaration with one choice of initial state: names are           *)
(* interchangeable, and the run may start in any state.                    *)
MCAgents == {g \in AgentType : g.initial = First /\ g.states # {}}

(* An empty handler, a return, each goto, a fork, and a return that may be *)
(* passed by.                                                              *)
MCBodies ==
    {<<>>, <<<<"assert">>, <<"return">>>>}
    \cup {<<<<"goto", s>>>> : s \in Names}
    \cup {<<<<"if", <<<<"goto", First>>>>, <<<<"goto", s>>>> >>>> : s \in Names \ {First}}
    \cup {<<<<"if", <<<<"return">>>>, NoBlock>>, <<"goto", s>>>> : s \in Names}

-----------------------------------------------------------------------------
Plain == {<<"step">>, <<"assert">>, <<"return">>} \cup {<<"goto", s>> : s \in Names}

PlainBlocks(k) == [1 .. k -> Plain]

(* The statements of a size: an if counts one, and so does each statement  *)
(* of its branches.                                                        *)
StatementsOf(k) ==
    (IF k = 1 THEN Plain ELSE {})
    \cup {<<"if", then, NoBlock>> : then \in PlainBlocks(k - 1)}
    \cup UNION {{<<"if", then, else>> :
                    then \in PlainBlocks(i), else \in PlainBlocks(k - 1 - i)} :
                i \in 0 .. k - 1}

BodiesOf[n \in 0 .. MaxSize] ==
    IF n = 0 THEN {<<>>}
    ELSE UNION {{Append(body, s) : body \in BodiesOf[n - k], s \in StatementsOf(k)} :
                k \in 1 .. n}

(* The bodies the analysis is wrong about. *)
Misjudged ==
    {body \in UNION {BodiesOf[n] : n \in 0 .. MaxSize} :
        \E targets \in SUBSET Names, final \in BOOLEAN :
            ~ExactFor(body, targets, final)}

(* analyze_block's verdict on a handler body is exact for exec_block when  *)
(* conditions may come out either way.  Code after a goto or return, in a  *)
(* branch or in the body, changes neither.  Stated before the program      *)
(* runs, of every body of the bounded size.                                *)
SummaryIsExact == status = "Unbuilt" => Misjudged = {}
=============================================================================

------------------------- MODULE ConversationMemory -------------------------
(***************************************************************************)
(* What the session store promises: a key stands for one history; an answer  *)
(* extends the history of its source, once; whatever else happens, a history *)
(* is either kept as it is or forgotten as a whole.                         *)
(***************************************************************************)
EXTENDS SessionStore

CONSTANT Exchange     \* by the key of an answer, the request and the answer

VARIABLES history,    \* the remembered keys and the history of each
          answered    \* the keys that hold an answer; they are not written again

vars == <<history, answered>>

Remembered(k) == IF k \in DOMAIN history THEN history[k] ELSE <<>>

\* The keys in changed get their value there; the others keep theirs or are forgotten.
BecomesWith(changed) ==
    \E now \in {history}, later \in {history'} :
        /\ DOMAIN later \subseteq DOMAIN now \cup DOMAIN changed
        /\ \A k \in DOMAIN later :
              later[k] = IF k \in DOMAIN changed THEN changed[k] ELSE now[k]

Init == DOMAIN history \subseteq Keys /\ answered \subseteq Keys

\* The heads are the stable keys that move with the answer: the source, or none.
Answer(source, target, heads) ==
    LET extended == Continued(Remembered(source), <<Exchange[target][1]>>, Exchange[target][2]) IN
    /\ heads \subseteq {source} \ answered
    /\ BecomesWith([k \in {target} \cup heads |-> extended])

Bind(k) == BecomesWith([j \in {k} |-> Remembered(k)])

Forget == BecomesWith(<<>>)

Next ==
    \/ /\ UNCHANGED answered
       /\ Forget \/ \E k \in Keys \ answered : Bind(k)
    \/ \E target \in DOMAIN Exchange \ answered :
          /\ answered' = answered \cup {target}
          /\ \E source \in Keys : \E heads \in SUBSET {source} : Answer(source, target, heads)

Spec == Init /\ [][Next]_vars
=============================================================================

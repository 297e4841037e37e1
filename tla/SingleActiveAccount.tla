------------------------ MODULE SingleActiveAccount ------------------------
(***************************************************************************)
(* What the account router promises its callers.                           *)
(*                                                                         *)
(* One account at a time holds the route.  Every change of hands opens a   *)
(* new epoch and reaches the disk before anyone sees it, so an epoch names *)
(* one holder for ever, even across crashes.  Clients are granted the      *)
(* holder they find, with its epoch; a grant outlives its epoch.           *)
(***************************************************************************)
EXTENDS Naturals

CONSTANTS
    Account,
    NoAccount,   \* nobody holds the route
    Client

VARIABLES
    holder,   \* the account that holds the route, or NoAccount
    epoch,    \* how often the route has changed hands
    record,   \* [holder, epoch] on disk
    grants    \* what each client was granted

vars == <<holder, epoch, record, grants>>

Holder == Account \union {NoAccount}
Grant  == [account : Account, generation : Nat]
None   == [account |-> NoAccount, generation |-> 0]

TypeOK ==
    /\ holder \in Holder
    /\ epoch \in Nat
    /\ record \in [holder : Holder, epoch : Nat]
    /\ grants \in [Client -> Grant \union {None}]

Init ==
    /\ holder \in Holder
    /\ epoch \in Nat
    /\ record = [holder |-> holder, epoch |-> epoch]
    /\ grants = [c \in Client |-> None]

(* From a route held by h in epoch e and recorded as rec: nothing happens, *)
(* the record catches up, the last account leaves, or the route changes    *)
(* hands, which opens an epoch and is recorded at once.                    *)
Reroute(h, e, rec) ==
    \/ /\ holder' = h /\ epoch' = e
       /\ record' \in {rec, [holder |-> h, epoch |-> e]}
    \/ /\ holder' = NoAccount /\ epoch' = e
       /\ record' \in {rec, [holder |-> h, epoch |-> e],
                       [holder |-> NoAccount, epoch |-> e]}
    \/ /\ holder' \in Holder
       /\ epoch' \in Nat /\ epoch' > e
       /\ record' = [holder |-> holder', epoch |-> epoch']

(* A client is granted the holder, gives its grant up, or does neither.    *)
Settle ==
    \/ UNCHANGED grants
    \/ \E c \in Client : grants' = [grants EXCEPT ![c] = None]
    \/ \E c \in Client :
         /\ holder' # NoAccount
         /\ grants' = [grants EXCEPT ![c] = [account    |-> holder',
                                             generation |-> epoch']]

(* The process dies: grants are gone, and the record is all that is left.  *)
Crash ==
    /\ Reroute(record.holder, record.epoch, record)
    /\ grants' = [c \in Client |-> None]

Next ==
    \/ Reroute(holder, epoch, record) /\ Settle
    \/ Crash

Spec == Init /\ [][Next]_vars

-----------------------------------------------------------------------------

(* An epoch names one account: two grants of one epoch are for the same    *)
(* account, and a grant of the current epoch is for the current holder.    *)
EpochNamesOneAccount ==
    /\ \A c, d \in Client :
         (grants[c] # None /\ grants[d] # None
            /\ grants[c].generation = grants[d].generation)
         => grants[c].account = grants[d].account
    /\ \A c \in Client :
         grants[c] # None =>
            /\ grants[c].generation <= epoch
            /\ (grants[c].generation = epoch /\ holder # NoAccount)
               => grants[c].account = holder

(* No epoch is ever used twice: neither a rotation, nor a failed write of  *)
(* the record, nor a crash takes the route back to an earlier epoch.       *)
EpochNeverFallsBack == [][epoch' >= epoch]_vars

(* The record never falls behind by an epoch, only by a departure: it is   *)
(* what makes the restart after a crash safe.                              *)
IInv ==
    /\ TypeOK
    /\ record.epoch = epoch
    /\ EpochNamesOneAccount

=============================================================================

------------------------------- MODULE Ledger -------------------------------
(***************************************************************************)
(* What a wallet's dashboard may rely on.  Attempts are opened and closed  *)
(* one after the other.  The trade of an attempt moves only while the      *)
(* attempt is open, or when the attempt is known to have lost track of a   *)
(* transaction.  A record says what happened on the chain.  It is written  *)
(* once, with the close of its attempt; only an attempt known to be in     *)
(* doubt, for a request of its record got no answer, may have it written   *)
(* at another time, before or after other attempts, or more than once.  An *)
(* attempt that is abandoned, and not in doubt, has none.                  *)
(***************************************************************************)
EXTENDS Naturals

CONSTANT MaxAttempts

Attempts == 1..MaxAttempts

VARIABLES
    tried,    \* attempts opened so far
    open,     \* the attempt that is open, if one is
    trade,    \* of each attempt: nothing, the purchase only, all of it
    record,   \* of each attempt: what the backend says of it
    twice,    \* attempts with more than one record
    doubt,    \* attempts whose record may come late, or again
    lost      \* attempts that lost track of a transaction

recordVars == <<record, twice>>
ledgerVars == <<tried, open, trade, recordVars, doubt, lost>>

Init ==
    /\ tried = 0
    /\ open = {}
    /\ trade = [a \in Attempts |-> "none"]
    /\ record = [a \in Attempts |-> "none"]
    /\ twice = {}
    /\ doubt = {}
    /\ lost = {}

Open ==
    /\ open = {}
    /\ tried < MaxAttempts
    /\ tried' = tried + 1
    /\ open' = {tried'}
    /\ UNCHANGED <<trade, recordVars, doubt, lost>>

Move(a) ==
    /\ a \in open \cup lost
    /\ \/ trade[a] = "none" /\ trade' = [trade EXCEPT ![a] = "half"]
       \/ trade[a] # "done" /\ trade' = [trade EXCEPT ![a] = "done"]
    /\ UNCHANGED <<tried, open, recordVars, doubt, lost>>

Lose ==
    /\ lost' = lost \cup open
    /\ UNCHANGED <<tried, open, trade, recordVars, doubt>>

\* A record is true, unless it is of a failure that may not be one, and it
\* repeats what an earlier record of the attempt says.
Write(a) ==
    /\ \E status \in {"success", "fail"} :
          /\ status = "success" => trade[a] = "done"
          /\ status = "fail" => trade[a] # "done" \/ a \in lost
          /\ record[a] \in {"none", status}
          /\ record' = [record EXCEPT ![a] = status]
    /\ twice' = IF record[a] = "none" THEN twice ELSE twice \cup {a}

Close(a) ==
    /\ a \in open
    /\ open' = {}
    /\ Write(a)
    /\ record[a] # "none" => a \in doubt
    /\ UNCHANGED <<tried, trade, doubt, lost>>

\* A request of the record of the open attempt gets no answer.
Doubt ==
    /\ doubt' = doubt \cup open
    /\ UNCHANGED <<tried, open, trade, recordVars, lost>>

\* Such a request reaches the backend, whatever came since.
Late(a) ==
    /\ a \in doubt
    /\ Write(a)
    /\ UNCHANGED <<tried, open, trade, doubt, lost>>

\* The worker is cancelled or killed, or an exception ends its scan.
Abandon(a) ==
    /\ a \in open
    /\ open' = {}
    /\ doubt' \in {doubt, doubt \cup open}
    /\ lost' \in {lost, lost \cup open}
    /\ UNCHANGED <<tried, trade, recordVars>>

Next ==
    \/ Open \/ Lose \/ Doubt
    \/ \E a \in Attempts : Move(a) \/ Close(a) \/ Late(a) \/ Abandon(a)

Spec == Init /\ [][Next]_ledgerVars
=============================================================================

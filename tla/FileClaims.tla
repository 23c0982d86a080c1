----------------------------- MODULE FileClaims -----------------------------
(***************************************************************************)
(* What the status column of a file promises, whatever the stores, the      *)
(* moves and the deletions do: it is the lock under which the file is parsed *)
(* and indexed. A call claims it when nobody else holds it, the status stays *)
(* as claimed until the holder writes its result or dies, and a result is    *)
(* one of the kind of work that was claimed. The two writes that do not ask  *)
(* for the lock, of a stale row and of a late failure, spoil the promise     *)
(* that there is one holder.                                                 *)
(***************************************************************************)
CONSTANTS Calls

VARIABLES status,     \* of the file, or "absent"
          claim,      \* [Calls -> "parsing", "indexing" or "none"]
          spoiled     \* has the status been written by somebody without the lock?

claimsVars == <<status, claim, spoiled>>

Fresh      == {"uploaded", "parsed", "indexed", "done"}
From(s)    == IF s = "parsing" THEN {"uploaded", "error_parsing"}
                               ELSE {"parsed", "error_indexing", "indexed", "done"}
Results(s) == IF s = "parsing" THEN {"parsed", "error_parsing"}
                               ELSE {"indexed", "error_indexing", "uploaded"}
Fallback(s) == IF s = "parsing" THEN "uploaded" ELSE IF s = "indexing" THEN "parsed" ELSE s

Init == /\ status \in Fresh
        /\ claim = [c \in Calls |-> "none"]
        /\ spoiled = FALSE

Take(c, s) == /\ status \in From(s) /\ claim[c] = "none"
              /\ spoiled \/ \A d \in Calls : claim[d] = "none"
              /\ status' = s /\ claim' = [claim EXCEPT ![c] = s]
              /\ UNCHANGED spoiled

\* The result is written to a file that has not been deleted meanwhile.
Settle(c) == /\ claim[c] # "none"
             /\ \/ status = "absent" /\ UNCHANGED status
                \/ status = claim[c] /\ status' \in Results(claim[c])
                \/ spoiled /\ status # "absent" /\ status' \in Results(claim[c])
             /\ claim' = [claim EXCEPT ![c] = "none"]
             /\ UNCHANGED spoiled

\* The result cannot be written.
Lose(c) == /\ claim[c] # "none" /\ claim' = [claim EXCEPT ![c] = "none"]
           /\ UNCHANGED <<status, spoiled>>

\* An indexing call fails after its result and takes it back.
Recant == status = "indexed" /\ status' = "error_indexing" /\ UNCHANGED <<claim, spoiled>>

Remove == status' = "absent" /\ UNCHANGED <<claim, spoiled>>

\* All holders die; the status falls back, if it can be written.
Restart == /\ status' \in {status, Fallback(status)}
           /\ claim' = [c \in Calls |-> "none"]
           /\ UNCHANGED spoiled

Spoil == spoiled' = TRUE /\ UNCHANGED claim

Next == \/ \E c \in Calls : Take(c, "parsing") \/ Take(c, "indexing") \/ Settle(c) \/ Lose(c)
        \/ Recant \/ Remove \/ Restart \/ Spoil

Spec == Init /\ [][Next]_claimsVars
=============================================================================

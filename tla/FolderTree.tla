----------------------------- MODULE FolderTree -----------------------------
(***************************************************************************)
(* The folders and files of a knowledge base as a tree: each row names its  *)
(* parent. Moving a folder walks up from its new parent in one read after   *)
(* the other and then writes; deleting one lists the children of a folder   *)
(* and deletes them, folders first and each with its own children, before   *)
(* the folder itself; creating a folder checks its parent, and uploading a  *)
(* file does not. PostgreSQL sees to it that a parent exists, and puts the  *)
(* children of a deleted row under the root.                                *)
(***************************************************************************)
EXTENDS Integers, Sequences

CONSTANTS
  Nodes,          \* files and folders, those to come included
  Folders,        \* those that are folders
  Root,           \* the parent of those that have none
  Unborn, Gone,   \* the place of a node that has no row yet, or no more
  NumTreeCalls,   \* how many calls come
  MaxDepth        \* how deep delete_folder may call itself: Python's recursion limit

ASSUME TreeAssumption ==
  /\ Folders \subseteq Nodes
  /\ {Root, Unborn, Gone} \cap Nodes = {} /\ Root \notin {Unborn, Gone} /\ Unborn # Gone
  /\ NumTreeCalls \in Nat /\ MaxDepth \in Nat \ {0}

TreeCalls == 1..NumTreeCalls

VARIABLES
  place,     \* the parent of each node
  act,       \* what a call is at
  subject,   \* the node it moves or creates
  goal,      \* the parent it gives to it
  current,   \* the node it looks at next on its way up
  stack,     \* the folders a deletion is in: each with what is left of its children
  doomed,    \* history: what was below the deleted node and has stayed there since
  stale,     \* history: whether another folder was moved since a move began
  crossed    \* history: whether a folder was moved by such a call

treeVars == <<place, act, subject, goal, current, stack, doomed, stale, crossed>>

Places == Nodes \cup {Root, Unborn, Gone}
Frames == [dir : Folders \cup {Root}, rest : SUBSET Nodes]

HasRow(n) == place[n] \notin {Unborn, Gone}
\* The ids a caller can name are those the code has given.
Known == {n \in Nodes : place[n] # Unborn}
Children(n) == {k \in Nodes : place[k] = n}
\* What delete_folder would find below a node, and the node: the children of a file
\* are not looked for.
Below(n) ==
  {k \in Nodes : \A S \in SUBSET Nodes :
     n \in S /\ (\A j \in Nodes : place[j] \in S \cap Folders => j \in S) => k \in S}

Moving(c) == act[c] \in {"walk", "write"}
Ongoing(c) == act[c] \notin {"none", "done", "over"}

\* A tree: parents have rows, those of folders are folders, and no set of nodes has
\* its parents in itself only.
Tree ==
  /\ \A n \in Nodes : place[n] \in Nodes => HasRow(place[n])
  /\ \A n \in Folders : place[n] \in Nodes => place[n] \in Folders
  /\ \A S \in SUBSET Nodes : S # {} => \E n \in S : place[n] \notin S

TreeInit ==
  /\ place \in [Nodes -> Nodes \cup {Root, Unborn}] /\ Tree
  /\ act = [c \in TreeCalls |-> "none"]
  /\ subject = [c \in TreeCalls |-> Root] /\ goal = [c \in TreeCalls |-> Root]
  /\ current = [c \in TreeCalls |-> Root] /\ stack = [c \in TreeCalls |-> <<>>]
  /\ doomed = [c \in TreeCalls |-> {}] /\ stale = [c \in TreeCalls |-> FALSE]
  /\ crossed = FALSE

-----------------------------------------------------------------------------
(* Helpers *)

\* Calls begin in the order of their numbers.
Starts(c, what) ==
  /\ act[c] = "none" /\ \A d \in TreeCalls : d < c => act[d] # "none"
  /\ act' = [act EXCEPT ![c] = what]

\* A call ends, well or with an exception: what it knew is of no use any more.
Stops(c) ==
  /\ act' = [act EXCEPT ![c] = "done"]
  /\ subject' = [subject EXCEPT ![c] = Root] /\ goal' = [goal EXCEPT ![c] = Root]
  /\ current' = [current EXCEPT ![c] = Root] /\ stack' = [stack EXCEPT ![c] = <<>>]
  /\ doomed' = [doomed EXCEPT ![c] = {}] /\ stale' = [stale EXCEPT ![c] = FALSE]

-----------------------------------------------------------------------------
(* move_file *)

MoveBegins(c) ==
  \E n \in Known, p \in Known \cup {Root} :
    /\ HasRow(n) /\ ~(n \in Folders /\ p = n)
    /\ Starts(c, IF p = Root THEN "write" ELSE "walk")
    /\ subject' = [subject EXCEPT ![c] = n] /\ goal' = [goal EXCEPT ![c] = p]
    /\ current' = [current EXCEPT ![c] = p]
    /\ UNCHANGED <<place, stack, doomed, stale, crossed>>

\* Fault: only the new parent itself is looked at.
WalksOneStep(c) ==
  /\ act[c] = "walk"
  /\ IF HasRow(current[c]) /\ current[c] \in Folders
     THEN /\ act' = [act EXCEPT ![c] = "write"] /\ current' = [current EXCEPT ![c] = Root]
          /\ UNCHANGED <<subject, goal, stack, doomed, stale>>
     ELSE Stops(c)
  /\ UNCHANGED <<place, crossed>>

\* One read on the way up: the new parent must be a folder, and a folder must not come
\* upon itself. For a file the new parent is looked at only.
Walks(c) ==
  /\ act[c] = "walk"
  /\ IF /\ HasRow(current[c]) /\ (current[c] = goal[c] => current[c] \in Folders)
        /\ current[c] # subject[c]
     THEN LET next == IF subject[c] \in Folders THEN place[current[c]] ELSE Root IN
          /\ current' = [current EXCEPT ![c] = next]
          /\ act' = [act EXCEPT ![c] = IF next = Root THEN "write" ELSE "walk"]
          /\ UNCHANGED <<subject, goal, stack, doomed, stale>>
     ELSE Stops(c)
  /\ UNCHANGED <<place, crossed>>

\* The row is written, or inserted again if it was deleted meanwhile; a parent that is
\* gone is refused.
MoveWrites(c) ==
  LET n == subject[c] IN
  /\ act[c] = "write"
  /\ IF goal[c] \in Nodes => HasRow(goal[c])
     THEN /\ place' = [place EXCEPT ![n] = goal[c]]
          /\ doomed' = [d \in TreeCalls |-> doomed[d] \ Below(n)]
          /\ crossed' = (crossed \/ stale[c])
          /\ stale' = [d \in TreeCalls |-> (stale[d] \/ (n \in Folders /\ Moving(d))) /\ d # c]
          /\ act' = [act EXCEPT ![c] = "done"]
          /\ subject' = [subject EXCEPT ![c] = Root] /\ goal' = [goal EXCEPT ![c] = Root]
          /\ UNCHANGED <<current, stack>>
     ELSE Stops(c) /\ UNCHANGED <<place, crossed>>

-----------------------------------------------------------------------------
(* create_folder and add_file_record *)

CreateBegins(c) ==
  \E n \in Nodes \ Known, p \in Known \cup {Root} :
    /\ \A d \in TreeCalls : subject[d] # n
    /\ Starts(c, IF n \in Folders /\ p # Root THEN "check" ELSE "insert")
    /\ subject' = [subject EXCEPT ![c] = n] /\ goal' = [goal EXCEPT ![c] = p]
    /\ UNCHANGED <<place, current, stack, doomed, stale, crossed>>

Checks(c) ==
  /\ act[c] = "check"
  /\ IF HasRow(goal[c]) /\ goal[c] \in Folders
     THEN /\ act' = [act EXCEPT ![c] = "insert"]
          /\ UNCHANGED <<subject, goal, current, stack, doomed, stale>>
     ELSE Stops(c)
  /\ UNCHANGED <<place, crossed>>

Inserts(c) ==
  /\ act[c] = "insert" /\ Stops(c)
  /\ place' = IF goal[c] \in Nodes => HasRow(goal[c])
              THEN [place EXCEPT ![subject[c]] = goal[c]] ELSE place
  /\ UNCHANGED crossed

-----------------------------------------------------------------------------
(* delete_document, delete_folder *)

DeletionBegins(c) ==
  \E n \in Nodes :
    /\ HasRow(n) /\ Starts(c, "delete")
    /\ stack' = [stack EXCEPT ![c] = <<[dir |-> Root, rest |-> {n}]>>]
    /\ doomed' = [doomed EXCEPT ![c] = Below(n)]
    /\ UNCHANGED <<place, subject, goal, current, stale, crossed>>

Deleting(c) == act[c] = "delete"
Depth(c) == Len(stack[c])
Top(c) == stack[c][Depth(c)]
\* The children of the folder it is in, but for x.
Without(c, x) == [stack[c] EXCEPT ![Depth(c)] = [dir |-> Top(c).dir, rest |-> Top(c).rest \ {x}]]

\* delete_file, whose chunks KnowledgeFiles deals with: what was below the row stays,
\* and what other calls were about to delete there escapes them.
RemoveNode(c, x) ==
  /\ place' = [k \in Nodes |-> IF k = x THEN Gone ELSE IF place[k] = x THEN Root ELSE place[k]]
  /\ doomed' = [d \in TreeCalls |-> doomed[d] \ (IF d = c THEN {x} ELSE Below(x))]
  /\ UNCHANGED <<act, subject, goal, current, stale, crossed>>

\* delete_folder calls itself for a folder among the children ...
Descends(c) ==
  /\ Deleting(c) /\ Depth(c) < MaxDepth
  /\ \E x \in Top(c).rest \cap Folders :
       stack' = [stack EXCEPT ![c] = Append(Without(c, x), [dir |-> x, rest |-> Children(x)])]
  /\ UNCHANGED <<place, act, subject, goal, current, doomed, stale, crossed>>

\* Fault: a folder among the children is deleted like a file.
DeletesAny(c) ==
  /\ Deleting(c)
  /\ \E x \in Top(c).rest :
       /\ Depth(c) > 1 \/ x \notin Folders
       /\ stack' = [stack EXCEPT ![c] = Without(c, x)] /\ RemoveNode(c, x)

\* ... then the files are deleted ...
DeletesFile(c) ==
  /\ Deleting(c) /\ Top(c).rest \cap Folders = {}
  /\ \E x \in Top(c).rest :
       stack' = [stack EXCEPT ![c] = Without(c, x)] /\ RemoveNode(c, x)

\* ... and the folder itself, whether anything has come into it since or not.
DeletesFolder(c) ==
  /\ Deleting(c) /\ Top(c).rest = {} /\ Depth(c) > 1
  /\ stack' = [stack EXCEPT ![c] = SubSeq(stack[c], 1, Depth(c) - 1)]
  /\ RemoveNode(c, Top(c).dir)

DeletionEnds(c) ==
  /\ Deleting(c) /\ Top(c).rest = {} /\ Depth(c) = 1
  /\ act' = [act EXCEPT ![c] = "over"] /\ stack' = [stack EXCEPT ![c] = <<>>]
  /\ UNCHANGED <<place, subject, goal, current, doomed, stale, crossed>>

\* A database operation fails, the recursion is too deep, or the process dies.
Breaks(c) == Ongoing(c) /\ Stops(c) /\ UNCHANGED <<place, crossed>>

-----------------------------------------------------------------------------
(* Specification *)

TreeCall(c) ==
  \/ MoveBegins(c) \/ Walks(c) \/ MoveWrites(c)
  \/ CreateBegins(c) \/ Checks(c) \/ Inserts(c)
  \/ DeletionBegins(c) \/ Descends(c) \/ DeletesFile(c) \/ DeletesFolder(c) \/ DeletionEnds(c)
  \/ Breaks(c)

TreeNext == \E c \in TreeCalls : TreeCall(c)
TreeSpec == TreeInit /\ [][TreeNext]_treeVars

-----------------------------------------------------------------------------
(* Properties *)

\* Every variable holds a value of its kind.
TreeTypeOK ==
  /\ place \in [Nodes -> Places]
  /\ act \in [TreeCalls -> {"none", "walk", "write", "check", "insert", "delete", "over", "done"}]
  /\ subject \in [TreeCalls -> Nodes \cup {Root}] /\ goal \in [TreeCalls -> Nodes \cup {Root}]
  /\ current \in [TreeCalls -> Nodes \cup {Root}] /\ stack \in [TreeCalls -> Seq(Frames)]
  /\ doomed \in [TreeCalls -> SUBSET Nodes] /\ stale \in [TreeCalls -> BOOLEAN]
  /\ crossed \in BOOLEAN

\* Moves, creations and deletions leave a tree, whatever happens between the reads of a
\* move and its write: only two moves of folders that overlap can close a cycle.
TreeSound == ~crossed => Tree

\* A deletion that ends without an error has deleted all that was below the folder when
\* it began, but for what was moved or created elsewhere meanwhile: although
\* each list of children is read long before it is used.
FolderGoesWhole == \A c \in TreeCalls : act[c] = "over" => doomed[c] = {}
=============================================================================

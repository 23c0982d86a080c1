-------------------------- MODULE FolderTreeProofs --------------------------
(***************************************************************************)
(* Proofs about FolderTree, for any files and folders, any tree of them to  *)
(* begin with, and any number of calls.                                     *)
(***************************************************************************)
EXTENDS FolderTree, TLAPS

LEMMA Distinct ==
  /\ Folders \subseteq Nodes /\ Root \notin Nodes /\ Unborn \notin Nodes /\ Gone \notin Nodes
  /\ Root # Unborn /\ Root # Gone /\ Unborn # Gone
BY TreeAssumption

-----------------------------------------------------------------------------
(* The stack of a deletion *)

Dirs(s) == {s[i].dir : i \in DOMAIN s}
Rests(s) == UNION {s[i].rest : i \in DOMAIN s}

\* The first frame is that of the deletion, the others are those of folders.
WellStacked(s) == Len(s) > 0 /\ s[1].dir = Root /\ \A i \in 2..Len(s) : s[i].dir \in Folders

\* Taking x from the children of the folder a deletion is in.
Less(s, x) == [s EXCEPT ![Len(s)] = [dir |-> s[Len(s)].dir, rest |-> s[Len(s)].rest \ {x}]]

LEMMA LessFrames ==
  ASSUME NEW s \in Seq(Frames), WellStacked(s), NEW x, NEW t, t = Less(s, x)
  PROVE  /\ t \in Seq(Frames) /\ WellStacked(t) /\ Len(t) = Len(s)
         /\ Dirs(t) = Dirs(s) /\ Rests(t) \subseteq Rests(s) /\ Rests(s) \subseteq Rests(t) \cup {x}
<1>1. Len(s) \in 1..Len(s) /\ s[Len(s)] \in Frames
  BY DEF WellStacked
<1>2. [dir |-> s[Len(s)].dir, rest |-> s[Len(s)].rest \ {x}] \in Frames
  BY <1>1 DEF Frames
<1>3. t \in Seq(Frames) /\ Len(t) = Len(s) /\ DOMAIN t = 1..Len(s) /\ DOMAIN s = 1..Len(s)
  BY <1>1, <1>2 DEF Less
<1>4. \A i \in 1..Len(s) : /\ t[i].dir = s[i].dir /\ t[i].rest \subseteq s[i].rest
                           /\ s[i].rest \subseteq t[i].rest \cup {x}
  BY <1>1 DEF Less
<1>5. WellStacked(t)
  BY <1>1, <1>3, <1>4 DEF WellStacked
<1>6. Dirs(t) = Dirs(s)
  BY <1>3, <1>4 DEF Dirs
<1>7. Rests(t) \subseteq Rests(s) /\ Rests(s) \subseteq Rests(t) \cup {x}
  BY <1>3, <1>4 DEF Rests
<1> QED BY <1>3, <1>5, <1>6, <1>7

\* Calling itself for a folder.
More(s, x, kids) == Append(s, [dir |-> x, rest |-> kids])

LEMMA MoreFrames ==
  ASSUME NEW s \in Seq(Frames), WellStacked(s), NEW x \in Folders, NEW kids \in SUBSET Nodes,
         NEW t, t = More(s, x, kids)
  PROVE  /\ t \in Seq(Frames) /\ WellStacked(t)
         /\ Dirs(t) = Dirs(s) \cup {x} /\ Rests(t) = Rests(s) \cup kids
<1> DEFINE f == [dir |-> x, rest |-> kids]
<1>1. f \in Frames
  BY DEF Frames
<1>2. /\ t \in Seq(Frames) /\ Len(t) = Len(s) + 1 /\ DOMAIN t = 1..(Len(s) + 1)
      /\ DOMAIN s = 1..Len(s) /\ Len(s) \in Nat
  BY <1>1 DEF More
<1>3. (\A i \in 1..Len(s) : t[i] = s[i]) /\ t[Len(s) + 1] = f
  BY <1>1 DEF More
<1>4. WellStacked(t)
  BY <1>2, <1>3 DEF WellStacked
<1>5. Dirs(t) = Dirs(s) \cup {x}
  BY <1>2, <1>3 DEF Dirs
<1>6. Rests(t) = Rests(s) \cup kids
  BY <1>2, <1>3 DEF Rests
<1> QED BY <1>2, <1>4, <1>5, <1>6

\* Returning from it.
LEMMA PopFrames ==
  ASSUME NEW s \in Seq(Frames), WellStacked(s), Len(s) > 1, s[Len(s)].rest = {},
         NEW t, t = SubSeq(s, 1, Len(s) - 1)
  PROVE  /\ t \in Seq(Frames) /\ WellStacked(t)
         /\ s[Len(s)].dir \in Folders /\ Dirs(s) = Dirs(t) \cup {s[Len(s)].dir} /\ Rests(t) = Rests(s)
<1>0. \A n \in Nat : \A i \in 1..n : i \in 1..(n - 1) \/ i = n
  OBVIOUS
<1>1. DOMAIN s = 1..Len(s) /\ Len(s) \in Nat
  OBVIOUS
<1>2. t \in Seq(Frames) /\ Len(t) = Len(s) - 1 /\ DOMAIN t = 1..(Len(s) - 1)
  BY <1>1
<1>3. \A i \in 1..(Len(s) - 1) : t[i] = s[i]
  BY <1>1
<1>4. WellStacked(t) /\ s[Len(s)].dir \in Folders
  BY <1>1, <1>2, <1>3 DEF WellStacked
<1>5. \A i \in 1..Len(s) : i \in 1..(Len(s) - 1) \/ i = Len(s)
  BY <1>0, <1>1
<1>6. 1..(Len(s) - 1) \subseteq 1..Len(s) /\ Len(s) \in 1..Len(s)
  BY <1>1
<1>7. Dirs(s) = Dirs(t) \cup {s[Len(s)].dir}
  <2>1. Dirs(s) \subseteq Dirs(t) \cup {s[Len(s)].dir}
    BY <1>1, <1>2, <1>3, <1>5 DEF Dirs
  <2>2. Dirs(t) \cup {s[Len(s)].dir} \subseteq Dirs(s)
    BY <1>1, <1>2, <1>3, <1>6 DEF Dirs
  <2> QED BY <2>1, <2>2
<1>8. Rests(t) = Rests(s)
  <2>1. Rests(s) \subseteq Rests(t)
    BY <1>1, <1>2, <1>3, <1>5, ZenonT(60) DEF Rests
  <2>2. Rests(t) \subseteq Rests(s)
    BY <1>1, <1>2, <1>3, <1>6 DEF Rests
  <2> QED BY <2>1, <2>2
<1> QED BY <1>2, <1>4, <1>7, <1>8

\* The frame a deletion is in.
LEMMA TopFrame ==
  ASSUME NEW s \in Seq(Frames), WellStacked(s)
  PROVE  /\ s[Len(s)].rest \subseteq Rests(s) /\ s[Len(s)].dir \in Dirs(s)
         /\ Rests(s) \subseteq Nodes /\ Dirs(s) \subseteq Folders \cup {Root}
<1>1. DOMAIN s = 1..Len(s) /\ Len(s) \in 1..Len(s)
  BY DEF WellStacked
<1>2. \A i \in 1..Len(s) : s[i].dir \in Folders \cup {Root} /\ s[i].rest \subseteq Nodes
  <2>1. \A i \in 1..Len(s) : s[i] \in Frames
    OBVIOUS
  <2> QED BY <2>1 DEF Frames
<1> QED BY <1>1, <1>2 DEF Dirs, Rests

-----------------------------------------------------------------------------
(* Types *)

\* A deletion has its stack, and a walk is at a node.
Shaped == \A e \in TreeCalls : /\ Deleting(e) => WellStacked(stack[e])
                               /\ act[e] = "walk" => current[e] \in Nodes

LEMMA TypeInit == TreeInit => TreeTypeOK /\ Shaped
<1> SUFFICES ASSUME TreeInit PROVE TreeTypeOK /\ Shaped
  OBVIOUS
<1>1. <<>> \in Seq(Frames)
  OBVIOUS
<1> QED BY <1>1 DEF TreeInit, TreeTypeOK, Shaped, Deleting, Places

LEMMA StopTypes ==
  ASSUME TreeTypeOK, Shaped, NEW c \in TreeCalls, Stops(c), place' \in [Nodes -> Places], crossed' \in BOOLEAN
  PROVE  TreeTypeOK' /\ Shaped'
<1>1. <<>> \in Seq(Frames)
  OBVIOUS
<1>2. stack' \in [TreeCalls -> Seq(Frames)]
  BY <1>1 DEF TreeTypeOK, Stops
<1>3. TreeTypeOK'
  BY <1>2 DEF TreeTypeOK, Stops
<1>4. Shaped'
  BY DEF TreeTypeOK, Stops, Shaped, Deleting
<1> QED BY <1>3, <1>4

LEMMA MoveTypes ==
  ASSUME TreeTypeOK, Shaped, NEW c \in TreeCalls, MoveBegins(c) \/ Walks(c) \/ MoveWrites(c)
  PROVE  TreeTypeOK' /\ Shaped'
<1>1. CASE MoveBegins(c)
  BY <1>1 DEF MoveBegins, Starts, Known, TreeTypeOK, Shaped, Deleting
<1>2. CASE Walks(c)
  <2>1. CASE Stops(c)
    BY <1>2, <2>1, StopTypes DEF Walks, TreeTypeOK
  <2>2. CASE ~Stops(c)
    <3>1. HasRow(current[c]) /\ current[c] \in Nodes \cup {Root}
      BY <1>2, <2>2 DEF Walks, TreeTypeOK
    <3>2. place[current[c]] \in Nodes \cup {Root} \/ current[c] = Root
      BY <3>1 DEF TreeTypeOK, Places, HasRow
    <3>3. PICK next \in Nodes \cup {Root} :
            /\ current' = [current EXCEPT ![c] = next]
            /\ act' = [act EXCEPT ![c] = IF next = Root THEN "write" ELSE "walk"]
            /\ UNCHANGED <<subject, goal, stack, doomed, stale, place, crossed>>
      <4>1. current[c] # Root
        BY <1>2, Distinct DEF Walks, Shaped
      <4> QED BY <1>2, <2>2, <3>2, <4>1 DEF Walks
    <3> QED BY <1>2, <2>2, <3>3 DEF TreeTypeOK, Shaped, Deleting
  <2> QED BY <2>1, <2>2
<1>3. CASE MoveWrites(c)
  <2>1. CASE Stops(c) /\ UNCHANGED <<place, crossed>>
    BY <2>1, StopTypes DEF TreeTypeOK
  <2>2. CASE ~(Stops(c) /\ UNCHANGED <<place, crossed>>)
    <3>1. stale' \in [TreeCalls -> BOOLEAN] /\ crossed' \in BOOLEAN
      <4>1. stale' = [d \in TreeCalls |-> (stale[d] \/ (subject[c] \in Folders /\ Moving(d))) /\ d # c]
        BY <1>3, <2>2 DEF MoveWrites
      <4>2. stale' \in [TreeCalls -> BOOLEAN]
        BY <4>1
      <4>3. crossed' = (crossed \/ stale[c])
        BY <1>3, <2>2 DEF MoveWrites
      <4> QED BY <4>2, <4>3
    <3>2. place' \in [Nodes -> Places] /\ doomed' \in [TreeCalls -> SUBSET Nodes]
      BY <1>3, <2>2 DEF MoveWrites, TreeTypeOK, Places
    <3> QED BY <1>3, <2>2, <3>1, <3>2, ZenonT(60) DEF MoveWrites, TreeTypeOK, Shaped, Deleting
  <2> QED BY <2>1, <2>2
<1> QED BY <1>1, <1>2, <1>3

LEMMA CreateTypes ==
  ASSUME TreeTypeOK, Shaped, NEW c \in TreeCalls, CreateBegins(c) \/ Checks(c) \/ Inserts(c)
  PROVE  TreeTypeOK' /\ Shaped'
<1>1. CASE CreateBegins(c)
  BY <1>1 DEF CreateBegins, Starts, Known, TreeTypeOK, Shaped, Deleting
<1>2. CASE Checks(c)
  BY <1>2, StopTypes DEF Checks, TreeTypeOK, Shaped, Deleting
<1>3. CASE Inserts(c)
  <2>1. place' \in [Nodes -> Places]
    BY <1>3 DEF Inserts, TreeTypeOK, Places
  <2> QED BY <1>3, <2>1, StopTypes DEF Inserts, TreeTypeOK
<1> QED BY <1>1, <1>2, <1>3

\* The stack of a deletion that goes on.
LEMMA DeletionTypes ==
  ASSUME TreeTypeOK, Shaped, NEW c \in TreeCalls,
         DeletionBegins(c) \/ Descends(c) \/ DeletesFile(c) \/ DeletesFolder(c) \/ DeletionEnds(c)
  PROVE  TreeTypeOK' /\ Shaped'
<1> DEFINE s == stack[c]
<1>0. s \in Seq(Frames) /\ (Deleting(c) => WellStacked(s))
  BY DEF TreeTypeOK, Shaped
<1>a. ASSUME NEW x, RemoveNode(c, x)
      PROVE  place' \in [Nodes -> Places] /\ doomed' \in [TreeCalls -> SUBSET Nodes]
  BY <1>a DEF RemoveNode, TreeTypeOK, Places
<1>1. CASE DeletionBegins(c)
  <2>1. PICK n \in Nodes : /\ stack' = [stack EXCEPT ![c] = <<[dir |-> Root, rest |-> {n}]>>]
                           /\ doomed' = [doomed EXCEPT ![c] = Below(n)] /\ Starts(c, "delete")
                           /\ UNCHANGED <<place, subject, goal, current, stale, crossed>>
    BY <1>1 DEF DeletionBegins
  <2> DEFINE t == <<[dir |-> Root, rest |-> {n}]>>
  <2>2. [dir |-> Root, rest |-> {n}] \in Frames
    BY DEF Frames
  <2>3. t \in Seq(Frames) /\ WellStacked(t)
    BY <2>2 DEF WellStacked
  <2>4. Below(n) \subseteq Nodes
    BY DEF Below
  <2> HIDE DEF t
  <2>5. stack' = [stack EXCEPT ![c] = t]
    BY <2>1 DEF t
  <2>6. doomed' \in [TreeCalls -> SUBSET Nodes] /\ stack' \in [TreeCalls -> Seq(Frames)]
    BY <2>1, <2>3, <2>4, <2>5 DEF TreeTypeOK
  <2>7. TreeTypeOK'
    BY <2>1, <2>6 DEF Starts, TreeTypeOK
  <2> QED BY <2>1, <2>3, <2>5, <2>7 DEF Starts, TreeTypeOK, Shaped, Deleting
<1>2. CASE Descends(c)
  <2>1. PICK x \in Top(c).rest \cap Folders :
          stack' = [stack EXCEPT ![c] = Append(Without(c, x), [dir |-> x, rest |-> Children(x)])]
    BY <1>2 DEF Descends
  <2> DEFINE w == Without(c, x)
             t == More(w, x, Children(x))
  <2>2. w \in Seq(Frames) /\ WellStacked(w)
    <3>1. w = Less(s, x) /\ Deleting(c)
      BY <1>2 DEF Without, Top, Depth, Less, Descends
    <3> QED BY <1>0, <3>1, LessFrames
  <2>3. t \in Seq(Frames) /\ WellStacked(t)
    BY <2>2, MoreFrames DEF Children
  <2> HIDE DEF w, t
  <2>4. stack' = [stack EXCEPT ![c] = t]
    BY <2>1 DEF t, w, More
  <2> QED BY <1>2, <2>3, <2>4 DEF Descends, TreeTypeOK, Shaped, Deleting
<1>3. CASE DeletesFile(c)
  <2>1. PICK x \in Top(c).rest : stack' = [stack EXCEPT ![c] = Without(c, x)] /\ RemoveNode(c, x)
    BY <1>3 DEF DeletesFile
  <2>2. Without(c, x) \in Seq(Frames) /\ WellStacked(Without(c, x))
    <3>1. Without(c, x) = Less(s, x) /\ Deleting(c)
      BY <1>3 DEF Without, Top, Depth, Less, DeletesFile
    <3> QED BY <1>0, <3>1, LessFrames
  <2>3. place' \in [Nodes -> Places] /\ doomed' \in [TreeCalls -> SUBSET Nodes]
    BY <1>a, <2>1
  <2>4. UNCHANGED <<act, subject, goal, current, stale, crossed>>
    BY <2>1 DEF RemoveNode
  <2> QED BY <2>1, <2>2, <2>3, <2>4 DEF TreeTypeOK, Shaped, Deleting
<1>4. CASE DeletesFolder(c)
  <2> DEFINE t == SubSeq(s, 1, Len(s) - 1)
  <2>1. t \in Seq(Frames) /\ WellStacked(t)
    BY <1>0, <1>4, PopFrames DEF DeletesFolder, Top, Depth
  <2> HIDE DEF t
  <2>2. stack' = [stack EXCEPT ![c] = t]
    BY <1>4 DEF DeletesFolder, Depth, t
  <2>3. place' \in [Nodes -> Places] /\ doomed' \in [TreeCalls -> SUBSET Nodes]
    BY <1>4, <1>a DEF DeletesFolder
  <2>4. UNCHANGED <<act, subject, goal, current, stale, crossed>>
    BY <1>4 DEF DeletesFolder, RemoveNode
  <2> QED BY <2>1, <2>2, <2>3, <2>4 DEF TreeTypeOK, Shaped, Deleting
<1>5. CASE DeletionEnds(c)
  <2>1. <<>> \in Seq(Frames)
    OBVIOUS
  <2> QED BY <1>5, <2>1 DEF DeletionEnds, TreeTypeOK, Shaped, Deleting
<1> QED BY <1>1, <1>2, <1>3, <1>4, <1>5

LEMMA TypeStep == TreeTypeOK /\ Shaped /\ [TreeNext]_treeVars => TreeTypeOK' /\ Shaped'
<1> SUFFICES ASSUME TreeTypeOK, Shaped, [TreeNext]_treeVars PROVE TreeTypeOK' /\ Shaped'
  OBVIOUS
<1>1. CASE UNCHANGED treeVars
  BY <1>1 DEF treeVars, TreeTypeOK, Shaped, Deleting
<1>2. ASSUME NEW c \in TreeCalls, Breaks(c) PROVE TreeTypeOK' /\ Shaped'
  BY <1>2, StopTypes DEF Breaks, TreeTypeOK
<1> QED BY <1>1, <1>2, MoveTypes, CreateTypes, DeletionTypes DEF TreeNext, TreeCall

\* Every variable holds a value of its kind, for any nodes and calls.
THEOREM TreeTypeCorrect == TreeSpec => []TreeTypeOK
<1>1. TreeSpec => [](TreeTypeOK /\ Shaped)
  BY TypeInit, TypeStep, PTL DEF TreeSpec
<1> QED BY <1>1, PTL

-----------------------------------------------------------------------------
(* What a step leaves alone, and what it does to the rows *)

LEMMA OthersStand ==
  ASSUME TreeTypeOK, NEW c \in TreeCalls, TreeCall(c), NEW e \in TreeCalls, e # c
  PROVE  /\ act'[e] = act[e] /\ subject'[e] = subject[e] /\ goal'[e] = goal[e]
         /\ current'[e] = current[e] /\ stack'[e] = stack[e]
<1> USE DEF TreeTypeOK, Starts, Stops
<1>1. CASE MoveBegins(c) \/ Walks(c) \/ MoveWrites(c)
  BY <1>1 DEF MoveBegins, Walks, MoveWrites
<1>2. CASE CreateBegins(c) \/ Checks(c) \/ Inserts(c)
  BY <1>2 DEF CreateBegins, Checks, Inserts
<1>3. CASE DeletionBegins(c) \/ Descends(c) \/ DeletesFile(c) \/ DeletesFolder(c) \/ DeletionEnds(c)
  BY <1>3 DEF DeletionBegins, Descends, DeletesFile, DeletesFolder, DeletionEnds, RemoveNode
<1>4. CASE Breaks(c)
  BY <1>4 DEF Breaks
<1> QED BY <1>1, <1>2, <1>3, <1>4 DEF TreeCall

RowMoved(c) ==
  /\ act[c] = "write" /\ (goal[c] \in Nodes => HasRow(goal[c]))
  /\ place' = [place EXCEPT ![subject[c]] = goal[c]]
RowAdded(c) ==
  /\ act[c] = "insert" /\ (goal[c] \in Nodes => HasRow(goal[c]))
  /\ place' = [place EXCEPT ![subject[c]] = goal[c]]
RowDeleted(x) ==
  place' = [k \in Nodes |-> IF k = x THEN Gone ELSE IF place[k] = x THEN Root ELSE place[k]]

\* What a deletion takes away is in its stack.
LEMMA DeletedFromStack ==
  ASSUME TreeTypeOK, Shaped, NEW c \in TreeCalls
  PROVE  /\ DeletesFile(c) => /\ WellStacked(stack[c])
                              /\ \E x \in Rests(stack[c]) \ Folders :
                                   stack' = [stack EXCEPT ![c] = Less(stack[c], x)] /\ RemoveNode(c, x)
         /\ DeletesFolder(c) => /\ WellStacked(stack[c]) /\ stack[c][Len(stack[c])].dir \in Dirs(stack[c]) \cap Folders
                                /\ RemoveNode(c, stack[c][Len(stack[c])].dir)
<1>1. stack[c] \in Seq(Frames)
  BY DEF TreeTypeOK
<1>2. ASSUME DeletesFile(c)
      PROVE  /\ WellStacked(stack[c])
             /\ \E x \in Rests(stack[c]) \ Folders :
                  stack' = [stack EXCEPT ![c] = Less(stack[c], x)] /\ RemoveNode(c, x)
  <2>1. WellStacked(stack[c])
    BY <1>2 DEF DeletesFile, Shaped
  <2>2. PICK x \in Top(c).rest : stack' = [stack EXCEPT ![c] = Without(c, x)] /\ RemoveNode(c, x)
    BY <1>2 DEF DeletesFile
  <2>3. Without(c, x) = Less(stack[c], x)
    BY DEF Without, Top, Depth, Less
  <2>4. x \in Rests(stack[c]) \ Folders
    BY <1>1, <1>2, <2>1, TopFrame DEF DeletesFile, Top, Depth
  <2> QED BY <2>1, <2>2, <2>3, <2>4
<1>3. ASSUME DeletesFolder(c)
      PROVE  /\ WellStacked(stack[c]) /\ stack[c][Len(stack[c])].dir \in Dirs(stack[c]) \cap Folders
             /\ RemoveNode(c, stack[c][Len(stack[c])].dir)
  <2>1. WellStacked(stack[c]) /\ Len(stack[c]) > 1
    BY <1>3 DEF DeletesFolder, Shaped, Depth
  <2>2. stack[c][Len(stack[c])].dir \in Dirs(stack[c])
    BY <1>1, <2>1, TopFrame
  <2>3. stack[c][Len(stack[c])].dir \in Folders
    BY <1>1, <2>1 DEF WellStacked
  <2> QED BY <1>3, <2>1, <2>2, <2>3 DEF DeletesFolder, Top, Depth
<1> QED BY <1>2, <1>3

LEMMA PlaceChange ==
  ASSUME TreeTypeOK, Shaped, NEW c \in TreeCalls, TreeCall(c)
  PROVE  \/ UNCHANGED place
         \/ RowMoved(c) /\ MoveWrites(c)
         \/ RowAdded(c) /\ Inserts(c)
         \/ /\ Deleting(c) /\ (DeletesFile(c) \/ DeletesFolder(c))
            /\ \E x \in (Rests(stack[c]) \cup Dirs(stack[c])) \cap Nodes : RowDeleted(x) /\ RemoveNode(c, x)
<1>1. CASE MoveBegins(c) \/ Walks(c) \/ CreateBegins(c) \/ Checks(c) \/ DeletionBegins(c)
           \/ Descends(c) \/ DeletionEnds(c) \/ Breaks(c)
  BY <1>1 DEF MoveBegins, Walks, CreateBegins, Checks, DeletionBegins, Descends, DeletionEnds, Breaks
<1>2. CASE MoveWrites(c)
  BY <1>2 DEF MoveWrites, RowMoved
<1>3. CASE Inserts(c)
  BY <1>3 DEF Inserts, RowAdded
<1>4. CASE DeletesFile(c) \/ DeletesFolder(c)
  <2>1. Deleting(c) /\ stack[c] \in Seq(Frames) /\ WellStacked(stack[c])
    BY <1>4 DEF DeletesFile, DeletesFolder, TreeTypeOK, Shaped
  <2>2. Rests(stack[c]) \subseteq Nodes /\ Dirs(stack[c]) \cap Folders \subseteq Nodes
    BY <2>1, TopFrame, Distinct
  <2>3. \E x \in (Rests(stack[c]) \cup Dirs(stack[c])) \cap Nodes : RemoveNode(c, x)
    BY <1>4, <2>2, DeletedFromStack
  <2> QED BY <1>4, <2>1, <2>3 DEF RemoveNode, RowDeleted
<1> QED BY <1>1, <1>2, <1>3, <1>4 DEF TreeCall

-----------------------------------------------------------------------------
(* What the calls know of the tree *)

Creating(e) == act[e] \in {"check", "insert"}

\* A parent has a row, and that of a folder is a folder.
Parents ==
  /\ \A n \in Nodes : place[n] \in Nodes => HasRow(place[n])
  /\ \A n \in Folders : place[n] \in Nodes => place[n] \in Folders

\* A move knows nodes that have been created, and has seen that the new parent is a
\* folder once it has looked at it.
MoveOK(e) ==
  Moving(e) => /\ subject[e] \in Known /\ goal[e] \in Known \cup {Root}
               /\ act[e] = "walk" /\ current[e] # goal[e] => goal[e] \in Folders
               /\ act[e] = "write" => current[e] = Root /\ goal[e] \in Folders \cup {Root}

\* What a creation will create is not there yet.
CreateOK(e) ==
  Creating(e) => /\ subject[e] \in Nodes \ Known /\ goal[e] \in Known \cup {Root}
                 /\ act[e] = "insert" /\ subject[e] \in Folders => goal[e] \in Folders \cup {Root}

DeleteOK(e) ==
  Deleting(e) => Rests(stack[e]) \subseteq Known /\ Dirs(stack[e]) \subseteq Known \cup {Root}

\* No two calls create the same node.
Apart ==
  \A d, e \in TreeCalls : d # e /\ Creating(d) /\ Creating(e) => subject[d] # subject[e]

BaseInv ==
  /\ TreeTypeOK /\ Shaped /\ Parents /\ Apart
  /\ \A e \in TreeCalls : MoveOK(e) /\ CreateOK(e) /\ DeleteOK(e)

LEMMA BaseInit == TreeInit => BaseInv
BY TypeInit DEF TreeInit, Tree, BaseInv, Parents, Apart, MoveOK, CreateOK, DeleteOK,
  Moving, Creating, Deleting

\* A node that has been created stays so, and only an insertion creates one.
LEMMA KnownGrows ==
  ASSUME BaseInv, NEW c \in TreeCalls, TreeCall(c), NEW n \in Nodes
  PROVE  n \in Known' <=> n \in Known \/ (RowAdded(c) /\ n = subject[c])
<1> USE DEF BaseInv, TreeTypeOK, Known
<1>1. CASE UNCHANGED place /\ ~RowAdded(c)
  BY <1>1
<1>2. CASE RowMoved(c)
  BY <1>2, Distinct DEF RowMoved, RowAdded, MoveOK, Moving
<1>3. CASE RowAdded(c)
  BY <1>3, Distinct DEF RowAdded, CreateOK, Creating
<1>4. ASSUME Deleting(c), NEW x \in (Rests(stack[c]) \cup Dirs(stack[c])) \cap Nodes, RowDeleted(x)
      PROVE  n \in Known' <=> n \in Known \/ (RowAdded(c) /\ n = subject[c])
  BY <1>4, Distinct DEF RowDeleted, RowAdded, DeleteOK, Deleting
<1> QED BY <1>1, <1>2, <1>3, <1>4, PlaceChange

LEMMA ParentsStep ==
  ASSUME BaseInv, NEW c \in TreeCalls, TreeCall(c)
  PROVE  Parents'
<1> USE DEF BaseInv, TreeTypeOK, Parents, HasRow
<1>1. CASE UNCHANGED place
  BY <1>1
<1>2. CASE RowMoved(c)
  BY <1>2, Distinct DEF RowMoved, MoveOK, Moving
<1>3. CASE RowAdded(c)
  BY <1>3, Distinct DEF RowAdded, CreateOK, Creating
<1>4. ASSUME NEW x \in Nodes, RowDeleted(x) PROVE Parents'
  BY <1>4, Distinct DEF RowDeleted
<1> QED BY <1>1, <1>2, <1>3, <1>4, PlaceChange

\* What the other calls know stays true ...
LEMMA OthersOK ==
  ASSUME BaseInv, NEW c \in TreeCalls, TreeCall(c), NEW e \in TreeCalls, e # c
  PROVE  MoveOK(e)' /\ CreateOK(e)' /\ DeleteOK(e)'
<1>1. /\ act'[e] = act[e] /\ subject'[e] = subject[e] /\ goal'[e] = goal[e]
      /\ current'[e] = current[e] /\ stack'[e] = stack[e]
  BY OthersStand DEF BaseInv
<1>2. Known \subseteq Known' /\ \A n \in Nodes \ Known : n \in Known' => RowAdded(c) /\ n = subject[c]
  BY KnownGrows DEF Known
<1>3. MoveOK(e)' /\ DeleteOK(e)'
  BY <1>1, <1>2 DEF BaseInv, MoveOK, DeleteOK, Moving, Deleting
<1>4. CreateOK(e)'
  BY <1>1, <1>2 DEF BaseInv, CreateOK, Creating, Apart, RowAdded
<1> QED BY <1>3, <1>4

\* ... and what the call itself knows is true.
LEMMA OwnOK ==
  ASSUME BaseInv, NEW c \in TreeCalls, TreeCall(c)
  PROVE  MoveOK(c)' /\ CreateOK(c)' /\ DeleteOK(c)'
<1> USE DEF BaseInv, TreeTypeOK, MoveOK, CreateOK, DeleteOK, Moving, Creating, Deleting
<1>1. CASE Stops(c)
  BY <1>1 DEF Stops
<1>2. CASE MoveBegins(c)
  BY <1>2, Distinct DEF MoveBegins, Starts, Known
<1>3. CASE Walks(c) /\ ~Stops(c)
  BY <1>3, Distinct DEF Walks, Known, Shaped, HasRow, Parents
<1>4. CASE MoveWrites(c) /\ ~Stops(c)
  BY <1>4 DEF MoveWrites
<1>5. CASE CreateBegins(c)
  BY <1>5 DEF CreateBegins, Starts, Known
<1>6. CASE Checks(c) /\ ~Stops(c)
  BY <1>6 DEF Checks, Known
<1>7. CASE DeletionBegins(c)
  <2>1. PICK n \in Nodes : /\ HasRow(n) /\ Starts(c, "delete") /\ UNCHANGED place
                           /\ stack' = [stack EXCEPT ![c] = <<[dir |-> Root, rest |-> {n}]>>]
    BY <1>7 DEF DeletionBegins
  <2>2. stack'[c] = <<[dir |-> Root, rest |-> {n}]>>
    BY <2>1
  <2>3. Rests(stack'[c]) = {n} /\ Dirs(stack'[c]) = {Root}
    BY <2>2 DEF Rests, Dirs
  <2> QED BY <2>1, <2>3 DEF Starts, HasRow, Known
<1>8. CASE Descends(c)
  <2>1. PICK x \in Top(c).rest \cap Folders :
          /\ stack' = [stack EXCEPT ![c] = Append(Without(c, x), [dir |-> x, rest |-> Children(x)])]
          /\ UNCHANGED <<place, act>>
    BY <1>8 DEF Descends
  <2>2. stack[c] \in Seq(Frames) /\ WellStacked(stack[c])
    BY <1>8 DEF Descends, Shaped
  <2> DEFINE w == Less(stack[c], x)
  <2>3. /\ w \in Seq(Frames) /\ WellStacked(w) /\ Dirs(w) = Dirs(stack[c]) /\ Rests(w) \subseteq Rests(stack[c])
    BY <2>2, LessFrames
  <2>4. stack'[c] = More(w, x, Children(x))
    BY <2>1 DEF Without, Top, Depth, Less, More
  <2> HIDE DEF w
  <2>5. Dirs(stack'[c]) = Dirs(w) \cup {x} /\ Rests(stack'[c]) = Rests(w) \cup Children(x)
    <3> HIDE DEF BaseInv, TreeTypeOK, MoveOK, CreateOK, DeleteOK, Moving, Creating, Deleting
    <3>1. Children(x) \in SUBSET Nodes /\ x \in Folders
      BY <2>1 DEF Children
    <3> QED BY <2>3, <2>4, <3>1, MoreFrames
  <2>6. x \in Rests(stack[c]) /\ Children(x) \subseteq Known /\ x \in Nodes
    BY <2>1, <2>2, TopFrame, Distinct DEF Top, Depth, Children, Known
  <2>7. Deleting(c) /\ Deleting(c)'
    BY <1>8, <2>1 DEF Descends
  <2> QED BY <2>1, <2>3, <2>5, <2>6, <2>7 DEF Known
<1>9. CASE DeletesFile(c)
  <2>1. PICK x \in Rests(stack[c]) \ Folders :
          stack' = [stack EXCEPT ![c] = Less(stack[c], x)] /\ RemoveNode(c, x)
    BY <1>9, DeletedFromStack
  <2>2. stack[c] \in Seq(Frames) /\ WellStacked(stack[c]) /\ Deleting(c) /\ UNCHANGED act
    BY <1>9, <2>1 DEF DeletesFile, Shaped, RemoveNode
  <2>3. stack'[c] = Less(stack[c], x)
    BY <2>1
  <2>4. Dirs(stack'[c]) = Dirs(stack[c]) /\ Rests(stack'[c]) \subseteq Rests(stack[c])
    BY <2>2, <2>3, LessFrames
  <2>5. Known \subseteq Known'
    BY KnownGrows DEF Known
  <2> QED BY <2>2, <2>4, <2>5
<1>10. CASE DeletesFolder(c)
  <2>1. stack[c] \in Seq(Frames) /\ WellStacked(stack[c]) /\ Deleting(c) /\ UNCHANGED act
    BY <1>10 DEF DeletesFolder, Shaped, RemoveNode
  <2>2. stack'[c] = SubSeq(stack[c], 1, Len(stack[c]) - 1) /\ Len(stack[c]) > 1 /\ stack[c][Len(stack[c])].rest = {}
    BY <1>10 DEF DeletesFolder, Depth, Top
  <2>3. Dirs(stack'[c]) \subseteq Dirs(stack[c]) /\ Rests(stack'[c]) = Rests(stack[c])
    <3> HIDE DEF BaseInv, TreeTypeOK, MoveOK, CreateOK, DeleteOK, Moving, Creating, Deleting
    <3> DEFINE s == stack[c]
               t == SubSeq(s, 1, Len(s) - 1)
    <3>1. Dirs(s) = Dirs(t) \cup {s[Len(s)].dir} /\ Rests(t) = Rests(s)
      <4> HIDE DEF s
      <4> QED BY <2>1, <2>2, PopFrames DEF s
    <3> QED BY <2>2, <3>1
  <2>4. Known \subseteq Known'
    BY KnownGrows DEF Known
  <2> QED BY <2>1, <2>3, <2>4
<1>11. CASE DeletionEnds(c)
  BY <1>11 DEF DeletionEnds
<1> QED BY <1>1, <1>2, <1>3, <1>4, <1>5, <1>6, <1>7, <1>8, <1>9, <1>10, <1>11 DEF TreeCall, Inserts, Breaks

LEMMA ApartStep ==
  ASSUME BaseInv, NEW c \in TreeCalls, TreeCall(c)
  PROVE  Apart'
<1>1. \A e \in TreeCalls \ {c} : act'[e] = act[e] /\ subject'[e] = subject[e]
  BY OthersStand DEF BaseInv
<1>2. SUFFICES ASSUME Creating(c)', ~(Creating(c) /\ subject'[c] = subject[c])
               PROVE  \A e \in TreeCalls \ {c} : subject'[c] # subject[e]
  BY <1>1 DEF BaseInv, Apart, Creating
<1>3. CreateBegins(c)
  <2> USE DEF BaseInv, TreeTypeOK, Creating
  <2>1. ~Stops(c) /\ act'[c] \in {"check", "insert"}
    BY <1>2 DEF Stops
  <2>2. ~(MoveBegins(c) \/ Walks(c) \/ MoveWrites(c) \/ DeletionBegins(c) \/ DeletionEnds(c))
    BY <2>1 DEF MoveBegins, Walks, MoveWrites, DeletionBegins, DeletionEnds, Starts
  <2>3. ~(Descends(c) \/ DeletesFile(c) \/ DeletesFolder(c))
    BY <2>1 DEF Descends, DeletesFile, DeletesFolder, RemoveNode, Deleting
  <2>4. ~Checks(c)
    BY <1>2, <2>1 DEF Checks
  <2> QED BY <2>1, <2>2, <2>3, <2>4 DEF TreeCall, Inserts, Breaks
<1> QED BY <1>3 DEF CreateBegins, BaseInv, TreeTypeOK

LEMMA BaseStep == BaseInv /\ [TreeNext]_treeVars => BaseInv'
<1> SUFFICES ASSUME BaseInv, [TreeNext]_treeVars PROVE BaseInv'
  OBVIOUS
<1>1. CASE UNCHANGED treeVars
  BY <1>1 DEF treeVars, BaseInv, TreeTypeOK, Shaped, Parents, Apart, MoveOK, CreateOK, DeleteOK,
    Moving, Creating, Deleting, Known, HasRow
<1>2. ASSUME NEW c \in TreeCalls, TreeCall(c) PROVE BaseInv'
  <2>1. TreeTypeOK' /\ Shaped'
    BY <1>2, TypeStep DEF BaseInv, TreeNext
  <2>2. \A e \in TreeCalls : MoveOK(e)' /\ CreateOK(e)' /\ DeleteOK(e)'
    BY <1>2, OthersOK, OwnOK
  <2> QED BY <1>2, <2>1, <2>2, ParentsStep, ApartStep DEF BaseInv
<1> QED BY <1>1, <1>2 DEF TreeNext

-----------------------------------------------------------------------------
(* The tree *)

\* Folders from which there is no way up but through the one that is moved.
Encloses(S, e) == subject[e] \in S /\ goal[e] \in S /\ \A k \in S \ {subject[e]} : place[k] \in S

\* As long as no other folder is moved, a walk does not leave a set that encloses it: it
\* reaches the root only if it would not close a cycle.
WalkOK(e) ==
  Moving(e) /\ subject[e] \in Folders /\ ~stale[e] =>
    \A S \in SUBSET Folders : Encloses(S, e) => current[e] \in S

SoundInv == BaseInv /\ TreeSound /\ \A e \in TreeCalls : WalkOK(e)

LEMMA SoundInit == TreeInit => SoundInv
BY BaseInit DEF TreeInit, SoundInv, TreeSound, WalkOK, Moving

LEMMA HistoryGrows ==
  ASSUME TreeTypeOK, NEW c \in TreeCalls, TreeCall(c)
  PROVE  /\ crossed => crossed'
         /\ \A e \in TreeCalls \ {c} : stale[e] => stale'[e]
<1> USE DEF TreeTypeOK, Stops
<1>1. CASE MoveWrites(c) /\ RowMoved(c)
  BY <1>1 DEF MoveWrites, RowMoved
<1>2. CASE Stops(c) /\ UNCHANGED crossed
  BY <1>2
<1>3. CASE UNCHANGED <<stale, crossed>>
  BY <1>3
<1>4. \/ MoveWrites(c) /\ RowMoved(c)
      \/ Stops(c) /\ UNCHANGED crossed
      \/ UNCHANGED <<stale, crossed>>
  <2> HIDE DEF TreeTypeOK, Stops
  <2>1. CASE MoveBegins(c) \/ Walks(c) \/ MoveWrites(c)
    BY <2>1 DEF MoveBegins, Walks, MoveWrites, RowMoved
  <2>2. CASE CreateBegins(c) \/ Checks(c) \/ Inserts(c) \/ Breaks(c)
    BY <2>2 DEF CreateBegins, Checks, Inserts, Breaks
  <2>3. CASE DeletionBegins(c) \/ Descends(c) \/ DeletesFile(c) \/ DeletesFolder(c) \/ DeletionEnds(c)
    BY <2>3 DEF DeletionBegins, Descends, DeletesFile, DeletesFolder, DeletionEnds, RemoveNode
  <2> QED BY <2>1, <2>2, <2>3 DEF TreeCall
<1> QED BY <1>1, <1>2, <1>3, <1>4

\* The folder that was moved is noted by the other moves.
LEMMA MoveNoted ==
  ASSUME TreeTypeOK, NEW c \in TreeCalls, RowMoved(c), MoveWrites(c)
  PROVE  /\ stale[c] => crossed'
         /\ subject[c] \in Folders => \A e \in TreeCalls \ {c} : Moving(e) => stale'[e]
<1>1. /\ crossed' = (crossed \/ stale[c])
      /\ stale' = [d \in TreeCalls |-> (stale[d] \/ (subject[c] \in Folders /\ Moving(d))) /\ d # c]
  BY DEF RowMoved, MoveWrites
<1>2. stale[c] => crossed'
  BY <1>1
<1>3. \A e \in TreeCalls \ {c} : subject[c] \in Folders /\ Moving(e) => stale'[e]
  BY <1>1
<1> QED BY <1>2, <1>3

LEMMA OtherWalks ==
  ASSUME SoundInv, NEW c \in TreeCalls, TreeCall(c), NEW e \in TreeCalls, e # c
  PROVE  WalkOK(e)'
<1>1. /\ act'[e] = act[e] /\ subject'[e] = subject[e] /\ goal'[e] = goal[e] /\ current'[e] = current[e]
      /\ stale[e] => stale'[e]
  BY OthersStand, HistoryGrows DEF SoundInv, BaseInv
<1>2. SUFFICES ASSUME Moving(e), subject[e] \in Folders, ~stale'[e], NEW S \in SUBSET Folders,
                      subject[e] \in S, goal[e] \in S, \A k \in S \ {subject[e]} : place'[k] \in S
               PROVE  current[e] \in S
  BY <1>1 DEF WalkOK, Encloses, Moving
<1>3. ASSUME NEW T \in SUBSET Folders, Encloses(T, e) PROVE current[e] \in T
  BY <1>1, <1>2, <1>3 DEF SoundInv, WalkOK
<1>4. CASE UNCHANGED place
  BY <1>2, <1>3, <1>4 DEF Encloses
<1>5. CASE RowMoved(c) /\ MoveWrites(c)
  <2>1. subject[c] \notin Folders
    BY <1>2, <1>5, MoveNoted DEF SoundInv, BaseInv
  <2>2. \A k \in S : place'[k] = place[k]
    BY <1>5, <2>1, Distinct DEF RowMoved, SoundInv, BaseInv, TreeTypeOK
  <2> QED BY <1>2, <1>3, <2>2 DEF Encloses
<1>6. CASE RowAdded(c)
  <2> DEFINE n == subject[c]
  <2>1. n \in Nodes \ Known
    BY <1>6 DEF RowAdded, SoundInv, BaseInv, CreateOK, Creating
  <2>2. subject[e] # n /\ goal[e] # n
    BY <1>2, <2>1, Distinct DEF SoundInv, BaseInv, MoveOK
  <2>3. \A k \in S \ {n} : place'[k] = place[k] /\ place[k] # n
    BY <1>6, <2>1, Distinct DEF RowAdded, SoundInv, BaseInv, TreeTypeOK, Parents, HasRow, Known
  <2>4. Encloses(S \ {n}, e)
    BY <1>2, <2>2, <2>3 DEF Encloses
  <2> QED BY <1>3, <2>4
<1>7. ASSUME NEW x \in Nodes, RowDeleted(x) PROVE current[e] \in S
  <2>1. \A k \in S \ {subject[e]} : place[k] \in S
    BY <1>2, <1>7, Distinct DEF RowDeleted
  <2> QED BY <1>2, <1>3, <2>1 DEF Encloses
<1> QED BY <1>4, <1>5, <1>6, <1>7, PlaceChange DEF SoundInv, BaseInv

LEMMA OwnWalk ==
  ASSUME SoundInv, NEW c \in TreeCalls, TreeCall(c)
  PROVE  WalkOK(c)'
<1> USE DEF SoundInv, BaseInv, TreeTypeOK
<1>1. SUFFICES ASSUME Moving(c)', subject'[c] \in Folders, ~stale'[c],
                      NEW S \in SUBSET Folders, Encloses(S, c)'
               PROVE  current'[c] \in S
  BY DEF WalkOK
<1>2. CASE MoveBegins(c)
  BY <1>1, <1>2 DEF MoveBegins, Encloses
<1>3. CASE Walks(c) /\ ~Stops(c)
  <2>1. /\ act[c] = "walk" /\ current[c] # subject[c] /\ subject'[c] = subject[c] /\ goal'[c] = goal[c]
        /\ stale'[c] = stale[c] /\ current'[c] = place[current[c]] /\ UNCHANGED place
    BY <1>1, <1>3 DEF Walks
  <2>2. Encloses(S, c)
    BY <1>1, <2>1 DEF Encloses
  <2>3. current[c] \in S
    BY <1>1, <2>1, <2>2 DEF WalkOK, Moving
  <2> QED BY <2>1, <2>2, <2>3 DEF Encloses
<1>4. MoveBegins(c) \/ (Walks(c) /\ ~Stops(c))
  <2>1. ~Stops(c) /\ act'[c] \in {"walk", "write"}
    BY <1>1 DEF Stops, Moving
  <2>2. ~(MoveWrites(c) \/ CreateBegins(c) \/ Checks(c) \/ Inserts(c) \/ DeletionBegins(c) \/ DeletionEnds(c) \/ Breaks(c))
    BY <2>1 DEF MoveWrites, CreateBegins, Checks, Inserts, DeletionBegins, DeletionEnds, Breaks, Starts
  <2>3. ~(Descends(c) \/ DeletesFile(c) \/ DeletesFolder(c))
    BY <2>1 DEF Descends, DeletesFile, DeletesFolder, RemoveNode, Deleting
  <2> QED BY <2>1, <2>2, <2>3 DEF TreeCall
<1> QED BY <1>2, <1>3, <1>4

\* No step closes a cycle, unless a folder is moved by a call that was overtaken.
LEMMA TreeStep ==
  ASSUME SoundInv, NEW c \in TreeCalls, TreeCall(c)
  PROVE  TreeSound'
<1> USE DEF SoundInv, BaseInv, TreeTypeOK
<1>1. SUFFICES ASSUME ~crossed', NEW S \in SUBSET Nodes, S # {}, \A n \in S : place'[n] \in S
               PROVE  FALSE
  BY ParentsStep DEF TreeSound, Tree, Parents
<1>2. ~crossed
  BY <1>1, HistoryGrows
<1>3. ASSUME NEW T \in SUBSET Nodes, T # {}, \A n \in T : place[n] \in T PROVE FALSE
  BY <1>2, <1>3 DEF TreeSound, Tree
<1>4. CASE UNCHANGED place
  BY <1>1, <1>3, <1>4
<1>5. CASE RowMoved(c) /\ MoveWrites(c)
  <2> DEFINE n == subject[c]
             F == S \cap Folders
  <2>1. /\ n \in Nodes /\ current[c] = Root /\ goal[c] \in Folders \cup {Root} /\ Moving(c)
        /\ place' = [place EXCEPT ![n] = goal[c]]
    BY <1>5 DEF RowMoved, MoveOK, Moving, Known
  <2>2. n \in S
    <3>1. SUFFICES ASSUME n \notin S PROVE FALSE
      OBVIOUS
    <3>2. \A k \in S : place[k] \in S
      BY <1>1, <2>1, <3>1
    <3> QED BY <1>1, <1>3, <3>2
  <2>3. goal[c] \in F
    BY <1>1, <2>1, <2>2, Distinct
  <2>4. \A k \in F \ {n} : place[k] \in F
    BY <1>1, <2>1, Distinct DEF Parents
  <2>5. CASE n \in Folders
    <3>1. ~stale[c] /\ Encloses(F, c)
      BY <1>1, <1>5, <2>2, <2>3, <2>4, <2>5, MoveNoted DEF Encloses
    <3> QED BY <2>1, <2>5, <3>1, Distinct DEF WalkOK
  <2>6. CASE n \notin Folders
    <3>1. \A k \in F : place[k] \in F
      BY <2>4, <2>6
    <3>2. F \in SUBSET Nodes /\ F # {}
      BY <2>3
    <3> HIDE DEF F
    <3> QED BY <1>3, <3>1, <3>2
  <2> QED BY <2>5, <2>6
<1>6. CASE RowAdded(c)
  <2> DEFINE n == subject[c]
  <2>1. n \in Nodes \ Known /\ goal[c] # n /\ place' = [place EXCEPT ![n] = goal[c]]
    BY <1>6, Distinct DEF RowAdded, CreateOK, Creating
  <2>2. \A k \in S \ {n} : place[k] \in S \ {n}
    BY <1>1, <2>1, Distinct DEF Parents, HasRow, Known
  <2>3. S \ {n} # {}
    BY <1>1, <2>1
  <2> QED BY <1>3, <2>2, <2>3
<1>7. ASSUME NEW x \in Nodes, RowDeleted(x) PROVE FALSE
  <2>1. \A k \in S : place[k] \in S
    BY <1>1, <1>7, Distinct DEF RowDeleted
  <2> QED BY <1>1, <1>3, <2>1
<1> QED BY <1>4, <1>5, <1>6, <1>7, PlaceChange

LEMMA SoundStep == SoundInv /\ [TreeNext]_treeVars => SoundInv'
<1> SUFFICES ASSUME SoundInv, [TreeNext]_treeVars PROVE SoundInv'
  OBVIOUS
<1>1. BaseInv'
  BY BaseStep DEF SoundInv
<1>2. CASE UNCHANGED treeVars
  BY <1>1, <1>2 DEF treeVars, SoundInv, TreeSound, Tree, HasRow, WalkOK, Encloses, Moving
<1>3. ASSUME NEW c \in TreeCalls, TreeCall(c) PROVE SoundInv'
  BY <1>1, <1>3, OtherWalks, OwnWalk, TreeStep DEF SoundInv
<1> QED BY <1>2, <1>3 DEF TreeNext

\* Whatever is moved, created and deleted between the reads of a move and its write,
\* the folders stay a tree, unless two moves of folders overlap.
THEOREM FoldersStayATree == TreeSpec => []TreeSound
<1>1. TreeSpec => []SoundInv
  BY SoundInit, SoundStep, PTL DEF TreeSpec
<1>2. SoundInv => TreeSound
  BY DEF SoundInv
<1> QED BY <1>1, <1>2, PTL

-----------------------------------------------------------------------------
(* Deletions *)

LEMMA BelowClosed ==
  ASSUME NEW n \in Nodes
  PROVE  /\ n \in Below(n) /\ Below(n) \subseteq Nodes
         /\ \A k \in Nodes : place[k] \in Below(n) \cap Folders => k \in Below(n)
BY DEF Below

LEMMA BelowLeast ==
  ASSUME NEW n \in Nodes, NEW S \in SUBSET Nodes, n \in S,
         \A k \in Nodes : place[k] \in S \cap Folders => k \in S
  PROVE  Below(n) \subseteq S
BY DEF Below

\* A set that holds what a deletion has still to look at, with all below it.
Holds(S, e) ==
  /\ Rests(stack[e]) \subseteq S \cup Dirs(stack[e])
  /\ \A k \in Nodes \ Dirs(stack[e]) : place[k] \in S \cap Folders => k \in S

\* What is doomed will be found: it is in each such set, or one of the folders that
\* the deletion is in.
WholeOK(e) ==
  Deleting(e) =>
    \A S \in SUBSET (Nodes \ Dirs(stack[e])) : Holds(S, e) => doomed[e] \subseteq S \cup Dirs(stack[e])

WholeInv == BaseInv /\ FolderGoesWhole /\ \A e \in TreeCalls : WholeOK(e)

LEMMA WholeInit == TreeInit => WholeInv
BY BaseInit DEF TreeInit, WholeInv, FolderGoesWhole, WholeOK, Deleting

LEMMA DoomedShrinks ==
  ASSUME TreeTypeOK, NEW c \in TreeCalls, TreeCall(c), NEW e \in TreeCalls, e # c
  PROVE  doomed'[e] \subseteq doomed[e]
<1> USE DEF TreeTypeOK, Stops
<1>1. CASE MoveBegins(c) \/ Walks(c) \/ MoveWrites(c)
  BY <1>1 DEF MoveBegins, Walks, MoveWrites
<1>2. CASE CreateBegins(c) \/ Checks(c) \/ Inserts(c) \/ Breaks(c)
  BY <1>2 DEF CreateBegins, Checks, Inserts, Breaks
<1>3. CASE DeletionBegins(c) \/ Descends(c) \/ DeletesFile(c) \/ DeletesFolder(c) \/ DeletionEnds(c)
  BY <1>3 DEF DeletionBegins, Descends, DeletesFile, DeletesFolder, DeletionEnds, RemoveNode
<1> QED BY <1>1, <1>2, <1>3 DEF TreeCall

\* A node whose row changes takes what is below it out of the doom of the others.
LEMMA Escapes ==
  ASSUME WholeInv, NEW e \in TreeCalls, Deleting(e), NEW x \in Nodes, NEW P,
         \A k \in Nodes : k # x /\ place[k] # x => P[k] = place[k],
         NEW S \in SUBSET (Nodes \ Dirs(stack[e])), Rests(stack[e]) \subseteq S \cup Dirs(stack[e]),
         \A k \in Nodes \ Dirs(stack[e]) : P[k] \in S \cap Folders => k \in S
  PROVE  doomed[e] \ Below(x) \subseteq S \cup Dirs(stack[e])
<1> DEFINE D == Dirs(stack[e])
           T == (S \cup Below(x)) \ D
<1>1. \A k \in Nodes \ D : place[k] \in T \cap Folders => k \in T
  <2> SUFFICES ASSUME NEW k \in Nodes \ D, place[k] \in T \cap Folders PROVE k \in T
    OBVIOUS
  <2>1. CASE k \in Below(x)
    BY <2>1
  <2>2. CASE k \notin Below(x)
    BY <2>2, BelowClosed
  <2> QED BY <2>1, <2>2
<1>2. T \in SUBSET (Nodes \ D) /\ Rests(stack[e]) \subseteq T \cup D
  BY BelowClosed
<1>3. doomed[e] \subseteq T \cup D
  BY <1>1, <1>2, ZenonT(60) DEF WholeInv, WholeOK, Holds
<1> QED BY <1>3

LEMMA OtherWhole ==
  ASSUME WholeInv, NEW c \in TreeCalls, TreeCall(c), NEW e \in TreeCalls, e # c
  PROVE  WholeOK(e)'
<1> USE DEF WholeInv, BaseInv, TreeTypeOK
<1>1. act'[e] = act[e] /\ stack'[e] = stack[e] /\ doomed'[e] \subseteq doomed[e]
  BY OthersStand, DoomedShrinks
<1> DEFINE D == Dirs(stack[e])
<1>2. SUFFICES ASSUME Deleting(e), NEW S \in SUBSET (Nodes \ D), Rests(stack[e]) \subseteq S \cup D,
                      \A k \in Nodes \ D : place'[k] \in S \cap Folders => k \in S
               PROVE  doomed'[e] \subseteq S \cup D
  BY <1>1 DEF WholeOK, Holds, Deleting
<1>3. ASSUME Holds(S, e) PROVE doomed'[e] \subseteq S \cup D
  BY <1>1, <1>2, <1>3 DEF WholeOK
<1>4. CASE UNCHANGED place
  BY <1>2, <1>3, <1>4 DEF Holds
<1>5. CASE RowMoved(c) /\ MoveWrites(c)
  <2>1. subject[c] \in Nodes /\ doomed'[e] = doomed[e] \ Below(subject[c])
    BY <1>5 DEF RowMoved, MoveWrites, MoveOK, Moving, Known
  <2>2. \A k \in Nodes : k # subject[c] => place'[k] = place[k]
    BY <1>5 DEF RowMoved
  <2> HIDE DEF WholeInv, BaseInv, TreeTypeOK
  <2> QED BY <1>2, <2>1, <2>2, Escapes
<1>6. CASE RowAdded(c)
  <2>1. subject[c] \in Nodes \ Known
    BY <1>6 DEF RowAdded, CreateOK, Creating
  <2>2. \A k \in Nodes : place[k] \in Nodes => place'[k] = place[k]
    BY <1>6, <2>1, Distinct DEF RowAdded, Known
  <2> QED BY <1>2, <1>3, <2>2, Distinct DEF Holds
<1>7. ASSUME NEW x \in Nodes, RowDeleted(x), RemoveNode(c, x) PROVE doomed'[e] \subseteq S \cup D
  <2>1. doomed'[e] = doomed[e] \ Below(x)
    BY <1>7 DEF RemoveNode
  <2>2. \A k \in Nodes : k # x /\ place[k] # x => place'[k] = place[k]
    BY <1>7 DEF RowDeleted
  <2> HIDE DEF WholeInv, BaseInv, TreeTypeOK
  <2> QED BY <1>2, <1>7, <2>1, <2>2, Escapes
<1> QED BY <1>4, <1>5, <1>6, <1>7, PlaceChange

\* The deletion that takes a step itself.
LEMMA DescendsWhole ==
  ASSUME WholeInv, NEW c \in TreeCalls, Descends(c)
  PROVE  WholeOK(c)'
<1> DEFINE s == stack[c]
           D == Dirs(s)
<1>1. PICK x \in Top(c).rest \cap Folders :
        stack' = [stack EXCEPT ![c] = Append(Without(c, x), [dir |-> x, rest |-> Children(x)])]
  BY DEF Descends
<1>2. /\ s \in Seq(Frames) /\ WellStacked(s) /\ Deleting(c) /\ UNCHANGED <<place, doomed>>
  BY DEF Descends, WholeInv, BaseInv, TreeTypeOK, Shaped
<1> DEFINE w == Less(s, x)
<1>3. w \in Seq(Frames) /\ WellStacked(w) /\ Dirs(w) = D /\ Rests(s) \subseteq Rests(w) \cup {x}
  BY <1>2, LessFrames
<1>4. stack'[c] = More(w, x, Children(x))
  BY <1>1 DEF WholeInv, BaseInv, TreeTypeOK, Without, Top, Depth, Less, More
<1>5. Children(x) \in SUBSET Nodes /\ x \in Folders /\ x \in Nodes
  BY <1>1, Distinct DEF Children
<1> HIDE DEF w
<1>6. Dirs(stack'[c]) = D \cup {x} /\ Rests(stack'[c]) = Rests(w) \cup Children(x)
  BY <1>3, <1>4, <1>5, MoreFrames
<1> HIDE DEF s, D
<1>7. SUFFICES ASSUME NEW S \in SUBSET (Nodes \ (D \cup {x})),
                      Rests(w) \cup Children(x) \subseteq S \cup D \cup {x},
                      \A k \in Nodes \ (D \cup {x}) : place[k] \in S \cap Folders => k \in S
               PROVE  doomed[c] \subseteq S \cup D \cup {x}
  BY <1>2, <1>6 DEF WholeOK, Holds
<1> DEFINE T == (S \cup {x}) \ D
<1>8. T \in SUBSET (Nodes \ D) /\ Rests(s) \subseteq T \cup D
  BY <1>3, <1>5, <1>7
<1>9. \A k \in Nodes \ D : place[k] \in T \cap Folders => k \in T
  BY <1>7 DEF Children
<1>10. doomed[c] \subseteq T \cup D
  BY <1>2, <1>8, <1>9 DEF WholeInv, WholeOK, Holds, s, D
<1> QED BY <1>10

LEMMA FileWhole ==
  ASSUME WholeInv, NEW c \in TreeCalls, DeletesFile(c)
  PROVE  WholeOK(c)'
<1> DEFINE s == stack[c]
           D == Dirs(s)
<1>1. PICK x \in Rests(s) \ Folders : stack' = [stack EXCEPT ![c] = Less(s, x)] /\ RemoveNode(c, x)
  BY DeletedFromStack DEF WholeInv, BaseInv
<1>2. /\ s \in Seq(Frames) /\ WellStacked(s) /\ Deleting(c)
      /\ stack'[c] = Less(s, x) /\ doomed'[c] = doomed[c] \ {x}
  BY <1>1 DEF DeletesFile, WholeInv, BaseInv, TreeTypeOK, Shaped, RemoveNode
<1>3. Dirs(stack'[c]) = D /\ Rests(s) \subseteq Rests(stack'[c]) \cup {x}
  BY <1>2, LessFrames
<1>4. x \in Nodes /\ D \subseteq Folders \cup {Root} /\ x \notin D
  BY <1>1, <1>2, TopFrame, Distinct
<1>5. \A k \in Nodes : k # x /\ place[k] # x => place'[k] = place[k]
  BY <1>1 DEF RemoveNode
<1> HIDE DEF s, D
<1>6. SUFFICES ASSUME NEW S \in SUBSET (Nodes \ D), Rests(stack'[c]) \subseteq S \cup D,
                      \A k \in Nodes \ D : place'[k] \in S \cap Folders => k \in S
               PROVE  doomed[c] \ {x} \subseteq S \cup D
  BY <1>2, <1>3 DEF WholeOK, Holds
<1> DEFINE T == S \cup {x}
<1>7. T \in SUBSET (Nodes \ D) /\ Rests(s) \subseteq T \cup D
  BY <1>3, <1>4, <1>6
<1>8. \A k \in Nodes \ D : place[k] \in T \cap Folders => k \in T
  BY <1>1, <1>5, <1>6
<1>9. doomed[c] \subseteq T \cup D
  BY <1>2, <1>7, <1>8 DEF WholeInv, WholeOK, Holds, s, D
<1> QED BY <1>9

LEMMA FolderWhole ==
  ASSUME WholeInv, NEW c \in TreeCalls, DeletesFolder(c)
  PROVE  WholeOK(c)'
<1> DEFINE s == stack[c]
           d == s[Len(s)].dir
           t == stack'[c]
<1>1. s \in Seq(Frames) /\ WellStacked(s) /\ Deleting(c) /\ RemoveNode(c, d)
  BY DeletedFromStack DEF DeletesFolder, WholeInv, BaseInv, TreeTypeOK
<1>2. t = SubSeq(s, 1, Len(s) - 1) /\ Len(s) > 1 /\ s[Len(s)].rest = {}
  BY DEF DeletesFolder, Top, Depth, WholeInv, BaseInv, TreeTypeOK
<1>3. Dirs(s) = Dirs(t) \cup {d} /\ Rests(t) = Rests(s)
  <2> HIDE DEF s, t
  <2> QED BY <1>1, <1>2, PopFrames
<1>4. doomed'[c] = doomed[c] \ {d} /\ \A k \in Nodes : k # d /\ place[k] # d => place'[k] = place[k]
  BY <1>1 DEF RemoveNode, WholeInv, BaseInv, TreeTypeOK
<1> HIDE DEF s, d, t
<1>5. SUFFICES ASSUME NEW S \in SUBSET (Nodes \ Dirs(t)), Rests(t) \subseteq S \cup Dirs(t),
                      \A k \in Nodes \ Dirs(t) : place'[k] \in S \cap Folders => k \in S
               PROVE  doomed[c] \ {d} \subseteq S \cup Dirs(t)
  BY <1>1, <1>4 DEF WholeOK, Holds, t
<1> DEFINE T == S \ {d}
<1>6. T \in SUBSET (Nodes \ Dirs(s)) /\ Rests(s) \subseteq T \cup Dirs(s)
  BY <1>3, <1>5
<1>7. \A k \in Nodes \ Dirs(s) : place[k] \in T \cap Folders => k \in T
  BY <1>3, <1>4, <1>5
<1>8. doomed[c] \subseteq T \cup Dirs(s)
  BY <1>1, <1>6, <1>7 DEF WholeInv, WholeOK, Holds, s
<1> QED BY <1>3, <1>8

\* A deletion begins with all that is below the node.
LEMMA BeginsWhole ==
  ASSUME WholeInv, NEW c \in TreeCalls, DeletionBegins(c)
  PROVE  WholeOK(c)'
<1>1. PICK n \in Nodes : /\ UNCHANGED place
                         /\ stack' = [stack EXCEPT ![c] = <<[dir |-> Root, rest |-> {n}]>>]
                         /\ doomed' = [doomed EXCEPT ![c] = Below(n)]
  BY DEF DeletionBegins
<1>2. stack'[c] = <<[dir |-> Root, rest |-> {n}]>> /\ doomed'[c] = Below(n)
  BY <1>1 DEF WholeInv, BaseInv, TreeTypeOK
<1>3. Dirs(stack'[c]) = {Root} /\ Rests(stack'[c]) = {n}
  BY <1>2 DEF Dirs, Rests
<1>a. UNCHANGED place /\ doomed'[c] = Below(n)
  BY <1>1, <1>2
<1> DEFINE D == Dirs(stack'[c])
           R == Rests(stack'[c])
<1> HIDE DEF D, R
<1>4. SUFFICES ASSUME NEW S \in SUBSET (Nodes \ D), R \subseteq S \cup D,
                      \A k \in Nodes \ D : place[k] \in S \cap Folders => k \in S
               PROVE  Below(n) \subseteq S \cup D
  BY <1>a DEF WholeOK, Holds, D, R
<1>5. D = {Root} /\ R = {n}
  BY <1>3 DEF D, R
<1>6. n \in S /\ S \in SUBSET Nodes /\ \A k \in Nodes : place[k] \in S \cap Folders => k \in S
  BY <1>4, <1>5, Distinct
<1> QED BY <1>6, BelowLeast

\* When nothing is left to look at, nothing is doomed.
LEMMA EndsWhole ==
  ASSUME WholeInv, NEW c \in TreeCalls, DeletionEnds(c)
  PROVE  doomed'[c] = {}
<1> DEFINE s == stack[c]
<1>1. /\ s \in Seq(Frames) /\ WellStacked(s) /\ Deleting(c) /\ doomed' = doomed /\ doomed[c] \subseteq Nodes
      /\ Len(s) = 1 /\ s[Len(s)].rest = {}
  BY DEF DeletionEnds, WholeInv, BaseInv, TreeTypeOK, Shaped, Depth, Top
<1>2. DOMAIN s = {1} /\ s[1].dir = Root /\ s[1].rest = {}
  BY <1>1 DEF WellStacked
<1>3. Dirs(s) = {Root} /\ Rests(s) = {}
  BY <1>2 DEF Dirs, Rests
<1>4. Holds({}, c)
  BY <1>3 DEF Holds
<1>5. doomed[c] \subseteq {} \cup Dirs(s)
  BY <1>1, <1>4 DEF WholeInv, WholeOK
<1> QED BY <1>1, <1>3, <1>5, Distinct

LEMMA OwnWhole ==
  ASSUME WholeInv, NEW c \in TreeCalls, TreeCall(c)
  PROVE  WholeOK(c)' /\ (act'[c] = "over" => doomed'[c] = {})
<1> USE DEF WholeInv, BaseInv, TreeTypeOK
<1>1. CASE MoveBegins(c) \/ Walks(c) \/ MoveWrites(c)
  BY <1>1 DEF MoveBegins, Walks, MoveWrites, Starts, Stops, WholeOK, Deleting
<1>2. CASE CreateBegins(c) \/ Checks(c) \/ Inserts(c) \/ Breaks(c)
  BY <1>2 DEF CreateBegins, Checks, Inserts, Breaks, Starts, Stops, WholeOK, Deleting
<1>3. CASE DeletionBegins(c) \/ Descends(c) \/ DeletesFile(c) \/ DeletesFolder(c)
  <2>1. act'[c] = "delete"
    BY <1>3 DEF DeletionBegins, Starts, Descends, DeletesFile, DeletesFolder, RemoveNode, Deleting
  <2>2. WholeOK(c)'
    <3> HIDE DEF WholeInv, BaseInv, TreeTypeOK
    <3> QED BY <1>3, BeginsWhole, DescendsWhole, FileWhole, FolderWhole
  <2> QED BY <2>1, <2>2
<1>4. CASE DeletionEnds(c)
  BY <1>4, EndsWhole DEF DeletionEnds, WholeOK, Deleting
<1> QED BY <1>1, <1>2, <1>3, <1>4 DEF TreeCall

LEMMA WholeStep == WholeInv /\ [TreeNext]_treeVars => WholeInv'
<1> SUFFICES ASSUME WholeInv, [TreeNext]_treeVars PROVE WholeInv'
  OBVIOUS
<1>1. BaseInv'
  BY BaseStep DEF WholeInv
<1>2. CASE UNCHANGED treeVars
  BY <1>1, <1>2 DEF treeVars, WholeInv, FolderGoesWhole, WholeOK, Holds, Deleting
<1>3. ASSUME NEW c \in TreeCalls, TreeCall(c) PROVE WholeInv'
  <2>1. ASSUME NEW e \in TreeCalls PROVE WholeOK(e)' /\ (act'[e] = "over" => doomed'[e] = {})
    <3>1. CASE e = c
      BY <1>3, <3>1, OwnWhole
    <3>2. CASE e # c
      <4>1. act'[e] = act[e] /\ doomed'[e] \subseteq doomed[e]
        BY <1>3, <3>2, OthersStand, DoomedShrinks DEF WholeInv, BaseInv
      <4>2. act'[e] = "over" => doomed'[e] = {}
        BY <4>1 DEF WholeInv, FolderGoesWhole
      <4> QED BY <1>3, <3>2, <4>2, OtherWhole
    <3> QED BY <3>1, <3>2
  <2> QED BY <1>1, <2>1 DEF WholeInv, FolderGoesWhole
<1> QED BY <1>2, <1>3 DEF TreeNext

\* What was below a deleted folder when its deletion began is deleted with it, but for
\* what has been moved or taken out meanwhile: for any tree and any other calls.
THEOREM FoldersGoWhole == TreeSpec => []FolderGoesWhole
<1>1. TreeSpec => []WholeInv
  BY WholeInit, WholeStep, PTL DEF TreeSpec
<1>2. WholeInv => FolderGoesWhole
  BY DEF WholeInv
<1> QED BY <1>1, <1>2, PTL

=============================================================================

----------------------------- MODULE MCKnowledge ----------------------------
(***************************************************************************)
(* What happens to the files of a knowledge base, for TLC: parsing and      *)
(* indexing, tagging, the graph, and the tree of folders. The four share no *)
(* state that their properties are about, so that a behaviour is one of a   *)
(* single scene in which the others stand still: one run then covers the    *)
(* sum of their states and not the product.                                 *)
(*                                                                          *)
(* The graph has three scenes: one job after another, and what outlives it, *)
(* beside deletions of files; the same beside a reset; and two jobs at      *)
(* once beside the deletion of one file.                                    *)
(***************************************************************************)
EXTENDS KnowledgeFiles, TaggingTasks, GraphBuild, FolderTree

McFileOf == [c \in KbChunks |-> IF c = "c1" THEN "f1" ELSE "f2"]
McEnts == [c \in KbChunks |-> {"e1"}]

\* A folder in a folder, with a file; another folder is to come.
McTree == [a |-> Root, b |-> "a", c |-> Unborn, x |-> "b"]

VARIABLE scene

GraphScenes == {"graph_delete", "graph_reset", "graph_twice"}

knowledgeVars == <<scene, filesVars, taggingVars, graphVars, treeVars>>

\* A component whose scene it is not has one initial state.
KnowledgeInit ==
  /\ scene \in {"files", "tags", "tree"} \cup GraphScenes
  /\ place = McTree
  /\ FilesInit /\ TaggingInit /\ GraphInit /\ TreeInit
  /\ scene # "files" => row.status = "uploaded"
  /\ scene # "tags" => file = Blank /\ exists

\* The two files have a chunk each, with the same entity. It is enough that f1 is deleted and
\* comes back, or that f2 is deleted after or beside it.
DeletesInOrder ==
  call["f2"] = "none" \/ (call["f1"] \notin {"none", "done"} /\ call["f2"] # "done")
DeletesOnce == call["f2"] = "none" /\ call["f1"] # "done"
OnlyGoneFail == \A b \in Builds : \A c \in crew[b].failed : chunk[c] = "gone"
OneByOne == builds' # builds => \A b \in Builds : ~Working(b)

\* Two people call, or one beside a call that rewrites the column.
FewWriters == rewrite = "read" \/ does[NumJobs + NumPeople] = "none"

KnowledgeNext ==
  /\ UNCHANGED scene
  /\ \/ /\ scene = "files" /\ FilesNext
        /\ UNCHANGED <<taggingVars, graphVars, treeVars>>
     \/ /\ scene = "tags" /\ TaggingNext /\ FewWriters'
        /\ UNCHANGED <<filesVars, graphVars, treeVars>>
     \/ /\ \/ scene = "graph_delete" /\ UNCHANGED resetting /\ GraphNext /\ DeletesInOrder' /\ OneByOne
           \/ scene = "graph_reset" /\ UNCHANGED call /\ GraphNext /\ OneByOne
           \/ scene = "graph_twice" /\ UNCHANGED resetting /\ GraphNext /\ (DeletesOnce /\ OnlyGoneFail)'
        /\ UNCHANGED <<filesVars, taggingVars, treeVars>>
     \/ /\ scene = "tree" /\ TreeNext
        /\ UNCHANGED <<filesVars, taggingVars, graphVars>>

\* The fairness of each component, in its scene. Tagging and the tree have safety properties only.
KnowledgeFair ==
  /\ \A c \in Calls : WF_filesVars(scene = "files" /\ Proceed(c))
  /\ \A b \in Builds : WF_graphVars(scene \in GraphScenes /\ Job(b))

KnowledgeSpec == KnowledgeInit /\ [][KnowledgeNext]_knowledgeVars /\ KnowledgeFair
=============================================================================

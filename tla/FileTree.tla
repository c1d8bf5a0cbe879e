------------------------------ MODULE FileTree ------------------------------
(***************************************************************************)
(* What the sessions of one account promise about the directories and      *)
(* files they share, whatever they look at before they act: a request that *)
(* is answered with a success changed the tree in one step, at the path it *)
(* named when it was asked, and the step was legal when it was taken; one  *)
(* that is refused changed nothing.                                        *)
(*                                                                         *)
(* A path is the sequence of names that leads to it from the root.         *)
(***************************************************************************)
EXTENDS Integers, Sequences

CONSTANTS Sessions,     \* the sessions of the account
          Paths         \* every path that may come to exist, the root <<>> included

VARIABLES dirs,         \* the directories
          files,        \* the paths of the regular files
          outcome,      \* what has become of the latest request of each session
          target        \* the path the request of a session is about while it runs,
                        \* otherwise the root, which no request may change

treeVars == <<dirs, files, outcome, target>>

ParentOf(path) == SubSeq(path, 1, Len(path) - 1)
Exists(path) == path \in dirs \cup files
IsEmptyDir(path) == \A p \in dirs \cup files : p # <<>> => ParentOf(p) # path

\* Everything that exists lies in a directory that exists, and has one kind.
TreeTypeOK ==
    /\ <<>> \in dirs
    /\ dirs \cap files = {}
    /\ \A p \in dirs \cup files : p # <<>> => ParentOf(p) \in dirs

TreeInit ==
    /\ dirs = {<<>>} /\ files = {}
    /\ outcome = [s \in Sessions |-> "other"]
    /\ target = [s \in Sessions |-> <<>>]

Becomes(s, what) ==
    /\ outcome' = [outcome EXCEPT ![s] = what]
    /\ target' = [target EXCEPT ![s] = <<>>]

\* A new request: it is answered at once, or the path it is about is settled here,
\* before the tree is changed and whatever others change meanwhile.
Ask(s) ==
    /\ outcome[s] \in {"made", "removed", "stored", "other"}
    /\ \/ Becomes(s, "other")
       \/ /\ outcome' = [outcome EXCEPT ![s] = "pending"]
          /\ \E p \in Paths : target' = [target EXCEPT ![s] = p]
    /\ UNCHANGED <<dirs, files>>

\* A request that is still to change the tree, below the root.
Pending(s) == outcome[s] = "pending" /\ target[s] # <<>>

\* Of two sessions that make the same directory one succeeds.
Make(s) ==
    /\ Pending(s) /\ Becomes(s, "made")
    /\ ~Exists(target[s]) /\ ParentOf(target[s]) \in dirs
    /\ dirs' = dirs \cup {target[s]}
    /\ UNCHANGED files

\* A directory goes only when it is empty, and what goes was there.
Remove(s) ==
    /\ Pending(s) /\ Becomes(s, "removed")
    /\ \/ /\ target[s] \in dirs /\ IsEmptyDir(target[s])
          /\ dirs' = dirs \ {target[s]} /\ UNCHANGED files
       \/ target[s] \in files /\ files' = files \ {target[s]} /\ UNCHANGED dirs

\* A file appears, or is emptied, when it begins to be received.
BeginStore(s) ==
    /\ Pending(s)
    /\ outcome' = [outcome EXCEPT ![s] = "storing"]
    /\ target[s] \notin dirs /\ ParentOf(target[s]) \in dirs
    /\ files' = files \cup {target[s]}
    /\ UNCHANGED <<dirs, target>>

EndStore(s) == outcome[s] = "storing" /\ Becomes(s, "stored") /\ UNCHANGED <<dirs, files>>

\* A store that fails may take away what has its file's name, and nothing else.
AbortStore(s) ==
    /\ outcome[s] = "storing" /\ Becomes(s, "other")
    /\ files' = files \/ files' = files \ {target[s]}
    /\ UNCHANGED dirs

\* A refusal, or an answer to a request that leaves the tree alone.
Tell(s) == outcome[s] = "pending" /\ Becomes(s, "other") /\ UNCHANGED <<dirs, files>>

\* A session may end at any time; it takes nothing back.
Vanish(s) == Becomes(s, "gone") /\ UNCHANGED <<dirs, files>>

TreeNext == \E s \in Sessions :
    \/ Ask(s) \/ Make(s) \/ Remove(s) \/ BeginStore(s) \/ EndStore(s)
    \/ AbortStore(s) \/ Tell(s) \/ Vanish(s)

TreeSpec == TreeInit /\ [][TreeNext]_treeVars
=============================================================================

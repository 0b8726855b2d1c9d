------------------------------- MODULE GamTree -------------------------------
(***************************************************************************)
(* The path tree of the poll engine (gam_tree.c) and what adding and      *)
(* removing a subscription does to it (gam_poll_dnotify.c                  *)
(* add_subscription / remove_subscription_real /                           *)
(* node_remove_directory_subscription, gam_poll_generic.c first_scan_dir, *)
(* scan_directory_internal and prune_tree).                                *)
(*                                                                         *)
(* A path is a sequence of names; <<>> is the string "/".  The GNode root *)
(* of the tree also has the path "/" but is not in node_hash, so it is    *)
(* the separate value Root, and <<>> in the tree is a second node under   *)
(* it.  tr.nodes lists the nodes of node_hash in the order gam_tree_add   *)
(* appended them, which is the order of g_node children.                   *)
(*   tr.nodes  node_hash, in insertion order                               *)
(*   tr.isdir  node->is_dir                                                *)
(*   tr.sa     per subscription its request [path, dir], or NoSub          *)
(*   fsOn      the files that exist on disk (Dirs always exist)            *)
(*   lsubs     listener->subs of the one client connection, newest first  *)
(***************************************************************************)
EXTENDS Integers, Sequences, SequencesExt, FiniteSets

CONSTANTS
    Paths,     \* the paths a client may name: sequences of names
    Dirs,      \* the paths among them that are directories on disk
    Subs,      \* subscription identities
    MaxCalls,  \* bound on subscribe/unsubscribe calls
    MaxOps     \* bound on file creations and deletions

ASSUME Dirs \subseteq Paths /\ <<>> \notin Paths

VARIABLES tr, fsOn, lsubs, calls, ops
vars == <<tr, fsOn, lsubs, calls, ops>>

Root == <<"/">>      \* a sentinel sequence: no name of Paths is "/"
Slash == <<>>
NoSub == [path |-> Slash, dir |-> FALSE]   \* no request names "/"
Reqs == [path : Paths, dir : BOOLEAN]

Keys(st) == ToSet(st.nodes)
Exists(p) == p = Slash \/ p \in Dirs \/ p \in fsOn

\* gam_node_parent: the GNode parent, which the path determines
ParentOf(p) == IF Len(p) <= 1 THEN Root ELSE SubSeq(p, 1, Len(p) - 1)

\* g_path_get_dirname
Dirname(p) == SubSeq(p, 1, Len(p) - 1)

\* entries a readdir of p returns
Entries(p) == {e \in Paths : ParentOf(e) = p /\ Exists(e)}

SubsOf(st, n) == {s \in Subs : st.sa[s] # NoSub /\ st.sa[s].path = n}

\* gam_node_has_dir_subscriptions (the root never has subscriptions)
HasDirSubs(st, n) == n # Root /\ \E s \in SubsOf(st, n) : st.sa[s].dir

HasChildren(st, n) == \E q \in Keys(st) : ParentOf(q) = n

\* gam_tree_get_children: the g_node children prepended, so reversed
Children(st, n) == Reverse(SelectSeq(st.nodes, LAMBDA q : ParentOf(q) = n))

\* mutant: the node_hash lookup is skipped
TreeAddNoHashCheck(st, p, d) == [st EXCEPT !.nodes = Append(@, p), !.isdir[p] = d]

\* gam_tree_add: append under the parent unless the path is hashed
TreeAdd(st, p, d) ==
    IF p \in Keys(st) THEN st
    ELSE [st EXCEPT !.nodes = Append(@, p), !.isdir[p] = d]

\* gam_tree_remove: unlink and free (its g_assert of no children is the
\* NoOrphans invariant)
TreeRemove(st, n) == [st EXCEPT !.nodes = Remove(@, n)]

\* the loop of gam_tree_add_at_path over the slashes of p: every proper
\* prefix not yet hashed becomes a directory node
RECURSIVE AddPrefixes(_, _, _)
AddPrefixes(st, p, i) ==
    IF i >= Len(p) THEN st
    ELSE AddPrefixes(TreeAdd(st, SubSeq(p, 1, i), TRUE), p, i + 1)

\* gam_tree_add_at_path: an existing path keeps its node; the type is
\* the one on disk when the path exists, the requested one otherwise
AddAtPath(st, p, d) ==
    IF p \in Keys(st) THEN st
    ELSE TreeAdd(AddPrefixes(st, p, 1), p, IF Exists(p) THEN p = Slash \/ p \in Dirs ELSE d)

\* the readdir loops of first_scan_dir and scan_directory_internal: each
\* entry not in the tree is added under the directory, in readdir order
RECURSIVE AddEntries(_, _)
AddEntries(st, es) ==
    IF es = <<>> THEN st
    ELSE AddEntries(TreeAdd(st, Head(es), Head(es) \in Dirs), Tail(es))

\* mutant: prune_tree does not test for children
RECURSIVE PruneTreeNoChildCheck(_, _)
PruneTreeNoChildCheck(st, n) ==
    IF n = Root THEN st
    ELSE IF SubsOf(st, n) = {}
         THEN PruneTreeNoChildCheck(TreeRemove(st, n), ParentOf(n))
         ELSE st

\* gam_poll_generic_prune_tree
RECURSIVE PruneTree(_, _)
PruneTree(st, n) ==
    IF n = Root THEN st
    ELSE IF ~HasChildren(st, n) /\ SubsOf(st, n) = {}
         THEN PruneTree(TreeRemove(st, n), ParentOf(n))
         ELSE st

\* the children loop of node_remove_directory_subscription: remove_dir
\* starts as "no subscription left" and turns FALSE for good at the first
\* child that is kept
RECURSIVE RemoveChildren(_, _, _)
RemoveChildren(st, cs, removeDir) ==
    IF cs = <<>> THEN st
    ELSE LET c == Head(cs) IN
         IF SubsOf(st, c) = {} /\ removeDir /\ ~HasChildren(st, c)
         THEN RemoveChildren(TreeRemove(st, c), Tail(cs), removeDir)
         ELSE RemoveChildren(st, Tail(cs), FALSE)

\* node_remove_directory_subscription (the subscription is already gone
\* from st): the node may go unless its parent has a directory subscription
RemoveDirSub(st, p) ==
    LET st1 == RemoveChildren(st, Children(st, p), SubsOf(st, p) = {})
    IN  [st |-> st1,
         remove |-> SubsOf(st1, p) = {} /\ ~HasDirSubs(st1, ParentOf(p))]

\* mutant: a file node is removed although other subscriptions remain
RemoveRealLastSub(st, p) ==
    IF ~st.isdir[p] THEN
        IF HasChildren(st, p) \/ HasDirSubs(st, ParentOf(p)) THEN st
        ELSE PruneTree(TreeRemove(st, p), ParentOf(p))
    ELSE LET r == RemoveDirSub(st, p) IN
         IF ~r.remove THEN r.st
         ELSE PruneTree(IF HasChildren(r.st, p) THEN r.st ELSE TreeRemove(r.st, p),
                        ParentOf(p))

\* gam_poll_dnotify_remove_subscription_real for the node of path p
RemoveReal(st, p) ==
    IF ~st.isdir[p] THEN
        IF SubsOf(st, p) # {} \/ HasChildren(st, p) \/ HasDirSubs(st, ParentOf(p))
        THEN st
        ELSE PruneTree(TreeRemove(st, p), ParentOf(p))
    ELSE LET r == RemoveDirSub(st, p) IN
         IF ~r.remove THEN r.st
         ELSE PruneTree(IF HasChildren(r.st, p) THEN r.st ELSE TreeRemove(r.st, p),
                        ParentOf(p))

\* gam_listener_add_subscription: prepend to listener->subs
ListenerAdd(ls, s) == <<s>> \o ls

\* gam_listener_remove_subscription
ListenerRemove(ls, s) == Remove(ls, s)

\* gam_poll_dnotify_remove_subscription: a path with no node frees the
\* subscription directly, otherwise remove_subscription_real
RemoveSub(st, s) ==
    LET p   == st.sa[s].path
        st0 == [st EXCEPT !.sa[s] = NoSub]
    IN  IF p \in Keys(st) THEN RemoveReal(st0, p) ELSE st0

\* the loop of gam_listener_free: gam_remove_subscription of the first
\* subscription of the list, then delete that link, until the list is empty
RECURSIVE RemoveAll(_, _)
RemoveAll(st, ls) ==
    IF ls = <<>> THEN st ELSE RemoveAll(RemoveSub(st, Head(ls)), Tail(ls))

Init ==
    /\ tr = [nodes |-> <<>>, isdir |-> [p \in Paths \cup {Slash} |-> FALSE],
             sa |-> [s \in Subs |-> NoSub]]
    /\ fsOn \in SUBSET (Paths \ Dirs)
    /\ lsubs = <<>>
    /\ calls = 0
    /\ ops = 0

(***************************************************************************)
(* Actions                                                                 *)
(***************************************************************************)

\* gam_poll_dnotify_add_subscription, tree part: gam_listener_add_subscription
\* prepends it to the listener, then add_at_path, attach the
\* subscription; a directory node gets first_scan_dir (entries of an
\* existing directory are added, a file found where a directory was
\* expected is MON_WRONG_TYPE and loses is_dir, a missing one stays);
\* otherwise the parent directory's node is looked up by its dirname and
\* added if absent
AddSubscription(s) ==
    /\ calls < MaxCalls /\ tr.sa[s] = NoSub
    /\ calls' = calls + 1
    /\ lsubs' = ListenerAdd(lsubs, s)
    /\ \E p \in Paths, d \in BOOLEAN :
         LET st1 == [AddAtPath(tr, p, d) EXCEPT !.sa[s] = [path |-> p, dir |-> d]]
         IN  CASE ~st1.isdir[p] -> tr' = AddAtPath(st1, Dirname(p), d)
               [] p \in Dirs -> \E es \in SetToSeqs(Entries(p)) :
                                   tr' = AddEntries(st1, es)
               [] Exists(p) -> tr' = [st1 EXCEPT !.isdir[p] = FALSE]
               [] OTHER -> tr' = st1
    /\ UNCHANGED <<fsOn, ops>>

\* the CANCEL branch of gam_connection_request: the subscription found by
\* its reqno leaves the listener, then gam_remove_subscription reaches
\* gam_dnotify_remove_subscription and the poll engine
RemoveSubscription(s) ==
    /\ calls < MaxCalls /\ tr.sa[s] # NoSub
    /\ calls' = calls + 1
    /\ lsubs' = ListenerRemove(lsubs, s)
    /\ tr' = RemoveSub(tr, s)
    /\ UNCHANGED <<fsOn, ops>>

\* gam_connection_close of a connection with subscriptions: gam_listener_free
\* removes them one by one in list order; the client may connect again
CloseConn ==
    /\ calls < MaxCalls /\ lsubs # <<>>
    /\ calls' = calls + 1
    /\ tr' = RemoveAll(tr, lsubs)
    /\ lsubs' = <<>>
    /\ UNCHANGED <<fsOn, ops>>

\* gam_poll_generic_scan_directory_internal of a node with subscriptions,
\* from the scan callback or a dnotify signal: new entries become nodes
ScanDirectory(p) ==
    /\ p \in Keys(tr) /\ p \in Dirs /\ SubsOf(tr, p) # {}
    /\ \E es \in SetToSeqs({e \in Entries(p) : e \notin Keys(tr)}) :
         /\ es # <<>>
         /\ tr' = AddEntries(tr, es)
    /\ UNCHANGED <<fsOn, lsubs, calls, ops>>

\* another process creates or deletes a file
FsToggle(e) ==
    /\ ops < MaxOps
    /\ ops' = ops + 1
    /\ fsOn' = IF e \in fsOn THEN fsOn \ {e} ELSE fsOn \cup {e}
    /\ UNCHANGED <<tr, lsubs, calls>>

Next ==
    \/ \E s \in Subs : AddSubscription(s) \/ RemoveSubscription(s)
    \/ CloseConn
    \/ \E p \in Dirs : ScanDirectory(p)
    \/ \E e \in Paths \ Dirs : FsToggle(e)

Spec == Init /\ [][Next]_vars

(***************************************************************************)
(* Properties                                                              *)
(***************************************************************************)

TypeOK ==
    /\ tr.nodes \in Seq(Paths \cup {Slash}) /\ IsInjective(tr.nodes)
    /\ tr.isdir \in [Paths \cup {Slash} -> BOOLEAN]
    /\ tr.sa \in [Subs -> Reqs \cup {NoSub}]
    /\ lsubs \in Seq(Subs) /\ IsInjective(lsubs)
    /\ fsOn \subseteq Paths \ Dirs /\ calls \in 0..MaxCalls /\ ops \in 0..MaxOps

\* Every hashed node hangs under a node of the tree: gam_tree_remove is
\* never applied to a node that still has children (its g_assert), so
\* removal order in remove_subscription_real and the directory-children
\* loop keeps the tree connected.
NoOrphans == \A q \in Keys(tr) : ParentOf(q) = Root \/ ParentOf(q) \in Keys(tr)

\* A live subscription's path always has a node, so that removing it goes
\* through remove_subscription_real (and the kernel deactivation) instead
\* of freeing it directly.
SubsInTree == \A s \in Subs : tr.sa[s] # NoSub => tr.sa[s].path \in Keys(tr)

\* Once every subscription is cancelled the tree is back to the bare root:
\* prune_tree and the directory-children loop leave no node behind
\* (spec.md 4.4: nodes with neither children nor subscriptions are pruned).
TreeReleased == (\A s \in Subs : tr.sa[s] = NoSub) => tr.nodes = <<>>

=============================================================================

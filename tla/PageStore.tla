----------------------------- MODULE PageStore -----------------------------
(***************************************************************************)
(* What the buffer manager promises its clients                            *)
(* (src/Main/BufferMgr/headers/MyDB_BufferManager.h, MyDB_PageHandle.h):   *)
(* every page has one content, shared by all the handles to it, that only  *)
(* a write through a handle changes; the content of table pages outlives   *)
(* an orderly shutdown; a page pinned by a live handle stays pinned until  *)
(* it is unpinned or its last handle goes; the store fails only when the   *)
(* clients pin as many pages as there are frames.                          *)
(*                                                                         *)
(* There are no frames, files or eviction order here.  saved is what a     *)
(* crash leaves: for each page a content it had at some earlier time.      *)
(***************************************************************************)
EXTENDS Integers, FiniteSets

CONSTANTS Tables, TempTable, PageIds, AnonIds, NumPages, Handles, Values,
          Junk, NoPage

Keys == (Tables \X PageIds) \cup ({TempTable} \X AnonIds)

VARIABLES status, content, saved, pinned, handles, killed

storeVars == <<status, content, saved, pinned, handles, killed>>

(* The store may save one page during any call.                            *)
SaveOne ==
    \/ saved' = saved
    \/ \E k \in Keys : saved' = [saved EXCEPT ![k] = content[k]]

Obtain(k, h, pinIt) ==
    /\ status = "running" /\ k[1] \notin killed
    /\ handles[h] = NoPage
    /\ handles' = [handles EXCEPT ![h] = k]
    /\ pinned' = IF pinIt THEN pinned \cup {k} ELSE pinned
    /\ SaveOne
    /\ UNCHANGED <<status, content, killed>>

(* A temporary page is given to one client: no handle refers to it yet.    *)
ObtainTemporary(k, h, pinIt) ==
    /\ k[1] = TempTable
    /\ \A g \in Handles : handles[g] # k
    /\ Obtain(k, h, pinIt)

Read(h) ==
    /\ status = "running" /\ handles[h] # NoPage
    /\ SaveOne
    /\ UNCHANGED <<status, content, pinned, handles, killed>>

Store(h, v) ==
    /\ status = "running" /\ handles[h] # NoPage
    /\ content' = IF handles[h][1] \in killed THEN content
                  ELSE [content EXCEPT ![handles[h]] = v]
    /\ UNCHANGED <<status, saved, pinned, handles, killed>>

Unpin(h) ==
    /\ status = "running" /\ handles[h] # NoPage
    /\ pinned' = pinned \ {handles[h]}
    /\ UNCHANGED <<status, content, saved, handles, killed>>

Release(h) ==
    /\ status = "running" /\ handles[h] # NoPage
    /\ handles' = [handles EXCEPT ![h] = NoPage]
    /\ pinned' = {k \in pinned : \E g \in Handles : handles'[g] = k}
    /\ UNCHANGED <<status, content, saved, killed>>

Kill(t) ==
    /\ status = "running"
    /\ killed' = killed \cup {t}
    /\ content' = [k \in Keys |-> IF k[1] = t THEN Junk ELSE content[k]]
    /\ saved' = [k \in Keys |-> IF k[1] = t THEN Junk ELSE saved[k]]
    /\ UNCHANGED <<status, pinned, handles>>

Fail ==
    /\ status = "running"
    /\ Cardinality(pinned) >= NumPages
    /\ status' = "crashed"
    /\ content' = saved
    /\ UNCHANGED <<saved, pinned, handles, killed>>

Empty ==
    /\ pinned' = {}
    /\ handles' = [h \in Handles |-> NoPage]
    /\ killed' = {}

Close ==
    /\ status = "running"
    /\ \A h \in Handles : handles[h] = NoPage
    /\ status' = "down"
    /\ content' = [k \in Keys |-> IF k[1] = TempTable THEN Junk ELSE content[k]]
    /\ saved' = content'
    /\ Empty

Open ==
    /\ status # "running"
    /\ status' = "running"
    /\ content' = [k \in Keys |-> IF k[1] = TempTable THEN Junk ELSE saved[k]]
    /\ saved' = content'
    /\ Empty

Init ==
    /\ status = "running"
    /\ content = [k \in Keys |-> Junk]
    /\ saved = content
    /\ pinned = {}
    /\ handles = [h \in Handles |-> NoPage]
    /\ killed = {}

Next ==
    \/ \E h \in Handles, pinIt \in BOOLEAN :
          \/ \E k \in Tables \X PageIds : Obtain(k, h, pinIt)
          \/ \E k \in {TempTable} \X AnonIds : ObtainTemporary(k, h, pinIt)
    \/ \E h \in Handles : \/ Read(h)
                          \/ \E v \in Values : Store(h, v)
                          \/ Unpin(h)
                          \/ Release(h)
    \/ \E t \in Tables : Kill(t)
    \/ Fail
    \/ Close
    \/ Open

Spec == Init /\ [][Next]_storeVars

=============================================================================

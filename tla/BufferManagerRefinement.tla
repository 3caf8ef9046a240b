---------------------- MODULE BufferManagerRefinement ----------------------
(***************************************************************************)
(* The buffer manager implements PageStore.  The content of a page is in   *)
(* its frame while the page is dirty, in its file otherwise; a table that  *)
(* was killed has no content any more.                                     *)
(***************************************************************************)
EXTENDS BufferManager

Content == [k \in Keys |->
    IF k[1] \in killed THEN Junk
    ELSE IF status = "running" /\ k \in dirty THEN pool[memory[k]]
    ELSE disk[k]]

Store == INSTANCE PageStore WITH
            content <- Content, saved <- disk, pinned <- pin

(* Whatever is evicted, reloaded, pinned, shared by several handles or     *)
(* shut down and reopened, a client sees the last bytes written through    *)
(* any handle of the page, and the pool fails only when it is all pinned.  *)
PageStoreSpec == Store!Spec

=============================================================================

----------------------------- MODULE BagitPages -----------------------------
(***************************************************************************)
(* Ingest.BagitLoadAll, the loop the transfer and the check phase run in,  *)
(* and every part of a report: the rows of table bagit are counted once    *)
(* and then read in pages.                                                 *)
(* The bagits of a page are copies, made before the first of them is       *)
(* handed to the callback.                                                 *)
(***************************************************************************)
EXTENDS Archive

CountRows ==
    /\ run.pc = "count"
    /\ \/ Goto([run EXCEPT !.pc = "load", !.n = Len(rows), !.start = 0])
       \/ Fails("dbread")

LastOfShortPage(start) ==
    IF start + PageSize - 1 < Len(rows) THEN start + PageSize - 1 ELSE Len(rows)
LastOfPage(start) == IF start + PageSize < Len(rows) THEN start + PageSize ELSE Len(rows)

\* LIMIT start, PageSize
Page(start) == [k \in 1 .. LastOfPage(start) - start |->
                  [name |-> rows[start + k], aes |-> aes[rows[start + k]]]]

\* main runs Transfer, then Check, which wants the test "checksum", then ends.
NextPhase == IF run.phase = "transfer" /\ run.checksum
             THEN EnterPhase("check", "count")
             ELSE Idle

WithPage(page) == [run EXCEPT !.pc = "next", !.page = page, !.start = @ + PageSize]

\* The Err() of the rows is never asked for: a result the server cuts short
\* is a shorter page.
CutPage ==
    /\ Fault("dbcut")
    /\ \E cut \in 0 .. Len(Page(run.start)) :
          run' = WithPage(SubSeq(Page(run.start), 1, cut))
    /\ UNCHANGED <<disk, db>>

ReadPage ==
    /\ run.pc = "load"
    /\ run.start < run.n
    /\ Goto(WithPage(Page(run.start))) \/ CutPage \/ Fails("dbread")

PagesDone == run.pc = "load" /\ run.start >= run.n

LoadPage == ReadPage \/ (PagesDone /\ Goto(NextPhase))

EndOfPage == run.pc = "next" /\ run.page = <<>> /\ Goto([run EXCEPT !.pc = "load"])

\* The callback is entered for the next bagit of the page ...
HasBagit(phase) == run.pc = "next" /\ run.phase = phase /\ run.page # <<>>
BeginBagit(pc, source, locs) ==
    Goto([run EXCEPT !.pc = pc, !.page = Tail(run.page),
                     !.cur = Head(run.page).name, !.aes = Head(run.page).aes,
                     !.source = source, !.locs = locs])
\* ... and returns without an error.
EndBagit == Goto([run EXCEPT !.pc = "next", !.cur = None, !.aes = NoDigest,
                             !.source = FALSE])
=============================================================================

------------------------------- MODULE WebRun -------------------------------
(***************************************************************************)
(* The report server (cmd/report) over an archive on which the action      *)
(* "ingest" is run: a page is read from tables that a run is just writing. *)
(***************************************************************************)
EXTENDS IngestRun, Statistics

WebInit == Init /\ StatisticsInit
IngestBeside == Next /\ UNCHANGED req
VisitBeside == Visit /\ UNCHANGED <<disk, db, run>>
WebNext == IngestBeside \/ VisitBeside
WebSpec == WebInit /\ [][WebNext]_<<vars, req>>

\* A page that calls a bagit healthy lists completed transfers that are worth
\* the quality, though the health was read before them and a run was testing
\* and transferring in between (getHealth, BagitOverview).
HealthIsBacked ==
    Answered("bagit") /\ req.quality >= Healthy /\ ~ req.cut =>
        Total({l \in Locations : <<l, "ok">> \in req.ingest}) >= Healthy

\* Whatever a run has done so far, and wherever it died: the bagits of an
\* overview and the files of a bagit page can be opened.  A bagit that is
\* listed has what its page needs, though the run writes the rows one by one,
\* unless a query fails or metadata of the bagit itself cannot be decoded
\* (Overview, getCosts, BagitOverview, the contentHandler; Ingest).
LinksLead ==
    req.pc = "failed" /\ req.link =>
        \/ req.why = "db" \/ req.cut
        \/ req.why = "shape" /\ req.bagit \in Misshapen
=============================================================================

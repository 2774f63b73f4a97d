----------------------------- MODULE ReportRun -----------------------------
(***************************************************************************)
(* The actions "report" and "ingest" of cmd/main, each started on its own, *)
(* over one archive: a report reads what a run is just changing.           *)
(***************************************************************************)
EXTENDS IngestRun, SphinxReport

IngestGoesOn == Next /\ UNCHANGED reports

InitBoth == Init /\ ReportInit
NextBoth == IngestGoesOn \/ ReportStep
SpecBoth == InitBoth /\ [][NextBoth]_<<vars, reports>>

\* keys.txt is what is left for decrypting when the key directory is not at
\* hand: it holds the key and the iv of every ciphertext that was archived and
\* tested when the report began, though runs write keys while it is made
\* (ReportKeys).
KeysTxtDecrypts ==
    "keys" \in out.done =>
        \A b \in since.settled, l \in Encrypted :
            file[b][l].key # Missing =>
                /\ b \in DOMAIN out.keys
                /\ out.keys[b] = [key |-> file[b][l].key, iv |-> file[b][l].iv]

\* "n/m tests passed" in the table of a finished report is about all locations
\* for a bagit that was archived and tested at all of them when the report began,
\* though bagits are inserted and tested while its pages are read (ReportBagits).
TableIsComplete ==
    "table" \in out.done =>
        \A b \in since.settled :
            /\ b \in DOMAIN out.table
            /\ {t.loc : t \in out.table[b]} = Locations

\* The page of a bagit that was archived and tested when the report began lists
\* all its files, and no page shows a passed test at a location next to a transfer that
\* is not completed, though the two are read one after the other (ReportBagit).
PagesTellArchive ==
    /\ "pages" \in out.done =>
          \A b \in since.settled : b \in DOMAIN out.pages /\ out.pages[b].files = content[b]
    /\ \A b \in DOMAIN out.pages, l \in Locations :
          [loc |-> l, status |-> "passed"] \in out.pages[b].tests =>
              [loc |-> l, status |-> "ok"] \in out.pages[b].transfers
=============================================================================

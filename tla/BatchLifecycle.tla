--------------------------- MODULE BatchLifecycle ---------------------------
(***************************************************************************)
(* What an import batch promises its readers: the transition table of      *)
(* core/internal/ingest/state.go, one status per batch, and nothing else.  *)
(* IngestPipeline is the detailed specification that is compared with it.  *)
(***************************************************************************)
EXTENDS Naturals, Sequences

CONSTANT Batches

VARIABLE status

\* "absent" is the batch that CreateImportBatch has not inserted yet.
Status == {"absent", "awaiting_upload", "abandoned", "uploaded", "parsing",
           "parsed", "validating", "validated", "rejected", "persisting",
           "imported", "failed"}

Terminal == {"abandoned", "rejected", "imported", "failed"}

\* The table of state.go: the states each state may move to.
transitions(from) ==
  CASE from = "awaiting_upload" -> {"uploaded", "abandoned", "failed"}
    [] from = "uploaded"        -> {"parsing", "failed"}
    [] from = "parsing"         -> {"parsed", "failed"}
    [] from = "parsed"          -> {"validating", "failed"}
    [] from = "validating"      -> {"validated", "rejected", "failed"}
    [] from = "validated"       -> {"persisting", "failed"}
    [] from = "persisting"      -> {"imported", "failed"}
    [] OTHER                    -> {}

CheckTransition(from, to) == to \in transitions(from)

\* A stage commits only the last state of the chain it checked: validate goes
\* uploaded, parsing, parsed, validating, validated in one transaction, persist
\* goes validated, persisting, imported.
Chains == { <<"uploaded", "parsing", "parsed", "validating", "validated">>,
            <<"uploaded", "parsing", "parsed", "validating", "rejected">>,
            <<"validated", "persisting", "imported">> }

LegalMove(from, to) ==
  \/ CheckTransition(from, to)
  \/ \E c \in Chains :
        /\ from = Head(c) /\ to = c[Len(c)]
        /\ \A i \in 1 .. Len(c) - 1 : CheckTransition(c[i], c[i + 1])

Init == status = [b \in Batches |-> "absent"]

Create(b) ==
  /\ status[b] = "absent"
  /\ status' = [status EXCEPT ![b] = "awaiting_upload"]

Move(b) ==
  \E to \in Status :
     /\ LegalMove(status[b], to)
     /\ status' = [status EXCEPT ![b] = to]

Next == \E b \in Batches : Create(b) \/ Move(b)

Spec == Init /\ [][Next]_status
=============================================================================

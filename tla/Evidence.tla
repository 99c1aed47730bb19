------------------------------- MODULE Evidence -------------------------------
(***************************************************************************)
(* What remains of an Execution: the result directory of a Step run, the   *)
(* workspace with its notebook and files, the download of such a file, the *)
(* lists and results that are read.  The parts share no state, so a        *)
(* behaviour explores one of them while the others rest: every step of     *)
(* their composition is a step of one.                                     *)
(***************************************************************************)
EXTENDS ResultStore, Workspace, FileDownload, Queries

VARIABLE part

EvidenceInit ==
    /\ part \in {"result", "workspace", "download", "pages", "snapshot"}
    /\ ResultInit /\ WorkspaceInit /\ DownloadInit /\ QueriesInit
    /\ part # "pages" => collection = ListSteps
    /\ part # "snapshot" => stored.mode = "SINGLE"

EvidenceNext ==
    \/ /\ part = "result" /\ ResultNext
       /\ UNCHANGED <<part, workspaceVars, downloadVars, queryVars>>
    \/ /\ part = "workspace" /\ WorkspaceNext
       /\ UNCHANGED <<part, resultVars, downloadVars, queryVars>>
    \/ /\ part = "download" /\ DownloadNext
       /\ UNCHANGED <<part, resultVars, workspaceVars, queryVars>>
    \/ /\ part = "pages" /\ PageNext
       /\ UNCHANGED <<part, resultVars, workspaceVars, downloadVars>>
    \/ /\ part = "snapshot" /\ SnapshotNext
       /\ UNCHANGED <<part, resultVars, workspaceVars, downloadVars>>

EvidenceSpec ==
    EvidenceInit /\ [][EvidenceNext]_<<part, resultVars, workspaceVars,
                                     downloadVars, queryVars>>

=============================================================================

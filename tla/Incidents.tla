------------------------------ MODULE Incidents ------------------------------
(***************************************************************************)
(* api/src/incidents/incidents.service.ts: theft, loss, fraud.  At most one *)
(* open incident per piece (partial unique index).  Every handler loads and *)
(* checks first; review, recover and resolve then write by primary key.     *)
(***************************************************************************)
EXTENDS Store

\* PIECE_STATUS_BY_TYPE; the other types leave the piece as it is.
StatusAfter(type, s) ==
  CASE type = "STOLEN" -> "REPORTED_STOLEN"
    [] type = "LOST" -> "LOST"
    [] OTHER -> s

\* The conditional update of the piece when an incident is closed.
\* Mutant: lost pieces are forgotten.
FreedStolen(s) == IF s = "REPORTED_STOLEN" THEN "AVAILABLE" ELSE s
Freed(s) == IF s \in {"REPORTED_STOLEN", "LOST"} THEN "AVAILABLE" ELSE s

\* Mutant: no partial index.
NoIncidentIndex(i, p) == TRUE

\* uq_incidents_one_open_per_piece lets row i of piece p be open.
IndexAllows(i, p) == OpenIncidents(p) \subseteq {i}

-----------------------------------------------------------------------------
(* report: by the owner, or by staff. *)

ReportCheck(w, p, type) ==
  /\ IsIdle(w)
  /\ status[p] \in PieceStatus \ {"RETIRED"}
  /\ OpenRows(p) # {} \/ Staff # {}
  /\ ~HasOpenIncident(p)
  /\ Serve(w, [op |-> "report", piece |-> p, type |-> type])
  /\ UNCHANGED <<status, sale, claim, rows, transfer, incident, service>>

ReportCommit(w, i) ==
  LET p == req[w].piece
      type == req[w].type
  IN
  /\ req[w].op = "report"
  /\ incident[i] = Absent
  /\ IndexAllows(i, p)
  /\ incident' = [incident EXCEPT ![i] =
       [status |-> "ACTIVE", piece |-> p, type |-> type,
        reports |-> {"SUBMITTED"}]]
  /\ status' = [status EXCEPT ![p] = StatusAfter(type, @)]
  /\ Finish(w)
  /\ UNCHANGED <<sale, claim, rows, transfer, service>>

\* P2002 on the index; or no identifier left (bound).
ReportConflict(w) ==
  /\ req[w].op = "report"
  /\ \/ HasOpenIncident(req[w].piece)
     \/ \A i \in IncidentId : incident[i] # Absent
  /\ Finish(w)
  /\ UNCHANGED <<status, sale, claim, rows, transfer, incident, service>>

-----------------------------------------------------------------------------
(* addReport: the check and the insert are separate statements. *)

AddReportLoad(w, i) ==
  /\ IsIdle(w)
  /\ incident[i].status \in OpenIncidentStatus
  /\ Serve(w, [op |-> "addReport", incident |-> i])
  /\ UNCHANGED <<status, sale, claim, rows, transfer, incident, service>>

AddReportCreate(w) ==
  LET i == req[w].incident IN
  /\ req[w].op = "addReport"
  /\ incident' = [incident EXCEPT ![i].reports = @ \cup {"SUBMITTED"}]
  /\ Finish(w)
  /\ UNCHANGED <<status, sale, claim, rows, transfer, service>>

-----------------------------------------------------------------------------
(* review: ACTIVE -> UNDER_REVIEW; every SUBMITTED report is VERIFIED. *)

ReviewLoad(w, i) ==
  /\ IsIdle(w)
  /\ incident[i].status = "ACTIVE"
  /\ Serve(w, [op |-> "review", incident |-> i])
  /\ UNCHANGED <<status, sale, claim, rows, transfer, incident, service>>

ReviewWrite(w) ==
  LET i == req[w].incident IN
  /\ req[w].op = "review"
  /\ IndexAllows(i, incident[i].piece)
  /\ incident' = [incident EXCEPT
       ![i].status = "UNDER_REVIEW",
       ![i].reports = {"VERIFIED"}]
  /\ Finish(w)
  /\ UNCHANGED <<status, sale, claim, rows, transfer, service>>

\* P2002: the incident was closed meanwhile and the piece has another one.
ReviewConflict(w) ==
  LET i == req[w].incident IN
  /\ req[w].op = "review"
  /\ ~IndexAllows(i, incident[i].piece)
  /\ Finish(w)
  /\ UNCHANGED <<status, sale, claim, rows, transfer, incident, service>>

-----------------------------------------------------------------------------
(* recover (outcome RECOVERED) and resolve (RESOLVED) *)

CloseLoad(w, i, outcome) ==
  /\ IsIdle(w)
  /\ incident[i].status \in OpenIncidentStatus
  /\ Serve(w, [op |-> "close", incident |-> i, outcome |-> outcome])
  /\ UNCHANGED <<status, sale, claim, rows, transfer, incident, service>>

CloseWrite(w) ==
  LET i == req[w].incident IN
  /\ req[w].op = "close"
  /\ incident' = [incident EXCEPT ![i].status = req[w].outcome]
  /\ status' = [status EXCEPT ![incident[i].piece] = Freed(@)]
  /\ Finish(w)
  /\ UNCHANGED <<sale, claim, rows, transfer, service>>

IncidentNext ==
  \E w \in Worker :
    \/ \E p \in Piece, type \in IncidentType : ReportCheck(w, p, type)
    \/ \E i \in IncidentId :
         \/ ReportCommit(w, i)
         \/ AddReportLoad(w, i)
         \/ ReviewLoad(w, i)
         \/ \E outcome \in {"RECOVERED", "RESOLVED"} : CloseLoad(w, i, outcome)
    \/ ReportConflict(w)
    \/ AddReportCreate(w)
    \/ ReviewWrite(w)
    \/ ReviewConflict(w)
    \/ CloseWrite(w)
=============================================================================

------------------------------ MODULE Identity -------------------------------
(***************************************************************************)
(* The QR codes of a piece (pieces.service.ts: regenerateQr) and its        *)
(* certificates (certificates.service.ts).                                  *)
(***************************************************************************)
EXTENDS Serials

\* The transaction takes its snapshot: the codes updateMany will revoke.  Codes
\* another regeneration commits from now on are not among them.
RegenerateLoad(w, p) ==
  /\ IsIdle(w)
  /\ Registered(p)
  /\ Serve(w, [op |-> "qr", piece |-> p, seen |-> ActiveCodes(p)])
  /\ UNCHANGED <<clock, counter, paper, lost, qr, cert>>

Revoking(codes) ==
  [q \in QrCode |-> IF q \in codes THEN [qr[q] EXCEPT !.status = "REVOKED"]
                    ELSE qr[q]]

\* Mutant: the codes are revoked, the new one is created by a later request.
RegenerateRevokeOnly(w) ==
  /\ req[w].op = "qr"
  /\ qr' = Revoking(req[w].seen)
  /\ Finish(w)
  /\ UNCHANGED <<clock, counter, paper, lost, cert>>

\* Mutant: the codes before are left ACTIVE.
RegenerateAddOnly(w) ==
  /\ req[w].op = "qr"
  /\ \E n \in QrCode :
       /\ qr[n] = Absent
       /\ qr' = [qr EXCEPT ![n] = [piece |-> req[w].piece, status |-> "ACTIVE"]]
  /\ Finish(w)
  /\ UNCHANGED <<clock, counter, paper, lost, cert>>

RegenerateCommit(w) ==
  /\ req[w].op = "qr"
  /\ \E n \in QrCode :
       /\ qr[n] = Absent
       /\ qr' = [Revoking(req[w].seen) EXCEPT ![n] =
                   [piece |-> req[w].piece, status |-> "ACTIVE"]]
  /\ Finish(w)
  /\ UNCHANGED <<clock, counter, paper, lost, cert>>

-----------------------------------------------------------------------------
(* Certificates: their number is random and tried until it is free. *)

IssueLoad(w, p) ==
  /\ IsIdle(w)
  /\ Registered(p)
  /\ Serve(w, [op |-> "issue", piece |-> p])
  /\ UNCHANGED <<clock, counter, paper, lost, qr, cert>>

IssueCommit(w, c) ==
  /\ req[w].op = "issue"
  /\ cert[c] = Absent
  /\ cert' = [cert EXCEPT ![c] = [piece |-> req[w].piece,
                                  status |-> "ACTIVE"]]
  /\ Finish(w)
  /\ UNCHANGED <<clock, counter, paper, lost, qr>>

RevokeLoad(w, c) ==
  /\ IsIdle(w)
  /\ cert[c].status = "ACTIVE"
  /\ Serve(w, [op |-> "revoke", cert |-> c])
  /\ UNCHANGED <<clock, counter, paper, lost, qr, cert>>

\* By primary key, whether or not another revoke came first.
RevokeWrite(w) ==
  /\ req[w].op = "revoke"
  /\ cert' = [cert EXCEPT ![req[w].cert].status = "REVOKED"]
  /\ Finish(w)
  /\ UNCHANGED <<clock, counter, paper, lost, qr>>

IdentityNext ==
  \E w \in Worker :
    \/ \E p \in Piece : RegenerateLoad(w, p) \/ IssueLoad(w, p)
    \/ RegenerateCommit(w)
    \/ \E c \in Certificate : IssueCommit(w, c) \/ RevokeLoad(w, c)
    \/ RevokeWrite(w)
=============================================================================

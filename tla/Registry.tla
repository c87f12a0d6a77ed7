------------------------------ MODULE Registry -------------------------------
(***************************************************************************)
(* Numbers, QR codes and certificates over one database, with requests that *)
(* may die at any point and a year that may turn under them.                *)
(***************************************************************************)
EXTENDS Identity

\* A request dies: an open draw rolls back, a committed one leaves its gap.
Abort(w) ==
  /\ ~IsIdle(w)
  /\ IF req[w].op = "number" THEN Forfeit(w) ELSE UNCHANGED lost
  /\ Finish(w)
  /\ UNCHANGED <<clock, counter, paper, qr, cert>>

Init == OfficeInit

Next ==
  \/ SerialNext
  \/ IdentityNext
  \/ \E w \in Worker : Abort(w)

Spec == Init /\ [][Next]_vars

-----------------------------------------------------------------------------

DrawnFrom(y) == {x \in paper : x.drawn = y}

\* Draws of year y that committed and whose report is still to be written.
Owed(y) ==
  {req[w].number : w \in {v \in Worker : /\ req[v].op = "number"
                                         /\ ~req[v].open /\ req[v].year = y}}

\* serial_counters accounts for every number of its year, whatever commits,
\* rolls back, dies or crosses the turn of the year: a number up to the counter
\* is on exactly one paper, or was lost by addReport, or is about to be used by
\* it, and no paper was drawn beyond the counter (pieces.service.ts:75-81).
CounterAccounts ==
  \A y \in Year :
    /\ {x.number : x \in DrawnFrom(y)} \cup lost[y] \cup Owed(y)
         = 1..counter[y]
    /\ \A x, z \in DrawnFrom(y) : x.number = z.number => x = z
    /\ \A x \in DrawnFrom(y) : x.number \notin lost[y] \cup Owed(y)

\* Serial and invoice numbers carry the year of the counter they came from, so
\* the two kinds together never repeat a number within a year, also when the
\* year turns between reading it and committing.
SerialsApart ==
  \A x, z \in {v \in paper : v.kind # "report"} :
    x.year = z.year /\ x.number = z.number => x = z

\* A registered piece has a code that can be scanned: registration creates one
\* and regenerateQr revokes and creates in one commit (pieces.service.ts:266).
AlwaysACode ==
  \A p \in Piece : Registered(p) => ActiveCodes(p) # {}

\* DATABASE.md:29: a new edition revokes the ones before.  Regenerations that
\* overlap do not see each other's code, so a piece may have several, but never
\* more than the requests served at once: the codes left over all come from
\* transactions that were open together.
CodesBounded ==
  \A p \in Piece : Cardinality(ActiveCodes(p)) <= Cardinality(Worker)
=============================================================================

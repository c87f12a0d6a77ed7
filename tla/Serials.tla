------------------------------- MODULE Serials -------------------------------
(***************************************************************************)
(* serial_counters: one counter per year, which pieces.register, sales.     *)
(* create and incidents.report raise inside their transaction, holding its  *)
(* row until they commit, and incidents.addReport in a statement of its     *)
(* own.  The year is read from the clock: once, before the transaction, by  *)
(* register; once for the counter and once more for the number by reports.  *)
(***************************************************************************)
EXTENDS Office

Drawing(y) ==
  {w \in Worker : req[w].op = "number" /\ req[w].open /\ req[w].year = y}

\* Mutant: the counter is read without its row being locked.
FreeCounter(y) == TRUE

\* The upsert waits for the transaction that holds the row.
CounterIsFree(y) == Drawing(y) = {}

\* register: the year before the transaction.
RegisterYear(w, p) ==
  /\ IsIdle(w)
  /\ ~Registered(p)
  /\ Serve(w, [op |-> "draw", kind |-> "piece", piece |-> p, year |-> clock])
  /\ UNCHANGED <<clock, counter, paper, lost, qr, cert>>

\* sales.create and incidents.report: the year inside it, with the upsert.
DrawOpen(w, kind, p, y) ==
  /\ CounterIsFree(y)
  /\ counter[y] < MaxNumber
  /\ Serve(w, [op |-> "number", kind |-> kind, piece |-> p, year |-> y,
               number |-> counter[y] + 1, open |-> TRUE])
  /\ UNCHANGED <<clock, counter, paper, lost, qr, cert>>

RegisterDraw(w) ==
  /\ req[w].op = "draw"
  /\ DrawOpen(w, "piece", req[w].piece, req[w].year)

SaleDraw(w) == IsIdle(w) /\ DrawOpen(w, "invoice", None, clock)

ReportDraw(w) == IsIdle(w) /\ DrawOpen(w, "report", None, clock)

\* addReport: the upsert commits at once.
AddReportDraw(w) ==
  /\ IsIdle(w)
  /\ CounterIsFree(clock)
  /\ counter[clock] < MaxNumber
  /\ counter' = [counter EXCEPT ![clock] = @ + 1]
  /\ Serve(w, [op |-> "number", kind |-> "report", piece |-> None,
               year |-> clock, number |-> counter[clock] + 1, open |-> FALSE])
  /\ UNCHANGED <<clock, paper, lost, qr, cert>>

\* Mutant: everything prints the year it is by now.
PrintedLate(w) ==
  LET r == req[w] IN
  [kind |-> r.kind, piece |-> r.piece, year |-> clock, number |-> r.number,
   drawn |-> r.year]

\* Reports print the year it is by now, the others the year of the counter.
Printed(w) ==
  LET r == req[w] IN
  [kind |-> r.kind, piece |-> r.piece,
   year |-> IF r.kind = "report" THEN clock ELSE r.year,
   number |-> r.number, drawn |-> r.year]

\* serial_number, invoice_number and report_number are UNIQUE, each in its
\* table; so is the piece (internal_id).
Taken(x) ==
  \E z \in paper : \/ z.kind = x.kind /\ z.year = x.year /\ z.number = x.number
                   \/ x.piece # None /\ z.piece = x.piece

\* What a draw leaves behind when nothing gets its number: an open one rolls
\* back with its counter, a committed one leaves a gap.
Forfeit(w) ==
  lost' = IF req[w].open THEN lost
          ELSE [lost EXCEPT ![req[w].year] = @ \cup {req[w].number}]

\* The transaction commits: the piece with its identity and first QR code, the
\* sale with its claim, the report with its incident.
NumberCommit(w) ==
  LET r == req[w]
      x == Printed(w)
  IN
  /\ r.op = "number"
  /\ ~Taken(x)
  /\ paper' = paper \cup {x}
  /\ counter' = IF r.open THEN [counter EXCEPT ![r.year] = r.number]
                ELSE counter
  /\ IF r.kind = "piece"
     THEN \E q \in QrCode :
            /\ qr[q] = Absent
            /\ qr' = [qr EXCEPT ![q] =
                        [piece |-> r.piece, status |-> "ACTIVE"]]
     ELSE UNCHANGED qr
  /\ Finish(w)
  /\ UNCHANGED <<clock, lost, cert>>

\* P2002: the number, or the piece, is there already.
NumberConflict(w) ==
  /\ req[w].op = "number"
  /\ Taken(Printed(w))
  /\ Forfeit(w)
  /\ Finish(w)
  /\ UNCHANGED <<clock, counter, paper, qr, cert>>

\* The clock of the process turns to the next year, and never back.
NewYear ==
  /\ clock < LastYear
  /\ clock' = clock + 1
  /\ UNCHANGED <<counter, paper, lost, qr, cert, req>>

SerialNext ==
  \/ \E w \in Worker :
       \/ \E p \in Piece : RegisterYear(w, p)
       \/ RegisterDraw(w) \/ SaleDraw(w) \/ ReportDraw(w) \/ AddReportDraw(w)
       \/ NumberCommit(w) \/ NumberConflict(w)
  \/ NewYear
=============================================================================

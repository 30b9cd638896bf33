-------------------------- MODULE Invoices_proofs --------------------------
(***************************************************************************)
(* What clients are told of a document follows what was asked for and what *)
(* became of it: its status, its amount and its lines, for every set of    *)
(* documents, amounts and quantities.                                      *)
(***************************************************************************)
EXTENDS Invoices, SumLemmas, TLAPS

\* A document in Xero: paid only when nothing is left to pay, and payments
\* only while it is approved or paid.
XeroRow(r, p, v) ==
    /\ r.status \in XeroStatuses /\ r.sent = FALSE
    /\ v <=> r.status \in {"VOIDED", "DELETED"}
    /\ r.status = "PAID" => r.balance = 0
    /\ r.status = "AUTHORISED" => r.total = 0 \/ r.balance > 0
    /\ r.status \notin {"AUTHORISED", "PAID"} => p = 0

\* A document in QuickBooks: the voided ones are invoices worth nothing.
QboRow(r, v) == v => r.type = "invoice" /\ r.total = 0

Row(r, p, v) ==
    /\ r \in Document /\ p \in Nat
    /\ r.balance + p = r.total
    /\ erp = "xero" => XeroRow(r, p, v)
    /\ erp = "quickbooks" => QboRow(r, v)

\* The inductive invariant: every document of the ledger balances.
Books ==
    /\ erp \in {"xero", "quickbooks"}
    /\ DOMAIN ledger = Doc /\ ledger = [d \in Doc |-> ledger[d]]
    /\ received \in [Doc -> Nat]
    /\ voided \subseteq Docs
    /\ \A d \in Docs : Row(ledger[d], received[d], d \in voided)
    /\ \A d \in Doc \ Docs : received[d] = 0

LEMMA SentLinesTyped ==
    ASSUME NEW items, NEW type, NEW sets,
           \A i \in DOMAIN sets : sets[i] \subseteq Line,
           DOMAIN sets \in {1 .. n : n \in Nat}
    PROVE  OneOfEach(sets) \subseteq Seq(Line)
<1> SUFFICES ASSUME NEW f \in OneOfEach(sets) PROVE f \in Seq(Line)
    OBVIOUS
<1>1. DOMAIN f = DOMAIN sets /\ f = [i \in DOMAIN sets |-> f[i]]
    BY DEF OneOfEach
<1>2. \A i \in DOMAIN sets : f[i] \in Line
    BY DEF OneOfEach
<1>3. f \in [DOMAIN sets -> Line]
    BY <1>1, <1>2
<1> QED BY <1>3

\* A step that changes one document, and keeps that one balanced, keeps the
\* books.
LEMMA RowChanged ==
    ASSUME Books, NEW d \in Doc, NEW r, NEW p,
           erp' = erp,
           ledger' = [ledger EXCEPT ![d] = r],
           received' = [received EXCEPT ![d] = p],
           voided' \ {d} = voided \ {d}, voided' \subseteq Docs \cup {d},
           Row(r, p, d \in voided')
    PROVE  Books'
<1>1. r # NoDoc
    BY InvoicesAssumption DEF Row
<1>2. ledger'[d] = r /\ \A e \in Doc \ {d} : ledger'[e] = ledger[e]
    BY DEF Books
<1>3. received'[d] = p /\ \A e \in Doc \ {d} : received'[e] = received[e]
    BY DEF Books
<1>4. Docs' = Docs \cup {d}
    BY <1>1, <1>2 DEF Docs
<1>5. \A e \in Doc \ {d} : e \in voided' <=> e \in voided
    OBVIOUS
<1>6. erp' \in {"xero", "quickbooks"} /\ voided' \subseteq Docs'
    BY <1>4 DEF Books
<1>7. DOMAIN ledger' = Doc /\ ledger' = [e \in Doc |-> ledger'[e]]
    BY DEF Books
<1>8. received' \in [Doc -> Nat]
    BY DEF Books, Row
<1>9. ASSUME NEW e \in Docs' PROVE Row(ledger[e], received[e], e \in voided)'
  <2>1. CASE e = d
    BY <2>1, <1>2, <1>3 DEF Row
  <2>2. CASE e # d
    <3>1. e \in Docs /\ e \in Doc \ {d}
      BY <2>2, <1>4 DEF Docs
    <3>2. Row(ledger[e], received[e], e \in voided)
      BY <3>1 DEF Books
    <3>3. ledger'[e] = ledger[e] /\ received'[e] = received[e] /\ (e \in voided' <=> e \in voided)
      BY <3>1, <1>2, <1>3, <1>5
    <3> QED BY <3>2, <3>3 DEF Row, XeroRow, QboRow
  <2> QED BY <2>1, <2>2
<1>10. \A e \in (Doc \ Docs)' : received'[e] = 0
    BY <1>3, <1>4 DEF Books, Docs
<1> QED BY <1>6, <1>7, <1>8, <1>9, <1>10 DEF Books

LEMMA RoundedTyped == ASSUME NEW n \in Nat PROVE Rounded(n) \subseteq Nat
<1>1. n \div Parts \in Nat
  BY InvoicesAssumption
<1> QED BY <1>1 DEF Rounded

LEMMA LinesTyped ==
    ASSUME NEW item \in Item
    PROVE  QboLine(item) \subseteq Line /\ QboBillLine(item) \subseteq Line
           /\ XeroLine(item) \subseteq Line
<1>1. item.unit_amount \in Nat /\ item.quantity \in Nat
  BY InvoicesAssumption DEF Item
<1>2. item.unit_amount * item.quantity \in Nat
  BY <1>1
<1>3. Rounded(item.unit_amount * item.quantity) \subseteq Nat
  BY <1>2, RoundedTyped
<1> QED BY <1>1, <1>3 DEF QboLine, QboBillLine, XeroLine, Line

\* A document that is entered balances: nothing has been paid of it.
LEMMA Entered ==
    ASSUME Books, NEW d \in Doc, NEW type \in {"invoice", "bill"},
           NEW items \in Request, NEW sets, NEW st,
           DOMAIN sets = DOMAIN items,
           \A i \in DOMAIN sets : sets[i] \subseteq Line,
           erp = "xero" => st = "DRAFT", erp = "quickbooks" => st = "none",
           Enter(d, type, items, sets, st)
    PROVE  Books'
<1>1. DOMAIN sets \in {1 .. n : n \in Nat}
  BY DEF Request
<1>2. PICK ls \in OneOfEach(sets), tax \in Tax :
        /\ Size(ls) + tax \in 0 .. MaxTotal
        /\ ledger' = [ledger EXCEPT ![d] =
               [type |-> type, lines |-> ls, tax |-> tax, total |-> Size(ls) + tax,
                balance |-> Size(ls) + tax, status |-> st, sent |-> FALSE,
                note |-> "plain"]]
  BY DEF Enter
<1>3. ls \in Seq(Line)
  BY <1>1, <1>2, SentLinesTyped
<1> DEFINE r == [type |-> type, lines |-> ls, tax |-> tax, total |-> Size(ls) + tax,
                 balance |-> Size(ls) + tax, status |-> st, sent |-> FALSE,
                 note |-> "plain"]
<1>4. Size(ls) + tax \in Nat /\ tax \in Nat
  BY <1>2, InvoicesAssumption
<1>5. st \in XeroStatuses \cup {"none"}
  BY DEF Books, XeroStatuses
<1>6. r \in Document
  BY <1>3, <1>4, <1>5 DEF Document, Note
<1>7. d \notin Docs /\ d \notin voided /\ received[d] = 0
  BY DEF Enter, Books
<1>8. UNCHANGED <<erp, received, voided>>
  BY DEF Enter
<1>9. received' = [received EXCEPT ![d] = 0]
  BY <1>7, <1>8 DEF Books
<1>10. r.balance + 0 = r.total
  BY <1>4
<1>11. XeroRow(r, 0, FALSE) \/ erp # "xero"
  BY DEF XeroRow, XeroStatuses
<1>12. QboRow(r, FALSE)
  BY DEF QboRow
<1>13. Row(r, 0, FALSE)
  BY <1>6, <1>10, <1>11, <1>12 DEF Row
<1>14. Row(r, 0, d \in voided') /\ erp' = erp /\ voided' = voided /\ voided' \subseteq Docs \cup {d}
  BY <1>13, <1>8, <1>7 DEF Row, XeroRow, QboRow, Books
<1> HIDE DEF r
<1> QED BY <1>14, <1>9, <1>2, RowChanged DEF r

LEMMA CreateKeepsBooks ==
    ASSUME Books, Create PROVE Books'
<1>1. PICK d \in Doc, items \in Request :
          \/ QboCreateInvoice(d, items) \/ QboCreateBill(d, items)
          \/ XeroCreateInvoice(d, items) \/ XeroCreateBill(d, items)
  BY DEF Create
<1>2. \A i \in DOMAIN items : items[i] \in Item
  BY DEF Request
<1>3. CASE QboCreateInvoice(d, items)
  <2> DEFINE sets == [i \in DOMAIN items |-> QboLine(items[i])]
  <2>1. DOMAIN sets = DOMAIN items /\ \A i \in DOMAIN sets : sets[i] \subseteq Line
    BY <1>2, LinesTyped
  <2>2. Enter(d, "invoice", items, sets, "none") /\ erp = "quickbooks"
    BY <1>3 DEF QboCreateInvoice
  <2> HIDE DEF sets
  <2> QED BY <2>1, <2>2, Entered
<1>4. CASE QboCreateBill(d, items)
  <2> DEFINE sets == [i \in DOMAIN items |-> QboBillLine(items[i])]
  <2>1. DOMAIN sets = DOMAIN items /\ \A i \in DOMAIN sets : sets[i] \subseteq Line
    BY <1>2, LinesTyped
  <2>2. Enter(d, "bill", items, sets, "none") /\ erp = "quickbooks"
    BY <1>4 DEF QboCreateBill
  <2> HIDE DEF sets
  <2> QED BY <2>1, <2>2, Entered
<1>5. CASE XeroCreateInvoice(d, items) \/ XeroCreateBill(d, items)
  <2> DEFINE sets == [i \in DOMAIN items |-> XeroLine(items[i])]
  <2>1. DOMAIN sets = DOMAIN items /\ \A i \in DOMAIN sets : sets[i] \subseteq Line
    BY <1>2, LinesTyped
  <2>2. /\ Enter(d, "invoice", items, sets, "DRAFT") \/ Enter(d, "bill", items, sets, "DRAFT")
        /\ erp = "xero"
    BY <1>5 DEF XeroCreateInvoice, XeroCreateBill
  <2> HIDE DEF sets
  <2> QED BY <2>1, <2>2, Entered
<1> QED BY <1>1, <1>3, <1>4, <1>5

\* A document of the ledger, taken apart.
LEMMA RowOf ==
    ASSUME Books, NEW d \in Docs
    PROVE  /\ d \in Doc /\ Row(ledger[d], received[d], d \in voided)
           /\ ledger[d] \in Document /\ received[d] \in Nat
           /\ ledger[d].balance \in Nat /\ ledger[d].total \in Nat
BY DEF Books, Row, Docs, Document

\* Entering another balance and another status changes nothing else.
Reentry(r, b, st) == [r EXCEPT !.balance = b, !.status = st]

LEMMA Reentered ==
    ASSUME NEW r \in Document, NEW b \in Nat, NEW st \in XeroStatuses \cup {"none"},
           NEW q, q = Reentry(r, b, st)
    PROVE  /\ q \in Document
           /\ q.balance = b /\ q.status = st /\ q.total = r.total
           /\ q.note = r.note /\ q.sent = r.sent /\ q.type = r.type
BY DEF Document, Reentry

LEMMA AcceptKeepsBooks ==
    ASSUME Books, NEW d, NEW a, Accept(d, a) PROVE Books'
<1> DEFINE r == ledger[d]
           q == Settled(r, a)
           p == received[d] + a
           st == IF erp = "xero" /\ a = r.balance THEN "PAID" ELSE r.status
           b == r.balance - a
<1>1. d \in Docs /\ a \in 1 .. r.balance /\ (erp = "xero" => r.status = "AUTHORISED")
  BY DEF Accept
<1>2. /\ d \in Doc /\ Row(r, received[d], d \in voided)
      /\ r \in Document /\ received[d] \in Nat /\ r.balance \in Nat /\ r.total \in Nat
  BY <1>1, RowOf
<1>3. b \in Nat /\ p \in Nat
  BY <1>1, <1>2
<1>4. st \in XeroStatuses \cup {"none"} /\ r \in Document
  BY <1>2 DEF Document, XeroStatuses
<1>5. q = Reentry(r, b, st)
  BY DEF Settled, Reentry
<1> HIDE DEF st, q, b, r, p
<1>6. /\ q \in Document
      /\ q.balance = b /\ q.total = r.total /\ q.note = r.note
      /\ q.sent = r.sent /\ q.type = r.type /\ q.status = st
  BY <1>3, <1>4, <1>5, Reentered
<1>7. q.balance + p = q.total
  BY <1>1, <1>2, <1>6 DEF Row, b, p
<1>8. ASSUME erp = "xero" PROVE XeroRow(q, p, d \in voided)
  <2>1. XeroRow(r, received[d], d \in voided) /\ r.status = "AUTHORISED"
    BY <1>1, <1>2, <1>8 DEF Row
  <2>2. CASE a = r.balance
    <3>1. q.status = "PAID" /\ q.balance = 0
      BY <2>2, <1>6, <1>2, <1>8 DEF st, b
    <3> QED BY <3>1, <2>1, <1>6 DEF XeroRow, XeroStatuses
  <2>3. CASE a # r.balance
    <3>1. q.status = "AUTHORISED" /\ q.balance > 0
      BY <2>3, <2>1, <1>6, <1>2, <1>1 DEF st, b
    <3> QED BY <3>1, <2>1, <1>6 DEF XeroRow, XeroStatuses
  <2> QED BY <2>2, <2>3
<1>9. erp = "quickbooks" => QboRow(q, d \in voided)
  BY <1>2, <1>6 DEF Row, QboRow
<1>10. Row(q, p, d \in voided)
  BY <1>3, <1>6, <1>7, <1>8, <1>9 DEF Row
<1>11. /\ ledger' = [ledger EXCEPT ![d] = q] /\ received' = [received EXCEPT ![d] = p]
       /\ erp' = erp /\ voided' = voided
  BY DEF Accept, q, r, p
<1>12. voided' \subseteq Docs \cup {d} /\ voided' \ {d} = voided \ {d}
  BY <1>11 DEF Books
<1> QED BY <1>2, <1>10, <1>11, <1>12, RowChanged

LEMMA SetStatusKeepsBooks ==
    ASSUME Books, NEW d, NEW to \in XeroStatuses, SetStatus(d, to) PROVE Books'
<1> DEFINE r == ledger[d]
           q == [r EXCEPT !.status = to]
<1>1. d \in Docs /\ erp = "xero" /\ Allowed(r, to)
  BY DEF SetStatus
<1>2. /\ d \in Doc /\ Row(r, received[d], d \in voided)
      /\ r \in Document /\ received[d] \in Nat /\ r.balance \in Nat /\ r.total \in Nat
  BY <1>1, RowOf
<1>3. /\ q \in Document /\ q.balance = r.balance /\ q.total = r.total /\ q.note = r.note
      /\ q.sent = r.sent /\ q.status = to
  BY <1>2 DEF Document
<1>4. XeroRow(r, received[d], d \in voided)
  BY <1>1, <1>2 DEF Row
<1>5. r.balance + received[d] = r.total
  BY <1>2 DEF Row
<1>6. received[d] = 0 /\ r.balance = r.total
  <2>1. CASE r.status \in {"DRAFT", "SUBMITTED"}
    BY <2>1, <1>4, <1>5, <1>2 DEF XeroRow
  <2>2. CASE r.balance = r.total
    BY <2>2, <1>5, <1>2
  <2> QED BY <2>1, <2>2, <1>1 DEF Allowed
<1>7. r.status \in {"DRAFT", "SUBMITTED", "AUTHORISED"} /\ d \notin voided /\ to # "PAID"
  BY <1>1, <1>4 DEF Allowed, XeroRow
<1>8. d \in voided' <=> to \in {"VOIDED", "DELETED"}
  BY <1>7 DEF SetStatus
<1>9. XeroRow(q, received[d], d \in voided')
  BY <1>3, <1>4, <1>6, <1>7, <1>8, <1>2 DEF XeroRow
<1>10. Row(q, received[d], d \in voided')
  BY <1>9, <1>3, <1>5, <1>2, <1>1 DEF Row
<1>11. /\ ledger' = [ledger EXCEPT ![d] = q] /\ received' = [received EXCEPT ![d] = received[d]]
       /\ erp' = erp /\ voided' \ {d} = voided \ {d} /\ voided' \subseteq Docs \cup {d}
  BY DEF SetStatus, Books
<1> HIDE DEF q
<1> QED BY <1>2, <1>10, <1>11, RowChanged

LEMMA UnpayKeepsBooks ==
    ASSUME Books, NEW d, NEW a, Unpay(d, a) PROVE Books'
<1> DEFINE r == ledger[d]
           q == Unsettled(r, a)
           p == received[d] - a
           st == IF erp = "xero" THEN "AUTHORISED" ELSE r.status
           b == r.balance + a
<1>1. d \in Docs /\ a \in 1 .. received[d]
  BY DEF Unpay
<1>2. /\ d \in Doc /\ Row(r, received[d], d \in voided)
      /\ r \in Document /\ received[d] \in Nat /\ r.balance \in Nat /\ r.total \in Nat
  BY <1>1, RowOf
<1>3. b \in Nat /\ p \in Nat /\ b > 0
  BY <1>1, <1>2
<1>4. st \in XeroStatuses \cup {"none"} /\ r \in Document
  BY <1>2 DEF Document, XeroStatuses
<1>5. q = Reentry(r, b, st)
  BY DEF Unsettled, Reentry
<1> HIDE DEF st, q, b, r, p
<1>6. /\ q \in Document
      /\ q.balance = b /\ q.total = r.total /\ q.note = r.note
      /\ q.sent = r.sent /\ q.type = r.type /\ q.status = st
  BY <1>3, <1>4, <1>5, Reentered
<1>7. q.balance + p = q.total
  BY <1>1, <1>2, <1>6 DEF Row, b, p
<1>8. ASSUME erp = "xero" PROVE XeroRow(q, p, d \in voided)
  <2>1. XeroRow(r, received[d], d \in voided) /\ received[d] # 0
    BY <1>1, <1>2, <1>8 DEF Row
  <2>2. q.status = "AUTHORISED" /\ q.balance > 0 /\ d \notin voided
    BY <1>8, <1>6, <1>3, <2>1 DEF XeroRow, st
  <2> QED BY <2>1, <2>2, <1>6 DEF XeroRow, XeroStatuses
<1>9. erp = "quickbooks" => QboRow(q, d \in voided)
  BY <1>2, <1>6 DEF Row, QboRow
<1>10. Row(q, p, d \in voided)
  BY <1>3, <1>6, <1>7, <1>8, <1>9 DEF Row
<1>11. /\ ledger' = [ledger EXCEPT ![d] = q] /\ received' = [received EXCEPT ![d] = p]
       /\ erp' = erp /\ voided' = voided
  BY DEF Unpay, q, r, p
<1>12. voided' \subseteq Docs \cup {d} /\ voided' \ {d} = voided \ {d}
  BY <1>11 DEF Books
<1> QED BY <1>2, <1>10, <1>11, <1>12, RowChanged

\* Sending and annotating change a mark of a QuickBooks document, which its
\* books do not depend on.
Marked(r, sent, note) == [r EXCEPT !.sent = sent, !.note = note]

LEMMA SendsAndNotes ==
    ASSUME NEW d, NEW note \in Note, Books, Send(d) \/ Annotate(d, note)
    PROVE  /\ d \in Docs /\ erp = "quickbooks"
           /\ UNCHANGED <<erp, asked, received, voided, paying>>
           /\ \E b \in BOOLEAN, n \in Note :
                  ledger' = [ledger EXCEPT ![d] = Marked(ledger[d], b, n)]
<1>1. d \in Docs /\ erp = "quickbooks" /\ UNCHANGED <<erp, asked, received, voided, paying>>
  BY DEF Send, Annotate
<1>2. ledger[d] \in Document
  BY <1>1, RowOf
<1>3. ledger[d].sent \in BOOLEAN /\ ledger[d].note \in Note
  BY <1>2 DEF Document
<1>4. CASE Send(d)
  <2>1. [ledger[d] EXCEPT !.sent = TRUE] = Marked(ledger[d], TRUE, ledger[d].note)
    BY <1>2 DEF Marked, Document
  <2> QED BY <1>1, <1>3, <1>4, <2>1 DEF Send
<1>5. CASE Annotate(d, note)
  <2>1. [ledger[d] EXCEPT !.note = note] = Marked(ledger[d], ledger[d].sent, note)
    BY <1>2 DEF Marked, Document
  <2> QED BY <1>1, <1>3, <1>5, <2>1 DEF Annotate
<1> QED BY <1>4, <1>5

LEMMA MarksKeepBooks ==
    ASSUME Books, NEW d, NEW note \in Note, Send(d) \/ Annotate(d, note) PROVE Books'
<1>1. d \in Docs /\ erp = "quickbooks"
  BY SendsAndNotes
<1>2. PICK b \in BOOLEAN, n \in Note :
          ledger' = [ledger EXCEPT ![d] = Marked(ledger[d], b, n)]
  BY SendsAndNotes
<1> DEFINE r == ledger[d]
           q == Marked(r, b, n)
<1>3. /\ d \in Doc /\ Row(r, received[d], d \in voided)
      /\ r \in Document /\ received[d] \in Nat
  BY <1>1, RowOf
<1>4. /\ q \in Document /\ q.balance = r.balance /\ q.total = r.total
      /\ q.type = r.type
  BY <1>3 DEF Document, Marked
<1>5. QboRow(q, d \in voided)
  BY <1>1, <1>3, <1>4 DEF Row, QboRow
<1>6. Row(q, received[d], d \in voided)
  BY <1>1, <1>3, <1>4, <1>5 DEF Row
<1>7. UNCHANGED <<erp, received, voided>> /\ ledger' = [ledger EXCEPT ![d] = q]
  BY <1>2, SendsAndNotes
<1>8. /\ received' = [received EXCEPT ![d] = received[d]]
      /\ voided' \subseteq Docs \cup {d} /\ voided' \ {d} = voided \ {d}
  BY <1>1, <1>7 DEF Books
<1>9. Row(q, received[d], d \in voided')
  BY <1>6, <1>7
<1> HIDE DEF q
<1> QED BY <1>3, <1>7, <1>8, <1>9, RowChanged

LEMMA ZeroTyped == ASSUME NEW l \in Line PROVE Zero(l) \in Line
BY DEF Zero, Line

LEMMA ZeroesTyped ==
    ASSUME NEW q \in Seq(Line)
    PROVE  [i \in DOMAIN q |-> Zero(q[i])] \in Seq(Line)
<1>1. \A i \in DOMAIN q : Zero(q[i]) \in Line
  BY ZeroTyped
<1>2. DOMAIN q = 1 .. Len(q) /\ Len(q) \in Nat
  OBVIOUS
<1>3. [i \in DOMAIN q |-> Zero(q[i])] \in [1 .. Len(q) -> Line]
  BY <1>1, <1>2
<1> QED BY <1>2, <1>3

\* A document with its amounts cleared.
Cleared(r, ls) ==
    [r EXCEPT !.lines = ls, !.tax = 0, !.total = 0, !.balance = 0, !.note = "void"]

LEMMA ClearedTyped ==
    ASSUME NEW r \in Document, NEW ls \in Seq(Line), NEW q, q = Cleared(r, ls)
    PROVE  /\ q \in Document
           /\ q.type = r.type /\ q.balance = 0 /\ q.total = 0
BY DEF Document, Note, Cleared

LEMMA VoidKeepsBooks ==
    ASSUME Books, NEW d, VoidQbo(d) PROVE Books'
<1> DEFINE r == ledger[d]
           q == Voided(r)
           ls == [i \in DOMAIN r.lines |-> Zero(r.lines[i])]
<1>1. d \in Docs /\ erp = "quickbooks" /\ r.type = "invoice"
  BY DEF VoidQbo
<1>2. d \in Doc /\ r \in Document
  BY <1>1, RowOf
<1>3. ls \in Seq(Line)
  <2>1. r.lines \in Seq(Line)
    BY <1>2 DEF Document
  <2> QED BY <2>1, ZeroesTyped
<1>4. q = Cleared(r, ls)
  BY DEF Cleared, Voided
<1> HIDE DEF ls, q
<1>5. q \in Document /\ q.type = "invoice" /\ q.balance = 0 /\ q.total = 0
  BY <1>1, <1>2, <1>3, <1>4, ClearedTyped
<1>6. Row(q, 0, TRUE)
  BY <1>1, <1>5 DEF Row, QboRow
<1>7. /\ ledger' = [ledger EXCEPT ![d] = q] /\ received' = [received EXCEPT ![d] = 0]
      /\ erp' = erp /\ voided' = voided \cup {d}
  BY DEF VoidQbo, q
<1>8. voided' \subseteq Docs \cup {d} /\ voided' \ {d} = voided \ {d} /\ Row(q, 0, d \in voided')
  BY <1>6, <1>7 DEF Books, Row, QboRow, XeroRow
<1> QED BY <1>2, <1>7, <1>8, RowChanged

LEMMA BooksKept == ASSUME Books, [Next]_vars PROVE Books'
<1>1. ASSUME UNCHANGED <<erp, ledger, asked, received, voided>> PROVE Books'
  BY <1>1 DEF Books, Docs, Row, XeroRow, QboRow
<1>2. CASE Create
  BY <1>2, CreateKeepsBooks
<1>3. ASSUME NEW d \in Doc, NEW a, XeroPay(d, a) \/ PayInErp(d, a) PROVE Books'
  BY <1>3, AcceptKeepsBooks DEF XeroPay, PayInErp
<1>4. ASSUME NEW c \in Client, Post(c) PROVE Books'
  BY <1>1, <1>4, AcceptKeepsBooks DEF Post
<1>5. ASSUME NEW c \in Client, NEW d \in Doc, NEW a, Fetch(c, d, a) PROVE Books'
  BY <1>1, <1>5 DEF Fetch
<1>6. CASE Update
  <2>1. PICK d \in Doc, s \in {"draft", "authorised", "paid", "voided", "other"} :
            SetStatus(d, StatusMap(s))
    BY <1>6 DEF Update, XeroUpdate
  <2>2. StatusMap(s) \in XeroStatuses
    BY DEF StatusMap, XeroStatuses
  <2> QED BY <2>1, <2>2, SetStatusKeepsBooks
<1>7. ASSUME NEW d \in Doc, Submit(d) \/ Delete(d) PROVE Books'
  <2>1. "SUBMITTED" \in XeroStatuses /\ "DELETED" \in XeroStatuses
    BY DEF XeroStatuses
  <2> QED BY <1>7, <2>1, SetStatusKeepsBooks DEF Submit, Delete
<1>8. CASE UseErp
  <2>1. PICK d \in Doc :
          \/ Submit(d) \/ Delete(d) \/ Send(d) \/ VoidQbo(d)
          \/ \E note \in Note : Annotate(d, note)
          \/ \E a \in Amounts : PayInErp(d, a) \/ Unpay(d, a)
    BY <1>8 DEF UseErp
  <2>2. "plain" \in Note
    BY DEF Note
  <2> QED BY <2>1, <2>2, <1>3, <1>7, UnpayKeepsBooks, MarksKeepBooks, VoidKeepsBooks
<1>9. CASE Pay
  BY <1>9, <1>3, <1>4, <1>5 DEF Pay
<1>10. CASE UNCHANGED vars
  BY <1>1, <1>10 DEF vars
<1> QED BY <1>2, <1>6, <1>8, <1>9, <1>10 DEF Next

LEMMA BooksTell == Books => PaidIffSettled /\ DraftUntouched /\ VoidNotPaid
<1> SUFFICES ASSUME Books PROVE PaidIffSettled /\ DraftUntouched /\ VoidNotPaid
  OBVIOUS
<1>1. ASSUME NEW d \in Docs
      PROVE  /\ Row(ledger[d], received[d], d \in voided)
             /\ ledger[d].balance \in Nat /\ ledger[d].total \in Nat /\ received[d] \in Nat
             /\ ledger[d].balance + received[d] = ledger[d].total
             /\ ledger[d].type \in {"invoice", "bill"}
  BY <1>1, RowOf DEF Row, Document
<1>2. ASSUME NEW d \in Docs, erp = "xero"
      PROVE  /\ ledger[d].total > 0 => (StatusTold(d) = "paid" <=> received[d] = ledger[d].total)
             /\ StatusTold(d) = "draft" => received[d] = 0 /\ ~ledger[d].sent
             /\ d \in voided => StatusTold(d) # "paid"
  <2>1. XeroRow(ledger[d], received[d], d \in voided)
    BY <1>1, <1>2 DEF Row
  <2>2. StatusTold(d) = XeroStatus(ledger[d])
    BY <1>2 DEF StatusTold
  <2>3. ledger[d].status = "PAID" <=> StatusTold(d) = "paid"
    BY <2>1, <2>2 DEF XeroRow, XeroStatus, XeroStatuses
  <2>4. ledger[d].total > 0 => (ledger[d].status = "PAID" <=> received[d] = ledger[d].total)
    BY <2>1, <1>1 DEF XeroRow
  <2>5. StatusTold(d) = "draft" => ledger[d].status \in {"DRAFT", "SUBMITTED"}
    BY <2>1, <2>2 DEF XeroRow, XeroStatus, XeroStatuses
  <2>6. StatusTold(d) = "draft" => received[d] = 0 /\ ~ledger[d].sent
    BY <2>1, <2>5 DEF XeroRow
  <2>7. d \in voided => StatusTold(d) # "paid"
    BY <2>1, <2>2 DEF XeroRow, XeroStatus
  <2> QED BY <2>3, <2>4, <2>6, <2>7
<1>3. ASSUME NEW d \in Docs, erp = "quickbooks"
      PROVE  /\ ledger[d].total > 0 /\ (ledger[d].note = "plain" \/ ledger[d].type = "bill") =>
                   (StatusTold(d) = "paid" <=> received[d] = ledger[d].total)
             /\ StatusTold(d) = "draft" => received[d] = 0 /\ ~ledger[d].sent
             /\ d \in voided => StatusTold(d) # "paid"
  <2>1. QboRow(ledger[d], d \in voided)
    BY <1>1, <1>3 DEF Row
  <2>2. ledger[d].balance = 0 <=> received[d] = ledger[d].total
    BY <1>1
  <2>3. ledger[d].balance = ledger[d].total <=> received[d] = 0
    BY <1>1
  <2>4. CASE ledger[d].type = "bill"
    BY <2>4, <2>1, <2>2, <1>3 DEF StatusTold, QboBillStatus, QboRow
  <2>5. CASE ledger[d].type = "invoice"
    BY <2>5, <2>1, <2>2, <2>3, <1>3 DEF StatusTold, QboDeriveStatus, QboRow
  <2> QED BY <2>4, <2>5, <1>1
<1>4. erp \in {"xero", "quickbooks"} /\ voided \subseteq Docs
  BY DEF Books
<1> QED BY <1>2, <1>3, <1>4 DEF PaidIffSettled, DraftUntouched, VoidNotPaid

-----------------------------------------------------------------------------
(***************************************************************************)
(* What the lines are worth.                                               *)
(***************************************************************************)

\* What the ERP makes of a line that is asked for.
EnteredLine(type, item) ==
    IF erp = "quickbooks" /\ type = "bill" THEN QboBillLine(item) ELSE XeroLine(item)

\* A document as it was asked for: a line for each item, their sum and the tax.
Entry(r, items) ==
    /\ DOMAIN r.lines = DOMAIN items /\ r.total = Size(r.lines) + r.tax
    /\ \A i \in DOMAIN items : r.lines[i] \in EnteredLine(r.type, items[i])

\* With the books, the inductive invariant: what was not voided still is as it
\* was asked for.
Entries ==
    /\ asked \in [Doc -> Seq(Item)]
    /\ paying \in [Client -> [doc : Doc, amount : Nat] \cup {NoDoc}]
    /\ \A d \in Docs \ voided : Entry(ledger[d], asked[d])

\* A step that leaves the lines of a document, its total and what was asked
\* for alone, or voids it, keeps the entries.
LEMMA LinesUntouched ==
    ASSUME Books, Books', Entries, NEW d, NEW q,
           UNCHANGED <<erp, asked>>, ledger' = [ledger EXCEPT ![d] = q],
           d \in Docs /\ voided \subseteq voided',
           \/ d \in voided'
           \/ /\ q.lines = ledger[d].lines /\ q.total = ledger[d].total
              /\ q.type = ledger[d].type /\ q.tax = ledger[d].tax,
           paying' \in [Client -> [doc : Doc, amount : Nat] \cup {NoDoc}]
    PROVE  Entries'
<1>1. \A e \in Doc \ {d} : ledger'[e] = ledger[e]
  BY DEF Books
<1>2. d \in Doc /\ ledger'[d] = q
  BY DEF Books, Docs
<1>3. ASSUME NEW e \in (Docs \ voided)' PROVE Entry(ledger[e], asked[e])'
  <2>1. CASE e = d
    <3>1. /\ ledger'[d].lines = ledger[d].lines /\ ledger'[d].total = ledger[d].total
          /\ ledger'[d].type = ledger[d].type /\ ledger'[d].tax = ledger[d].tax
      BY <1>2, <1>3, <2>1
    <3>2. Entry(ledger[d], asked[d])
      BY <1>3, <2>1 DEF Entries
    <3> QED BY <2>1, <3>1, <3>2 DEF Entry, EnteredLine
  <2>2. CASE e # d
    <3>1. e \in Docs \ voided /\ ledger'[e] = ledger[e]
      BY <1>1, <1>3, <2>2 DEF Docs
    <3>2. Entry(ledger[e], asked[e])
      BY <3>1 DEF Entries
    <3> QED BY <3>1, <3>2 DEF Entry, EnteredLine
  <2> QED BY <2>1, <2>2
<1> QED BY <1>3 DEF Entries

\* What is entered is entered as it was asked for.
LEMMA EnteredAsAsked ==
    ASSUME Books, Books', Entries, NEW d \in Doc, NEW type \in {"invoice", "bill"},
           NEW items \in Request, NEW sets, NEW st,
           sets = [i \in DOMAIN items |-> EnteredLine(type, items[i])],
           Enter(d, type, items, sets, st)
    PROVE  Entries'
<1>1. PICK ls \in OneOfEach(sets), tax \in Tax :
        /\ Size(ls) + tax \in 0 .. MaxTotal
        /\ ledger' = [ledger EXCEPT ![d] =
               [type |-> type, lines |-> ls, tax |-> tax, total |-> Size(ls) + tax,
                balance |-> Size(ls) + tax, status |-> st, sent |-> FALSE,
                note |-> "plain"]]
  BY DEF Enter
<1>2. asked' = [asked EXCEPT ![d] = items] /\ UNCHANGED <<erp, received, voided, paying>>
  BY DEF Enter
<1>3. items \in Seq(Item)
  BY DEF Request
<1>4. DOMAIN ls = DOMAIN items /\ \A i \in DOMAIN items : ls[i] \in EnteredLine(type, items[i])
  BY DEF OneOfEach
<1>5. /\ ledger'[d].lines = ls /\ ledger'[d].total = Size(ls) + tax
      /\ ledger'[d].tax = tax /\ ledger'[d].type = type
      /\ \A e \in Doc \ {d} : ledger'[e] = ledger[e]
  BY <1>1 DEF Books
<1>6. asked' \in [Doc -> Seq(Item)] /\ asked'[d] = items
      /\ \A e \in Doc \ {d} : asked'[e] = asked[e]
  BY <1>2, <1>3 DEF Entries
<1>7. ASSUME NEW e \in (Docs \ voided)' PROVE Entry(ledger[e], asked[e])'
  <2>1. CASE e = d
    BY <1>2, <1>4, <1>5, <1>6, <2>1 DEF Entry, EnteredLine
  <2>2. CASE e # d
    <3>1. e \in Docs \ voided /\ ledger'[e] = ledger[e] /\ asked'[e] = asked[e]
      BY <1>2, <1>5, <1>6, <1>7, <2>2 DEF Docs
    <3>2. Entry(ledger[e], asked[e])
      BY <3>1 DEF Entries
    <3> QED BY <1>2, <3>1, <3>2 DEF Entry, EnteredLine
  <2> QED BY <2>1, <2>2
<1> QED BY <1>2, <1>6, <1>7 DEF Entries

LEMMA CreateKeepsEntries ==
    ASSUME Books, Books', Entries, Create PROVE Entries'
<1>1. PICK d \in Doc, items \in Request :
          \/ QboCreateInvoice(d, items) \/ QboCreateBill(d, items)
          \/ XeroCreateInvoice(d, items) \/ XeroCreateBill(d, items)
  BY DEF Create
<1>2. \A item : QboLine(item) = XeroLine(item)
  BY DEF QboLine, XeroLine
<1>3. \E type \in {"invoice", "bill"} : \E st :
          Enter(d, type, items, [i \in DOMAIN items |-> EnteredLine(type, items[i])], st)
  <2>1. CASE QboCreateInvoice(d, items)
    <3>1. [i \in DOMAIN items |-> QboLine(items[i])]
              = [i \in DOMAIN items |-> EnteredLine("invoice", items[i])]
      BY <1>2 DEF EnteredLine
    <3> QED BY <2>1, <3>1 DEF QboCreateInvoice
  <2>2. CASE QboCreateBill(d, items)
    <3>1. [i \in DOMAIN items |-> QboBillLine(items[i])]
              = [i \in DOMAIN items |-> EnteredLine("bill", items[i])]
      BY <2>2 DEF EnteredLine, QboCreateBill
    <3> QED BY <2>2, <3>1 DEF QboCreateBill
  <2>3. CASE XeroCreateInvoice(d, items) \/ XeroCreateBill(d, items)
    <3>1. \A type : [i \in DOMAIN items |-> XeroLine(items[i])]
              = [i \in DOMAIN items |-> EnteredLine(type, items[i])]
      BY <2>3 DEF EnteredLine, XeroCreateInvoice, XeroCreateBill
    <3> QED BY <2>3, <3>1 DEF XeroCreateInvoice, XeroCreateBill
  <2> QED BY <1>1, <2>1, <2>2, <2>3
<1>4. PICK type \in {"invoice", "bill"} : \E st :
          Enter(d, type, items, [i \in DOMAIN items |-> EnteredLine(type, items[i])], st)
  BY <1>3
<1>5. PICK st :
          Enter(d, type, items, [i \in DOMAIN items |-> EnteredLine(type, items[i])], st)
  BY <1>4
<1> DEFINE sets == [i \in DOMAIN items |-> EnteredLine(type, items[i])]
<1>6. Enter(d, type, items, sets, st)
  BY <1>5
<1> QED BY <1>6, EnteredAsAsked

LEMMA EntriesKept == ASSUME Books, Books', Entries, [Next]_vars PROVE Entries'
<1>1. ASSUME UNCHANGED <<erp, ledger, asked, received, voided>>,
             paying' \in [Client -> [doc : Doc, amount : Nat] \cup {NoDoc}]
      PROVE  Entries'
  BY <1>1 DEF Entries, Docs, Entry, EnteredLine
<1>2. CASE Create
  BY <1>2, CreateKeepsEntries
<1>3. ASSUME NEW d, NEW a, Accept(d, a),
             paying' \in [Client -> [doc : Doc, amount : Nat] \cup {NoDoc}]
      PROVE  Entries'
  <2> DEFINE q == Settled(ledger[d], a)
  <2>1. /\ d \in Docs /\ ledger' = [ledger EXCEPT ![d] = q]
        /\ UNCHANGED <<erp, asked>> /\ voided \subseteq voided'
    BY <1>3 DEF Accept
  <2>2. ledger[d] \in Document
    BY <2>1, RowOf
  <2>3. /\ q.lines = ledger[d].lines /\ q.total = ledger[d].total
        /\ q.type = ledger[d].type /\ q.tax = ledger[d].tax
    BY <2>2 DEF Settled, Document
  <2> HIDE DEF q
  <2> QED BY <1>3, <2>1, <2>3, LinesUntouched
<1>4. paying' = paying => paying' \in [Client -> [doc : Doc, amount : Nat] \cup {NoDoc}]
  BY DEF Entries
<1>5. ASSUME NEW c \in Client, Post(c) PROVE Entries'
  <2>1. paying' \in [Client -> [doc : Doc, amount : Nat] \cup {NoDoc}]
    BY <1>5 DEF Post, Entries
  <2> QED BY <1>1, <1>3, <1>5, <2>1 DEF Post
<1>6. ASSUME NEW c \in Client, NEW d \in Doc, NEW a \in Amounts, Fetch(c, d, a) PROVE Entries'
  <2>1. a \in Nat
    BY DEF Amounts
  <2>2. paying' \in [Client -> [doc : Doc, amount : Nat] \cup {NoDoc}]
    BY <1>6, <2>1 DEF Fetch, Entries
  <2> QED BY <1>1, <1>6, <2>2 DEF Fetch
<1>7. CASE Pay
  BY <1>3, <1>4, <1>5, <1>6, <1>7 DEF Pay, XeroPay
<1>8. ASSUME NEW d, NEW to, SetStatus(d, to) PROVE Entries'
  <2> DEFINE q == [ledger[d] EXCEPT !.status = to]
  <2>1. /\ d \in Docs /\ ledger' = [ledger EXCEPT ![d] = q]
        /\ UNCHANGED <<erp, asked, paying>> /\ voided \subseteq voided'
    BY <1>8 DEF SetStatus
  <2>2. ledger[d] \in Document
    BY <2>1, RowOf
  <2>3. /\ q.lines = ledger[d].lines /\ q.total = ledger[d].total
        /\ q.type = ledger[d].type /\ q.tax = ledger[d].tax
    BY <2>2 DEF Document
  <2> HIDE DEF q
  <2> QED BY <1>4, <2>1, <2>3, LinesUntouched
<1>9. CASE Update
  BY <1>8, <1>9 DEF Update, XeroUpdate
<1>10. ASSUME NEW d \in Doc, NEW a, Unpay(d, a) PROVE Entries'
  <2> DEFINE q == Unsettled(ledger[d], a)
  <2>1. /\ d \in Docs /\ ledger' = [ledger EXCEPT ![d] = q]
        /\ UNCHANGED <<erp, asked, paying>> /\ voided \subseteq voided'
    BY <1>10 DEF Unpay
  <2>2. ledger[d] \in Document
    BY <2>1, RowOf
  <2>3. /\ q.lines = ledger[d].lines /\ q.total = ledger[d].total
        /\ q.type = ledger[d].type /\ q.tax = ledger[d].tax
    BY <2>2 DEF Unsettled, Document
  <2> HIDE DEF q
  <2> QED BY <1>4, <2>1, <2>3, LinesUntouched
<1>11. ASSUME NEW d \in Doc, NEW note \in Note, Send(d) \/ Annotate(d, note) PROVE Entries'
  <2>1. PICK b \in BOOLEAN, n \in Note :
            ledger' = [ledger EXCEPT ![d] = Marked(ledger[d], b, n)]
    BY <1>11, SendsAndNotes
  <2> DEFINE q == Marked(ledger[d], b, n)
  <2>2. d \in Docs /\ UNCHANGED <<erp, asked, paying>> /\ voided \subseteq voided'
    BY <1>11, SendsAndNotes
  <2>3. ledger[d] \in Document
    BY <2>2, RowOf
  <2>4. /\ q.lines = ledger[d].lines /\ q.total = ledger[d].total
        /\ q.type = ledger[d].type /\ q.tax = ledger[d].tax
    BY <2>3 DEF Document, Marked
  <2> HIDE DEF q
  <2>5. ledger' = [ledger EXCEPT ![d] = q]
    BY <2>1 DEF q
  <2> QED BY <1>4, <2>2, <2>4, <2>5, LinesUntouched
<1>12. ASSUME NEW d \in Doc, VoidQbo(d) PROVE Entries'
  <2> DEFINE q == Voided(ledger[d])
  <2>1. /\ d \in Docs /\ ledger' = [ledger EXCEPT ![d] = q]
        /\ UNCHANGED <<erp, asked, paying>> /\ voided \subseteq voided' /\ d \in voided'
    BY <1>12 DEF VoidQbo
  <2> HIDE DEF q
  <2> QED BY <1>4, <2>1, LinesUntouched
<1>13. CASE UseErp
  <2>1. PICK d \in Doc :
          \/ Submit(d) \/ Delete(d) \/ Send(d) \/ VoidQbo(d)
          \/ \E note \in Note : Annotate(d, note)
          \/ \E a \in Amounts : PayInErp(d, a) \/ Unpay(d, a)
    BY <1>13 DEF UseErp
  <2>2. "plain" \in Note
    BY DEF Note
  <2> QED BY <2>1, <2>2, <1>3, <1>4, <1>8, <1>10, <1>11, <1>12 DEF Submit, Delete, PayInErp
<1>14. CASE UNCHANGED vars
  BY <1>1, <1>4, <1>14 DEF vars
<1> QED BY <1>2, <1>7, <1>9, <1>13, <1>14 DEF Next

\* A money amount comes through cents and floats as it was.
LEMMA MoneyKept == ASSUME NEW c \in Nat PROVE MoneyToCents(c) = {c}
<1>1. CASE c = 0
  <2>1. Scaled(c) = {0} /\ (0 + 5) \div 10 = 0
    BY <1>1 DEF Scaled
  <2> QED BY <1>1, <2>1 DEF MoneyToCents
<1>2. CASE c # 0
  <2>1. Scaled(c) = (10 * c - 1) .. (10 * c + 1)
    BY <1>2 DEF Scaled
  <2>2. \A p \in (10 * c - 1) .. (10 * c + 1) : (p + 5) \div 10 = c
    OBVIOUS
  <2>3. 10 * c \in (10 * c - 1) .. (10 * c + 1)
    OBVIOUS
  <2> QED BY <2>1, <2>2, <2>3 DEF MoneyToCents
<1> QED BY <1>1, <1>2

\* The amount of a line is what was asked for it, within half a cent.
LEMMA LineClose ==
    ASSUME NEW type, NEW item \in Item, NEW l \in EnteredLine(type, item)
    PROVE  /\ l.amount \in Nat /\ item.unit_amount * item.quantity \in Nat
           /\ 2 * (Parts * l.amount - item.unit_amount * item.quantity) \in -Parts .. Parts
<1>1. item.unit_amount \in Nat /\ item.quantity \in Nat
  BY InvoicesAssumption DEF Item
<1> DEFINE n == item.unit_amount * item.quantity
<1>2. n \in Nat
  BY <1>1
<1>3. l.amount \in Rounded(n)
  BY DEF EnteredLine, QboBillLine, XeroLine
<1> HIDE DEF n
<1>4. l.amount \in Nat
  BY <1>2, <1>3, RoundedTyped
<1>5. 2 * (Parts * l.amount - n) \in -Parts .. Parts
  BY <1>3 DEF Rounded
<1> QED BY <1>2, <1>4, <1>5 DEF n

\* A document of the ledger that is not voided, taken apart.
LEMMA EntryOf ==
    ASSUME Books, Entries, NEW d \in Docs \ voided
    PROVE  /\ ledger[d] \in Document /\ asked[d] \in Seq(Item)
           /\ ledger[d].lines \in Seq(Line) /\ Len(ledger[d].lines) = Len(asked[d])
           /\ ledger[d].total \in Nat /\ ledger[d].tax \in Nat
           /\ Entry(ledger[d], asked[d])
<1>1. d \in Doc /\ ledger[d] \in Document
  BY RowOf
<1>2. /\ ledger[d].lines \in Seq(Line)
      /\ ledger[d].total \in Nat /\ ledger[d].tax \in Nat
  BY <1>1 DEF Document
<1>3. asked[d] \in Seq(Item) /\ Entry(ledger[d], asked[d])
  BY <1>1 DEF Entries
<1>4. DOMAIN ledger[d].lines = DOMAIN asked[d]
  BY <1>3 DEF Entry
<1>5. Len(ledger[d].lines) = Len(asked[d])
  BY <1>2, <1>3, <1>4
<1> QED BY <1>1, <1>2, <1>3, <1>5

LEMMA AmountsKept == ASSUME Books, Entries PROVE AmountKept
<1> SUFFICES ASSUME NEW d \in Docs \ voided, NEW a \in AmountTold(d)
             PROVE  2 * (Parts * (a - ledger[d].tax) - Charge(asked[d])) \in
                        -(Parts * Len(asked[d])) .. Parts * Len(asked[d])
  BY DEF AmountKept
<1> DEFINE items == asked[d]
           ls == ledger[d].lines
           D == 1 .. Len(items)
           f == [i \in DOMAIN ls |-> ls[i].amount]
           e == [i \in DOMAIN items |-> items[i].unit_amount * items[i].quantity]
<1>1. /\ items \in Seq(Item) /\ ls \in Seq(Line) /\ Len(ls) = Len(items)
      /\ ledger[d].total \in Nat /\ ledger[d].tax \in Nat /\ Entry(ledger[d], items)
  BY EntryOf
<1>2. a = ledger[d].total
  BY <1>1, MoneyKept DEF AmountTold
<1>3. ledger[d].total = Size(ls) + ledger[d].tax
  BY <1>1 DEF Entry
<1>4. DOMAIN items = D /\ DOMAIN ls = D /\ Len(items) \in Nat
  BY <1>1
<1>5. IsFiniteSet(D) /\ Cardinality(D) = Len(items)
  BY <1>4, FS_Interval
<1>6. \A i \in D : /\ f[i] \in Nat /\ e[i] \in Nat
                   /\ 2 * (Parts * f[i] - e[i]) \in -Parts .. Parts
  <2> SUFFICES ASSUME NEW i \in D
               PROVE  /\ f[i] \in Nat /\ e[i] \in Nat
                      /\ 2 * (Parts * f[i] - e[i]) \in -Parts .. Parts
    OBVIOUS
  <2>1. items[i] \in Item /\ ls[i] \in EnteredLine(ledger[d].type, items[i])
    BY <1>1, <1>4 DEF Entry
  <2>2. f[i] = ls[i].amount /\ e[i] = items[i].unit_amount * items[i].quantity
    BY <1>4
  <2> HIDE DEF f, e, items, ls
  <2> QED BY <2>1, <2>2, LineClose
<1>7. Size(ls) = SumFunction(f) /\ Charge(items) = SumFunction(e)
  BY DEF Size, Charge
<1>8. DOMAIN f = D /\ DOMAIN e = D /\ Parts \in Nat
  BY <1>4, InvoicesAssumption
<1> HIDE DEF f, e, items, ls, D
<1>9. 2 * (Parts * SumFunction(f) - SumFunction(e))
          \in -(Parts * Cardinality(D)) .. Parts * Cardinality(D)
  BY <1>5, <1>6, <1>8, SumFunctionClose
<1>10. SumFunction(f) \in Nat
  BY <1>5, <1>6, <1>8, SumFunctionTyped
<1>11. a - ledger[d].tax = SumFunction(f)
  BY <1>1, <1>2, <1>3, <1>7, <1>10
<1> QED BY <1>5, <1>7, <1>9, <1>11 DEF items

\* The line a client is told comes to the amount of the line in the ERP,
\* within half a cent: in Xero by the price and the quantity, of a bill in
\* QuickBooks as one of the whole amount.
LEMMA ToldLineClose ==
    ASSUME NEW type, NEW item \in Item, NEW l \in EnteredLine(type, item), NEW t,
           \/ erp = "xero" /\ t \in XeroLineTold(l)
           \/ erp = "quickbooks" /\ type = "bill" /\ t \in QboBillLineTold(l)
    PROVE  /\ t \in [quantity : Nat, unit_amount : Nat]
           /\ l.amount \in Nat /\ t.unit_amount * t.quantity \in Nat
           /\ 2 * (Parts * l.amount - t.unit_amount * t.quantity) \in -Parts .. Parts
<1>1. /\ l.amount \in Nat
      /\ 2 * (Parts * l.amount - item.unit_amount * item.quantity) \in -Parts .. Parts
  BY LineClose
<1>2. item.unit_amount \in Nat /\ item.quantity \in Nat /\ Parts \in Nat
  BY InvoicesAssumption DEF Item
<1>3. CASE erp = "xero" /\ t \in XeroLineTold(l)
  <2>1. l.qty = item.quantity /\ l.unit = item.unit_amount
    BY <1>3 DEF EnteredLine, XeroLine
  <2>2. MoneyToCents(l.unit) = {l.unit}
    BY <1>2, <2>1, MoneyKept
  <2>3. /\ t.quantity = item.quantity /\ t.unit_amount = item.unit_amount
        /\ t = [quantity |-> t.quantity, unit_amount |-> t.unit_amount]
    BY <1>3, <2>1, <2>2 DEF XeroLineTold
  <2>4. item.unit_amount * item.quantity \in Nat
    BY <1>2
  <2> QED BY <1>1, <1>2, <2>3, <2>4
<1>4. CASE erp = "quickbooks" /\ type = "bill" /\ t \in QboBillLineTold(l)
  <2>1. l.qty = 0
    BY <1>4 DEF EnteredLine, QboBillLine
  <2>2. MoneyToCents(l.amount) = {l.amount}
    BY <1>1, MoneyKept
  <2>3. /\ t.quantity = Parts /\ t.unit_amount = l.amount
        /\ t = [quantity |-> t.quantity, unit_amount |-> t.unit_amount]
    BY <1>4, <2>1, <2>2 DEF QboBillLineTold
  <2>4. l.amount * Parts \in Nat /\ Parts * l.amount = l.amount * Parts
    BY <1>1, <1>2
  <2>5. 2 * (Parts * l.amount - l.amount * Parts) \in -Parts .. Parts
    BY <1>2, <2>4
  <2> QED BY <1>1, <1>2, <2>3, <2>4, <2>5
<1> QED BY <1>3, <1>4

LEMMA ToldLinesAddUp == ASSUME Books, Entries PROVE LinesAddUp
<1> SUFFICES ASSUME NEW d \in Docs \ voided, erp = "xero" \/ ledger[d].type = "bill",
                    NEW a \in AmountTold(d), NEW ls \in LinesTold(d)
             PROVE  2 * (Parts * (a - ledger[d].tax) - Charge(ls)) \in
                        -(Parts * Len(ls)) .. Parts * Len(ls)
  BY DEF LinesAddUp
<1> DEFINE items == asked[d]
           ks == ledger[d].lines
           D == 1 .. Len(items)
           f == [i \in DOMAIN ks |-> ks[i].amount]
           e == [i \in DOMAIN ls |-> ls[i].unit_amount * ls[i].quantity]
           told(l) == IF erp = "xero" THEN XeroLineTold(l)
                      ELSE IF ledger[d].type = "bill" THEN QboBillLineTold(l)
                      ELSE QboLineTold(l)
<1>1. /\ items \in Seq(Item) /\ ks \in Seq(Line) /\ Len(ks) = Len(items)
      /\ ledger[d].total \in Nat /\ ledger[d].tax \in Nat /\ Entry(ledger[d], items)
  BY EntryOf
<1>2. a = ledger[d].total /\ ledger[d].total = Size(ks) + ledger[d].tax
  BY <1>1, MoneyKept DEF AmountTold, Entry
<1>3. DOMAIN items = D /\ DOMAIN ks = D /\ Len(items) \in Nat
  BY <1>1
<1>4. IsFiniteSet(D) /\ Cardinality(D) = Len(items)
  BY <1>3, FS_Interval
<1>5. DOMAIN ls = D /\ ls = [i \in D |-> ls[i]] /\ \A i \in D : ls[i] \in told(ks[i])
  BY <1>3 DEF LinesTold, OneOfEach
<1>6. erp \in {"xero", "quickbooks"}
  BY DEF Books
<1>7. ASSUME NEW i \in D
      PROVE  /\ ls[i] \in [quantity : Nat, unit_amount : Nat]
             /\ f[i] \in Nat /\ e[i] \in Nat
             /\ 2 * (Parts * f[i] - e[i]) \in -Parts .. Parts
  <2>1. items[i] \in Item /\ ks[i] \in EnteredLine(ledger[d].type, items[i])
    BY <1>1, <1>3 DEF Entry
  <2>2. f[i] = ks[i].amount /\ e[i] = ls[i].unit_amount * ls[i].quantity
    BY <1>3, <1>5
  <2>3. \/ erp = "xero" /\ ls[i] \in XeroLineTold(ks[i])
        \/ erp = "quickbooks" /\ ledger[d].type = "bill" /\ ls[i] \in QboBillLineTold(ks[i])
    BY <1>5, <1>6
  <2> HIDE DEF f, e, items, ks, told
  <2> QED BY <2>1, <2>2, <2>3, ToldLineClose
<1>8. Size(ks) = SumFunction(f) /\ Charge(ls) = SumFunction(e)
  BY DEF Size, Charge
<1>9. DOMAIN f = D /\ DOMAIN e = D /\ Parts \in Nat
  BY <1>3, <1>5, InvoicesAssumption
<1>10. Len(ls) = Len(items)
  <2> DEFINE T == [quantity : Nat, unit_amount : Nat]
             n == Len(items)
  <2>1. ls \in [1 .. n -> T] /\ n \in Nat
    BY <1>3, <1>5, <1>7
  <2> HIDE DEF T, n
  <2>2. ls \in Seq(T)
    BY <2>1
  <2> USE DEF n
  <2> QED BY <1>3, <1>5, <2>2
<1> HIDE DEF f, e, items, ks, D, told
<1>11. 2 * (Parts * SumFunction(f) - SumFunction(e))
           \in -(Parts * Cardinality(D)) .. Parts * Cardinality(D)
  BY <1>4, <1>7, <1>9, SumFunctionClose
<1>12. SumFunction(f) \in Nat
  BY <1>4, <1>7, <1>9, SumFunctionTyped
<1>13. a - ledger[d].tax = SumFunction(f)
  BY <1>1, <1>2, <1>8, <1>12
<1> QED BY <1>4, <1>8, <1>10, <1>11, <1>13

\* A client is told one of the four statuses.
LEMMA ToldStatus ==
    ASSUME Books, NEW d \in Docs
    PROVE  StatusTold(d) \in {"draft", "authorised", "paid", "voided"}
BY DEF StatusTold, XeroStatus, QboBillStatus, QboDeriveStatus

\* The inductive invariant holds in every state.
LEMMA BooksAlways == Spec => [](Books /\ Entries)
<1>1. Init => Books /\ Entries
  BY DEF Init, Books, Entries, Docs
<1>2. Books /\ Entries /\ [Next]_vars => Books' /\ Entries'
  BY BooksKept, EntriesKept
<1> QED BY <1>1, <1>2, PTL DEF Spec

\* The state stays well formed whatever is asked for, paid, sent, approved,
\* voided or annotated, for every set of documents, amounts and quantities.
THEOREM InvoicesTyped == Spec => []TypeOK
<1>1. Books /\ Entries => TypeOK
  <2> SUFFICES ASSUME Books, Entries PROVE TypeOK
    OBVIOUS
  <2>1. ledger \in [Doc -> Document \cup {NoDoc}]
    BY RowOf DEF Books, Docs
  <2> QED BY <2>1, ToldStatus DEF Books, Entries, TypeOK
<1> QED BY <1>1, BooksAlways, PTL

\* Whatever is paid, removed or released by a void, and in whatever order: a
\* client is told "paid" exactly when all is paid (qbo_derive_status,
\* qbo_bill_status, xero_status).
THEOREM StatusAlwaysTrue == Spec => []PaidIffSettled
BY BooksTell, BooksAlways, PTL

\* A client is told "draft" only of what is unpaid and unsent
\* (EmailStatus and the order of the tests in qbo_derive_status).
THEOREM DraftsAlwaysUntouched == Spec => []DraftUntouched
BY BooksTell, BooksAlways, PTL

\* A voided document is told to be paid to nobody, whatever had been paid of it
\* and whatever note it is given since (qbo_derive_status, xero_status).
THEOREM VoidsNeverPaid == Spec => []VoidNotPaid
BY BooksTell, BooksAlways, PTL

\* A client is told the amount that its lines were asked for and the tax that the
\* ERP added, within half a cent for each line, whatever the tax, however many lines there are and however they round
\* (build_qbo_lines_from_items, money_to_cents).
THEOREM AmountsAlwaysKept == Spec => []AmountKept
BY AmountsKept, BooksAlways, PTL

\* The lines a client is told and the ERP's tax add up to the amount it is told,
\* within half a cent for each line, except of QuickBooks invoices (xero_line_items,
\* qbo_bill_line_items).
THEOREM LinesAlwaysAddUp == Spec => []LinesAddUp
BY ToldLinesAddUp, BooksAlways, PTL
=============================================================================

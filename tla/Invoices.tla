------------------------------ MODULE Invoices ------------------------------
(***************************************************************************)
(* Invoices and bills: what a client asks for (models/schemas.py), what is *)
(* sent for it (adapters/qbo.py, adapters/xero.py), what the ERP makes of  *)
(* it while payments come in and its users send, approve, void and annotate*)
(* it, and what a client is then told of it (utils/transforms.py,          *)
(* config/mappings).  Money is in cents, quantities in 1/Parts.            *)
(***************************************************************************)
EXTENDS Integers, FiniteSetsExt, SequencesExt

CONSTANTS
    Doc,      \* the ids of documents
    Client,   \* those who record payments
    Unit,     \* the unit amounts that are asked for
    Quantity, \* the quantities that are asked for
    Parts,    \* a quantity of one
    TaxType,  \* the tax types that are asked for a line: both adapters drop them
    Tax,      \* the taxes an ERP may add to a document
    MaxLines, \* bound: lines of a document
    MaxTotal, \* the largest total an ERP takes
    NoDoc     \* no document

\* A line in the ERP; a bill's line in QBO has no quantity and no unit price.
Line == [amount : Nat, qty : Nat, unit : Nat]

XeroStatuses == {"DRAFT", "SUBMITTED", "AUTHORISED", "PAID", "VOIDED", "DELETED"}

\* QBO's private note: one that holds the letters "void", or any other.
Note == {"plain", "void"}

Document == [type : {"invoice", "bill"}, lines : Seq(Line), tax : Nat,
             total : Nat, balance : Nat, status : XeroStatuses \cup {"none"},
             sent : BOOLEAN, note : Note]

ASSUME InvoicesAssumption ==
    /\ Unit \subseteq Nat \ {0} /\ Quantity \subseteq Nat \ {0}
    /\ Parts \in Nat \ {0} /\ Tax \subseteq Nat
    /\ MaxLines \in Nat \ {0} /\ MaxTotal \in Nat
    /\ NoDoc \notin Document

VARIABLES
    erp,      \* ERP_TYPE
    ledger,   \* the ERP's documents
    asked,    \* the lines a document was asked for with
    received, \* what has been paid of a document
    voided,   \* the documents that were voided or deleted
    paying    \* the payment each client has looked up the invoice for

vars == <<erp, ledger, asked, received, voided, paying>>

\* LineItem, and the request bodies: at least one line, both fields positive.
Item == [unit_amount : Unit, quantity : Quantity, tax_type : TaxType]
Request == UNION {[1 .. n -> Item] : n \in 1 .. MaxLines}

Docs == {d \in Doc : ledger[d] # NoDoc}

Size(ls) == SumFunction([i \in DOMAIN ls |-> ls[i].amount])

\* The sequences with one member of each set of S.
OneOfEach(S) == {f \in [DOMAIN S -> UNION Range(S)] : \A i \in DOMAIN S : f[i] \in S[i]}

-----------------------------------------------------------------------------
(***************************************************************************)
(* What is sent.  Neither adapter sends the tax type of a line.            *)
(***************************************************************************)

\* round(unit * quantity, 2) over binary floats: a tie may go either way.
Rounded(n) == {r \in {n \div Parts, n \div Parts + 1} :
                  2 * (Parts * r - n) \in -Parts .. Parts}

\* An invoice's line in QBO: the amount of the line is computed here.
QboLine(item) ==
    [amount : Rounded(item.unit_amount * item.quantity),
     qty : {item.quantity}, unit : {item.unit_amount}]

\* Mutant of QboBillLine: the quantity is sent as well.
QboBillLineWithQty(item) == QboLine(item)

\* A bill's line in QBO: the amount of the line only.
QboBillLine(item) ==
    [amount : Rounded(item.unit_amount * item.quantity), qty : {0}, unit : {0}]

\* A line in Xero, which computes the amount of the line itself.
XeroLine(item) ==
    [amount : Rounded(item.unit_amount * item.quantity),
     qty : {item.quantity}, unit : {item.unit_amount}]

\* The ERP enters a document, or it refuses and nothing changes.  It adds the
\* tax of its accounts, products and customers to the lines.
Enter(d, type, items, sets, status) ==
    /\ d \in Doc \ Docs
    /\ \E ls \in OneOfEach(sets), tax \in Tax :
        LET total == Size(ls) + tax IN
        /\ total \in 0 .. MaxTotal /\ (Size(ls) = 0 => tax = 0)
        /\ ledger' = [ledger EXCEPT ![d] =
               [type |-> type, lines |-> ls, tax |-> tax, total |-> total,
                balance |-> total, status |-> status, sent |-> FALSE, note |-> "plain"]]
    /\ asked' = [asked EXCEPT ![d] = items]
    /\ UNCHANGED <<erp, received, voided, paying>>

QboCreateInvoice(d, items) ==
    /\ erp = "quickbooks"
    /\ Enter(d, "invoice", items, [i \in DOMAIN items |-> QboLine(items[i])], "none")

QboCreateBill(d, items) ==
    /\ erp = "quickbooks"
    /\ Enter(d, "bill", items, [i \in DOMAIN items |-> QboBillLine(items[i])], "none")

XeroCreateInvoice(d, items) ==
    /\ erp = "xero"
    /\ Enter(d, "invoice", items, [i \in DOMAIN items |-> XeroLine(items[i])], "DRAFT")

XeroCreateBill(d, items) ==
    /\ erp = "xero"
    /\ Enter(d, "bill", items, [i \in DOMAIN items |-> XeroLine(items[i])], "DRAFT")

-----------------------------------------------------------------------------
(***************************************************************************)
(* Payments.                                                               *)
(***************************************************************************)

\* A payment of a is entered; Xero marks the document as paid with the last.
Settled(r, a) ==
    [r EXCEPT !.balance = @ - a,
              !.status = IF erp = "xero" /\ a = r.balance THEN "PAID" ELSE @]

\* The ERP takes a payment of a for d: never more than is left to pay, and in
\* Xero of an approved document only.
Accept(d, a) ==
    /\ d \in Docs
    /\ a \in 1 .. ledger[d].balance
    /\ erp = "xero" => ledger[d].status = "AUTHORISED"
    /\ ledger' = [ledger EXCEPT ![d] = Settled(@, a)]
    /\ received' = [received EXCEPT ![d] = @ + a]
    /\ UNCHANGED <<erp, asked, voided>>

\* record_payment of Xero: one call.
XeroPay(d, a) == erp = "xero" /\ Accept(d, a) /\ UNCHANGED paying

\* record_payment of QBO: the invoice is fetched for its customer.  A bill is
\* not found under invoice; no balance is compared.
Fetch(c, d, a) ==
    /\ erp = "quickbooks" /\ paying[c] = NoDoc
    /\ d \in Docs /\ ledger[d].type = "invoice"
    /\ paying' = [paying EXCEPT ![c] = [doc |-> d, amount |-> a]]
    /\ UNCHANGED <<erp, ledger, asked, received, voided>>

\* ... and the payment is posted; the ERP may have refused it or the call
\* may fail.
Post(c) ==
    /\ paying[c] # NoDoc
    /\ \/ Accept(paying[c].doc, paying[c].amount)
       \/ UNCHANGED <<erp, ledger, asked, received, voided>>
    /\ paying' = [paying EXCEPT ![c] = NoDoc]

-----------------------------------------------------------------------------
(***************************************************************************)
(* Updates, and what the ERP's users do.                                   *)
(***************************************************************************)

\* status_map of Xero's update_invoice; any other word means DRAFT.
StatusMap(s) ==
    CASE s = "authorised" -> "AUTHORISED"
      [] s = "paid" -> "PAID"
      [] s = "voided" -> "VOIDED"
      [] OTHER -> "DRAFT"

\* The changes of status that Xero allows; PAID it sets itself.
Allowed(r, to) ==
    \/ r.status \in {"DRAFT", "SUBMITTED"} /\
           to \in {"DRAFT", "SUBMITTED", "AUTHORISED", "DELETED"}
    \/ r.status = "AUTHORISED" /\ r.balance = r.total /\ to = "VOIDED"

SetStatus(d, to) ==
    /\ erp = "xero" /\ d \in Docs /\ Allowed(ledger[d], to)
    /\ ledger' = [ledger EXCEPT ![d] = [@ EXCEPT !.status = to]]
    /\ voided' = IF to \in {"VOIDED", "DELETED"} THEN voided \cup {d} ELSE voided
    /\ UNCHANGED <<erp, asked, received, paying>>

\* update_invoice of Xero.  QBO's ignores a status.
XeroUpdate(d, s) == SetStatus(d, StatusMap(s))

Submit(d) == SetStatus(d, "SUBMITTED")
Delete(d) == SetStatus(d, "DELETED")

\* An invoice is sent to the customer: EmailStatus.
Send(d) ==
    /\ erp = "quickbooks" /\ d \in Docs /\ ledger[d].type = "invoice"
    /\ ledger' = [ledger EXCEPT ![d] = [@ EXCEPT !.sent = TRUE]]
    /\ UNCHANGED <<erp, asked, received, voided, paying>>

Zero(l) == [l EXCEPT !.amount = 0]
Voided(r) ==
    [r EXCEPT !.lines = [i \in DOMAIN r.lines |-> Zero(r.lines[i])],
              !.tax = 0, !.total = 0, !.balance = 0, !.note = "void"]

\* QBO voids an invoice: its amounts become 0, its payments are released and
\* its note says so.
VoidQbo(d) ==
    /\ erp = "quickbooks" /\ d \in Docs \ voided /\ ledger[d].type = "invoice"
    /\ ledger' = [ledger EXCEPT ![d] = Voided(@)]
    /\ received' = [received EXCEPT ![d] = 0]
    /\ voided' = voided \cup {d}
    /\ UNCHANGED <<erp, asked, paying>>

\* The private note of a document, voided or not, is replaced by another.
Annotate(d, note) ==
    /\ erp = "quickbooks" /\ d \in Docs
    /\ ledger' = [ledger EXCEPT ![d] = [@ EXCEPT !.note = note]]
    /\ UNCHANGED <<erp, asked, received, voided, paying>>

PayInErp(d, a) == Accept(d, a) /\ UNCHANGED paying

Unsettled(r, a) ==
    [r EXCEPT !.balance = @ + a,
              !.status = IF erp = "xero" THEN "AUTHORISED" ELSE @]

\* A payment is removed in the ERP.
Unpay(d, a) ==
    /\ d \in Docs /\ a \in 1 .. received[d]
    /\ ledger' = [ledger EXCEPT ![d] = Unsettled(@, a)]
    /\ received' = [received EXCEPT ![d] = @ - a]
    /\ UNCHANGED <<erp, asked, voided, paying>>

-----------------------------------------------------------------------------
(***************************************************************************)
(* What is told.                                                           *)
(***************************************************************************)

\* float(value) * 100, in tenths of a cent: a binary float may be next to it.
Scaled(c) == IF c = 0 THEN {0} ELSE (10 * c - 1) .. (10 * c + 1)

\* Mutant of MoneyToCents: int() without round().
MoneyTruncated(c) == {p \div 10 : p \in Scaled(c)}

MoneyToCents(c) == {(p + 5) \div 10 : p \in Scaled(c)}

\* Mutant of XeroStatus: a status without a translation is passed on.
XeroStatusPassed(r) ==
    CASE r.status = "DRAFT" -> "draft"
      [] r.status = "AUTHORISED" -> "authorised"
      [] r.status = "PAID" -> "paid"
      [] r.status \in {"VOIDED", "DELETED"} -> "voided"
      [] OTHER -> "submitted"

XeroStatus(r) ==
    CASE r.status = "AUTHORISED" -> "authorised"
      [] r.status = "PAID" -> "paid"
      [] r.status \in {"VOIDED", "DELETED"} -> "voided"
      [] OTHER -> "draft"

\* Mutants of QboDeriveStatus: part paid is taken for paid, a sent invoice
\* for a draft, and nothing to pay for paid.
QboStatusPartPaid(r) ==
    IF r.note = "void" THEN "voided"
    ELSE IF r.balance < r.total THEN "paid"
    ELSE IF ~r.sent THEN "draft" ELSE "authorised"
QboStatusSentDraft(r) ==
    IF r.note = "void" THEN "voided"
    ELSE IF r.total > 0 /\ r.balance = 0 THEN "paid"
    ELSE IF r.balance = r.total THEN "draft" ELSE "authorised"
QboStatusNothingLeft(r) ==
    IF r.note = "void" THEN "voided"
    ELSE IF r.balance = 0 THEN "paid"
    ELSE IF ~r.sent /\ r.balance = r.total THEN "draft" ELSE "authorised"

\* The status of a QBO invoice is derived: a note that holds "void" first,
\* then the balance, then whether it was sent.
QboDeriveStatus(r) ==
    IF r.note = "void" THEN "voided"
    ELSE IF r.total > 0 /\ r.balance = 0 THEN "paid"
    ELSE IF ~r.sent /\ r.balance = r.total THEN "draft"
    ELSE "authorised"

QboBillStatus(r) == IF r.balance = 0 THEN "paid" ELSE "authorised"

StatusTold(d) ==
    IF erp = "xero" THEN XeroStatus(ledger[d])
    ELSE IF ledger[d].type = "bill" THEN QboBillStatus(ledger[d])
    ELSE QboDeriveStatus(ledger[d])

AmountTold(d) == MoneyToCents(ledger[d].total)

\* The lines: QBO's amount of the line is passed as the unit amount, and a
\* missing quantity is one.
XeroLineTold(l) == [quantity : {l.qty}, unit_amount : MoneyToCents(l.unit)]
QboLineTold(l) == [quantity : {l.qty}, unit_amount : MoneyToCents(l.amount)]
QboBillLineTold(l) ==
    [quantity : {IF l.qty = 0 THEN Parts ELSE l.qty}, unit_amount : MoneyToCents(l.amount)]

LinesTold(d) ==
    LET told(l) == IF erp = "xero" THEN XeroLineTold(l)
                   ELSE IF ledger[d].type = "bill" THEN QboBillLineTold(l)
                   ELSE QboLineTold(l)
    IN OneOfEach([i \in DOMAIN ledger[d].lines |-> told(ledger[d].lines[i])])

-----------------------------------------------------------------------------

Init ==
    /\ erp \in {"xero", "quickbooks"}
    /\ ledger = [d \in Doc |-> NoDoc]
    /\ asked = [d \in Doc |-> <<>>]
    /\ received = [d \in Doc |-> 0]
    /\ voided = {}
    /\ paying = [c \in Client |-> NoDoc]

Amounts == 1 .. Max({ledger[d].total : d \in Docs} \cup {0})

Create ==
    \E d \in Doc, items \in Request :
        \/ QboCreateInvoice(d, items) \/ QboCreateBill(d, items)
        \/ XeroCreateInvoice(d, items) \/ XeroCreateBill(d, items)

Pay ==
    \/ \E d \in Doc, a \in Amounts : XeroPay(d, a)
    \/ \E c \in Client, d \in Doc, a \in Amounts : Fetch(c, d, a)
    \/ \E c \in Client : Post(c)

Update == \E d \in Doc, s \in {"draft", "authorised", "paid", "voided", "other"} : XeroUpdate(d, s)

UseErp ==
    \E d \in Doc :
        \/ Submit(d) \/ Delete(d) \/ Send(d) \/ VoidQbo(d)
        \/ \E note \in Note : Annotate(d, note)
        \/ \E a \in Amounts : PayInErp(d, a) \/ Unpay(d, a)

Next == Create \/ Pay \/ Update \/ UseErp

Spec == Init /\ [][Next]_vars

-----------------------------------------------------------------------------

\* Every variable has its type, and so has every status that is told.
TypeOK ==
    /\ erp \in {"xero", "quickbooks"}
    /\ ledger \in [Doc -> Document \cup {NoDoc}]
    /\ asked \in [Doc -> Seq(Item)]
    /\ received \in [Doc -> Nat]
    /\ voided \subseteq Docs
    /\ paying \in [Client -> [doc : Doc, amount : Nat] \cup {NoDoc}]
    /\ \A d \in Docs : StatusTold(d) \in {"draft", "authorised", "paid", "voided"}

\* A document that is worth something is told to be paid exactly when all of it
\* has been paid, whatever payments were made, removed or released by a void
\* (qbo_derive_status, qbo_bill_status, xero_status).  A QBO invoice with "void"
\* in its note is told to be voided whatever was paid.
PaidIffSettled ==
    \A d \in Docs :
        ledger[d].total > 0 /\ (ledger[d].note = "plain" \/ ledger[d].type = "bill") =>
            (StatusTold(d) = "paid" <=> received[d] = ledger[d].total)

\* Of a document that is told to be a draft nothing has been paid and nobody has
\* sent it (EmailStatus and the order of the tests in qbo_derive_status).
DraftUntouched ==
    \A d \in Docs : StatusTold(d) = "draft" =>
        received[d] = 0 /\ ~ledger[d].sent

\* A voided document is not told to be paid, whatever had been paid of it, and
\* whatever its note says since: QBO leaves a total and a balance of 0, of which
\* nothing is left to pay (total > 0 in qbo_derive_status, xero_status).
VoidNotPaid == \A d \in voided : StatusTold(d) # "paid"

Charge(items) ==
    SumFunction([i \in DOMAIN items |-> items[i].unit_amount * items[i].quantity])

\* The amount that is told of a document is what its lines were asked for and
\* the tax that the ERP added, within half a cent for each line: nothing is lost
\* on the way through cents, floats and decimals (build_qbo_lines_from_items,
\* money_to_cents).
AmountKept ==
    \A d \in Docs \ voided : \A a \in AmountTold(d) :
        2 * (Parts * (a - ledger[d].tax) - Charge(asked[d])) \in
            -(Parts * Len(asked[d])) .. Parts * Len(asked[d])

\* The lines that are told and the tax in the ERP, which is not told, add up to
\* the amount that is told, within half a cent for each line, except of invoices
\* in QBO (xero_line_items, qbo_bill_line_items).
LinesAddUp ==
    \A d \in Docs \ voided :
        erp = "xero" \/ ledger[d].type = "bill" =>
            \A a \in AmountTold(d), ls \in LinesTold(d) :
                2 * (Parts * (a - ledger[d].tax) - Charge(ls)) \in
                    -(Parts * Len(ls)) .. Parts * Len(ls)

=============================================================================

-------------------------- MODULE BillingDocuments --------------------------
(***************************************************************************)
(* The papers one account gets: numbered invoices and receipts with their  *)
(* PDFs, and the monthly statements of its credit (pkg/billing service.go, *)
(* statement.go, topups.go, pdf/).                                         *)
(*                                                                         *)
(* A clerk is a request or a job that writes in one transaction: it reads  *)
(* what it needs, begins, takes a number, and commits or rolls back.  A    *)
(* row of the ledger bears the month its transaction began in, but a       *)
(* forfeiture bears the month in which the credit lapsed.  Every row is of *)
(* one unit; what is collected for an invoice is in InvoiceCharging, which *)
(* lot is drawn in CreditLedger.                                           *)
(***************************************************************************)
EXTENDS Integers, FiniteSets, Sequences

CONSTANTS
  Clerks,        \* requests and jobs that write at a time
  MaxMonth,      \* bound: months
  MaxDocs,       \* bound: documents
  MaxUsage,      \* bound: usage records
  MaxNames,      \* bound: names the customer has had
  MaxMisses      \* bound: transactions rolled back, and PDFs not made

ASSUME DocumentsAssumption ==
  /\ {MaxMonth, MaxDocs, MaxUsage, MaxNames, MaxMisses} \subseteq Nat
  /\ MaxMonth > 0

VARIABLES
  month,       \* now
  name,        \* of the customer, the latest of its names
  usage,       \* usage[r]: the months a usage record begins and ends in
  entries,      \* rows of billing.credit_transactions
  lapsing,     \* a grant that lapses with the first month has not been forfeited
  counter,     \* committed: billing.invoice_counters
  clerk,       \* clerk[c]: its task, and where it is
  docs,        \* rows of billing.invoices
  printing,    \* printing[d]: where the PDF of document d is on its way
  files,       \* the bucket: files[number of a document]
  held,        \* what the customer has downloaded
  reader,      \* a statement being read
  settled,     \* settled[m]: statements of a month that was over for good when read
  misses       \* failures so far

documentVars == <<month, name, usage, entries, lapsing, counter, clerk, docs, printing, files,
                  held, reader, settled, misses>>

Series == {"INV", "RCT"}
Months == 1 .. MaxMonth
Idle   == [at |-> "idle"]

\* Receipts have a series of their own.
SeriesOf(task) == IF task = "purchase" THEN "RCT" ELSE "INV"

\* A record counts for the period that has it whole.
Within(r, m) == usage[r].from >= m /\ usage[r].to <= m

UsageIn(m) == {r \in DOMAIN usage : Within(r, m)}

DocumentsInit ==
  /\ month = 1 /\ name = 1
  /\ usage = << >>
  /\ entries = <<[stamp |-> 1, kind |-> "grant", of |-> 0]>>
  /\ lapsing = TRUE
  /\ counter = [s \in Series |-> 0]
  /\ clerk = [c \in Clerks |-> Idle]
  /\ docs = << >> /\ printing = << >>
  /\ files = {} /\ held = {}
  /\ reader = Idle
  /\ settled = [m \in Months |-> {}]
  /\ misses = 0

Miss == misses < MaxMisses /\ misses' = misses + 1

-----------------------------------------------------------------------------
(* What goes on around.                                                     *)

NextMonth ==
  /\ month < MaxMonth
  /\ month' = month + 1
  /\ UNCHANGED <<name, usage, entries, lapsing, counter, clerk, docs, printing, files, held,
                 reader, settled, misses>>

Rename ==
  /\ name < MaxNames
  /\ name' = name + 1
  /\ UNCHANGED <<month, usage, entries, lapsing, counter, clerk, docs, printing, files, held,
                 reader, settled, misses>>

\* A record may begin in the month before.
RecordUsage ==
  /\ Len(usage) < MaxUsage
  /\ \E m \in {month - 1, month} \cap Months :
        usage' = Append(usage, [from |-> m, to |-> month])
  /\ UNCHANGED <<month, name, entries, lapsing, counter, clerk, docs, printing, files, held,
                 reader, settled, misses>>

\* ExpireCredits: the row is dated to when the credit lapsed.
ExpireCredits ==
  /\ lapsing /\ month > 1
  /\ lapsing' = FALSE
  /\ entries' = Append(entries, [stamp |-> 1, kind |-> "expiry", of |-> 0])
  /\ UNCHANGED <<month, name, usage, counter, clerk, docs, printing, files, held, reader,
                 settled, misses>>

-----------------------------------------------------------------------------
(* A document: what it shows is read before its transaction.                *)

\* The customer as it is now; a document keeps it.
BillTo == name

\* A period that is invoiced may end today, and not later.
EndsByToday(m) == m <= month

Prepare(c, task, m, lines) ==
  /\ clerk[c] = Idle
  /\ Len(docs) + Cardinality({k \in Clerks : clerk[k] # Idle}) < MaxDocs
  /\ clerk' = [clerk EXCEPT ![c] =
                 [at |-> "prepared", task |-> task, month |-> m, who |-> BillTo, lines |-> lines]]
  /\ UNCHANGED <<month, name, usage, entries, lapsing, counter, docs, printing, files, held,
                 reader, settled, misses>>

\* An account's usage invoice, if anything was used in the period.
CreateAccountUsageInvoice(c) ==
  \E m \in Months : EndsByToday(m) /\ UsageIn(m) # {} /\ Prepare(c, "usage", m, UsageIn(m))

\* An invoice by hand, with lines of the operator's.
CreateManualInvoice(c) == \E m \in Months : EndsByToday(m) /\ Prepare(c, "manual", m, {})

\* What a project used; the project here has made all records.
ProjectUsage(m) == UsageIn(m)

\* A project's own invoice: of any period, used or not.
CreateInvoice(c) == \E m \in Months : Prepare(c, "project", m, ProjectUsage(m))

\* A payment that is settled gets a receipt of that day.
SettleTopUp(c) == Prepare(c, "purchase", month, {})

\* A draw for a record that no draw was made for.
Drawn(r)   == \E i \in DOMAIN entries : entries[i].kind = "consumption" /\ entries[i].of = r
Drawing(r) == \E c \in Clerks : clerk[c].at = "begun" /\ clerk[c].lines = {r}

ConsumeCredit(c) ==
  /\ clerk[c] = Idle
  /\ \E r \in DOMAIN usage :
        /\ ~Drawn(r) /\ ~Drawing(r)
        /\ clerk' = [clerk EXCEPT ![c] =
                       [at |-> "begun", task |-> "draw", lines |-> {r}, stamp |-> month]]
  /\ UNCHANGED <<month, name, usage, entries, lapsing, counter, docs, printing, files, held,
                 reader, settled, misses>>

\* NOW() in a row will be the time at which its transaction begins.
BeginTx(c) ==
  /\ clerk[c].at = "prepared"
  /\ clerk' = [clerk EXCEPT ![c] =
                 [at |-> "begun", task |-> @.task, month |-> @.month, who |-> @.who,
                  lines |-> @.lines, stamp |-> month]]
  /\ UNCHANGED <<month, name, usage, entries, lapsing, counter, docs, printing, files, held,
                 reader, settled, misses>>

\* The upsert of the counter holds its row until the transaction ends.
Holds(c, s) == clerk[c].at = "numbered" /\ SeriesOf(clerk[c].task) = s

AllocateDocumentNumber(c) ==
  /\ clerk[c].at = "begun" /\ clerk[c].task # "draw"
  /\ \A k \in Clerks : ~Holds(k, SeriesOf(clerk[c].task))
  /\ clerk' = [clerk EXCEPT ![c].at = "numbered"]
  /\ UNCHANGED <<month, name, usage, entries, lapsing, counter, docs, printing, files, held,
                 reader, settled, misses>>

NumberOf(c) == [series |-> SeriesOf(clerk[c].task),
                n      |-> counter[SeriesOf(clerk[c].task)] + 1]

\* A receipt is born paid; an invoice is a draft.
Document(c) ==
  LET k == clerk[c]
  IN  [number |-> NumberOf(c), task |-> k.task, month |-> k.month, who |-> k.who,
       lines |-> k.lines, status |-> IF k.task = "purchase" THEN "paid" ELSE "draft",
       key |-> FALSE]

\* The credit that was bought comes with its receipt.
PurchaseRows(c) ==
  IF clerk[c].task = "purchase"
  THEN <<[stamp |-> clerk[c].stamp, kind |-> "purchase", of |-> Len(docs) + 1]>>
  ELSE << >>

\* The PDF of a receipt is made at once, that of an invoice when it is issued.
CommitDocument(c) ==
  /\ clerk[c].at = "numbered"
  /\ counter' = [counter EXCEPT ![SeriesOf(clerk[c].task)] = @ + 1]
  /\ docs' = Append(docs, Document(c))
  /\ printing' = Append(printing, [at |-> IF clerk[c].task = "purchase" THEN "load" ELSE "no"])
  /\ entries' = entries \o PurchaseRows(c)
  /\ clerk' = [clerk EXCEPT ![c] = Idle]
  /\ UNCHANGED <<month, name, usage, lapsing, files, held, reader, settled, misses>>

\* One row for each lot the draw has come to.
CommitDraw(c, lots) ==
  /\ clerk[c].at = "begun" /\ clerk[c].task = "draw"
  /\ LET r == CHOOSE r \in clerk[c].lines : TRUE
         row == [stamp |-> clerk[c].stamp, kind |-> "consumption", of |-> r]
     IN  entries' = entries \o [i \in 1 .. lots |-> row]
  /\ clerk' = [clerk EXCEPT ![c] = Idle]
  /\ UNCHANGED <<month, name, usage, lapsing, counter, docs, printing, files, held, reader,
                 settled, misses>>

\* mutant: the number was taken outside of the transaction
GivenBackNot(c) ==
  IF clerk[c].at = "numbered" THEN [counter EXCEPT ![SeriesOf(clerk[c].task)] = @ + 1]
  ELSE counter

\* A transaction rolled back hands its number back.
GivenBack(c) == counter

RollBack(c) ==
  /\ clerk[c] # Idle
  /\ Miss
  /\ counter' = GivenBack(c)
  /\ clerk' = [clerk EXCEPT ![c] = Idle]
  /\ UNCHANGED <<month, name, usage, entries, lapsing, docs, printing, files, held, reader, settled>>

-----------------------------------------------------------------------------
(* The life of a document, and its PDF.                                     *)

SetStatus(d, status) == docs' = [docs EXCEPT ![d].status = status]

IssueInvoice(d) ==
  /\ docs[d].status = "draft"
  /\ SetStatus(d, "open")
  /\ printing' = [printing EXCEPT ![d] = [at |-> "load"]]
  /\ UNCHANGED <<month, name, usage, entries, lapsing, counter, clerk, files, held, reader,
                 settled, misses>>

VoidInvoice(d) ==
  /\ docs[d].status \in {"draft", "open"}
  /\ SetStatus(d, "void")
  /\ UNCHANGED <<month, name, usage, entries, lapsing, counter, clerk, printing, files, held,
                 reader, settled, misses>>

MarkInvoicePaid(d) ==
  /\ docs[d].status = "open"
  /\ SetStatus(d, "paid")
  /\ UNCHANGED <<month, name, usage, entries, lapsing, counter, clerk, printing, files, held,
                 reader, settled, misses>>

\* What the banner at its top says.
Banner(d) == IF docs[d].status \in {"paid", "void"} THEN docs[d].status ELSE "due"

\* Its lines, sorted into services and credits.
Sections(d) == docs[d].lines

\* Receipts have a body of their own, without the sections of an invoice.
Body(d) == [kind |-> IF docs[d].task = "purchase" THEN "receipt" ELSE "invoice",
            lines |-> Sections(d)]

\* Whom it is for, as the document's row says.
Parties(d) == docs[d].who

Rendered(d) == [number |-> docs[d].number, who |-> Parties(d), banner |-> Banner(d),
                body |-> Body(d)]

LoadForPDF(d) ==
  /\ printing[d].at = "load"
  /\ printing' = [printing EXCEPT ![d] = [at |-> "put", doc |-> Rendered(d)]]
  /\ UNCHANGED <<month, name, usage, entries, lapsing, counter, clerk, docs, files, held, reader,
                 settled, misses>>

\* The key in the bucket is made of the document's number.
PutObject(d) ==
  /\ printing[d].at = "put"
  /\ files' = {f \in files : f.number # printing[d].doc.number} \union {printing[d].doc}
  /\ printing' = [printing EXCEPT ![d] = [at |-> "record"]]
  /\ UNCHANGED <<month, name, usage, entries, lapsing, counter, clerk, docs, held, reader,
                 settled, misses>>

RecordKey(d) ==
  /\ printing[d].at = "record"
  /\ docs' = [docs EXCEPT ![d].key = TRUE]
  /\ printing' = [printing EXCEPT ![d] = [at |-> "done"]]
  /\ UNCHANGED <<month, name, usage, entries, lapsing, counter, clerk, files, held, reader,
                 settled, misses>>

\* Best effort: a failure on the way, or the end of the process, ends it.
PrintFails(d) ==
  /\ printing[d].at \in {"load", "put", "record"}
  /\ Miss
  /\ printing' = [printing EXCEPT ![d] = [at |-> "done"]]
  /\ UNCHANGED <<month, name, usage, entries, lapsing, counter, clerk, docs, files, held, reader,
                 settled>>

\* Customers see no drafts.
Visible(d) == docs[d].status # "draft"

DownloadInvoicePDF(d) ==
  /\ Visible(d) /\ docs[d].key
  /\ held' = held \union {f \in files : f.number = docs[d].number}
  /\ UNCHANGED <<month, name, usage, entries, lapsing, counter, clerk, docs, printing, files,
                 reader, settled, misses>>

-----------------------------------------------------------------------------
(* A statement: opening balance, movements and usage are read one after the *)
(* other, or opening balance and rows when it is asked for as a CSV.        *)

Sum(some) ==
  Cardinality({i \in some : entries[i].kind \in {"grant", "purchase"}})
  - Cardinality({i \in some : entries[i].kind \in {"consumption", "expiry"}})

Before(m) == {i \in DOMAIN entries : entries[i].stamp < m}
During(m) == {i \in DOMAIN entries : entries[i].stamp = m}

Movement(m, kind) == Cardinality({i \in During(m) : entries[i].kind = kind})

\* No row of the month or an earlier one is still to come.
Over(m) ==
  /\ m < month
  /\ ~lapsing
  /\ \A c \in Clerks : clerk[c].at \in {"begun", "numbered"} => clerk[c].stamp > m

\* A month to come has no statement.
Statement(m, csv) ==
  /\ reader = Idle
  /\ m <= month
  /\ reader' = [at |-> "opened", month |-> m, csv |-> csv, opening |-> Sum(Before(m)),
                over |-> Over(m)]
  /\ UNCHANGED <<month, name, usage, entries, lapsing, counter, clerk, docs, printing, files,
                 held, settled, misses>>

Finish(page) ==
  /\ reader' = Idle
  /\ settled' = IF reader.over
                THEN [settled EXCEPT ![reader.month] = @ \union {page}] ELSE settled

ReadMovements ==
  /\ reader.at = "opened" /\ ~reader.csv
  /\ LET m == reader.month
         closing == reader.opening + Movement(m, "purchase") + Movement(m, "grant")
                    - Movement(m, "consumption") - Movement(m, "expiry")
     IN  reader' = [at |-> "closed", month |-> m, opening |-> reader.opening, over |-> reader.over,
                    closing |-> closing, used |-> Movement(m, "consumption")]
  /\ UNCHANGED <<month, name, usage, entries, lapsing, counter, clerk, docs, printing, files,
                 held, settled, misses>>

\* The quantity of a record is counted once, however many lots paid for it.
StatementUsage ==
  /\ reader.at = "closed"
  /\ LET drawn == {i \in During(reader.month) : entries[i].kind = "consumption"}
     IN  Finish([opening |-> reader.opening, closing |-> reader.closing, used |-> reader.used,
                 records |-> {entries[i].of : i \in drawn}, drawn |-> Cardinality(drawn)])
  /\ UNCHANGED <<month, name, usage, entries, lapsing, counter, clerk, docs, printing, files,
                 held, misses>>

\* The CSV has no sections; its last line has the balance at the end.
EachStatementLine ==
  /\ reader.at = "opened" /\ reader.csv
  /\ LET drawn == {i \in During(reader.month) : entries[i].kind = "consumption"}
     IN  Finish([opening |-> reader.opening,
                 closing |-> reader.opening + Sum(During(reader.month)),
                 used |-> Cardinality(drawn), records |-> {entries[i].of : i \in drawn},
                 drawn |-> Cardinality(drawn)])
  /\ UNCHANGED <<month, name, usage, entries, lapsing, counter, clerk, docs, printing, files,
                 held, misses>>

-----------------------------------------------------------------------------
Writes(c) ==
  \/ SettleTopUp(c) \/ BeginTx(c) \/ AllocateDocumentNumber(c) \/ CommitDocument(c) \/ RollBack(c)

\* What makes rows of the ledger.
Accounting ==
  \/ NextMonth \/ RecordUsage \/ ExpireCredits
  \/ \E c \in Clerks :
        Writes(c) \/ ConsumeCredit(c) \/ \E lots \in 1 .. 2 : CommitDraw(c, lots)

\* What makes documents, and what becomes of them.
Papers ==
  \/ NextMonth \/ Rename \/ RecordUsage
  \/ \E c \in Clerks :
        Writes(c) \/ CreateAccountUsageInvoice(c) \/ CreateManualInvoice(c) \/ CreateInvoice(c)
  \/ \E d \in DOMAIN docs :
        \/ IssueInvoice(d) \/ VoidInvoice(d) \/ MarkInvoicePaid(d)
        \/ LoadForPDF(d) \/ PutObject(d) \/ RecordKey(d) \/ PrintFails(d)
        \/ DownloadInvoicePDF(d)

Reading ==
  \/ \E m \in Months, csv \in BOOLEAN : Statement(m, csv)
  \/ ReadMovements \/ StatementUsage \/ EachStatementLine

DocumentsNext == Accounting \/ Papers \/ Reading

DocumentsSpec == DocumentsInit /\ [][DocumentsNext]_documentVars

-----------------------------------------------------------------------------
\* "Sequential and gapless": whoever writes documents at the same time and
\* rolls some back, the numbers of a series are 1, 2, ... with no document
\* missing and none twice (allocateDocumentNumber).
Gapless == \A s \in Series :
  LET of == {d \in DOMAIN docs : docs[d].number.series = s}
  IN  {docs[d].number.n : d \in of} = 1 .. Cardinality(of)

\* A document that can be downloaded is stored, and what a customer holds is
\* a document of theirs that names them as its row does, and is of its kind
\* (generateAndStorePDF, DownloadInvoicePDF).
HeldIsTrue ==
  /\ \A d \in DOMAIN docs : docs[d].key => \E f \in files : f.number = docs[d].number
  /\ \A f \in held : \E d \in DOMAIN docs :
        /\ Visible(d) /\ f.number = docs[d].number /\ f.who = docs[d].who
        /\ f.body = Body(d)

\* A payment and its receipt are there together (recordPurchase).
ReceiptForPurchase == \A d \in DOMAIN docs :
  docs[d].task = "purchase" <=>
    \E i \in DOMAIN entries : entries[i].kind = "purchase" /\ entries[i].of = d

\* Statements of months that are over for good are all the same, whenever
\* and in whichever form they are read, what is listed adds up to what was
\* used, each opens with the balance that the one before it closes with, and
\* no usage is on two of them ("it reconciles by construction", statement.go).
StatementsAgree == \A m \in Months :
  /\ Cardinality(settled[m]) <= 1
  /\ \A p \in settled[m] :
        /\ p.used = p.drawn
        /\ p.closing = Sum(Before(m + 1))
        /\ m < MaxMonth => \A q \in settled[m + 1] :
              q.opening = p.closing /\ p.records \cap q.records = {}

DocumentsSound == Gapless /\ HeldIsTrue /\ ReceiptForPurchase /\ StatementsAgree
=============================================================================

---------------------------- MODULE ModelCatalog ----------------------------
(***************************************************************************)
(* One external model of the catalog (pkg/modelcatalog and its operators'  *)
(* endpoints in pkg/api): the row with its price and where it may be used, *)
(* the secret that holds its API key, the report of what it was seen to do *)
(* (pkg/modelprobe), and the provider the gateway has cached for it        *)
(* (pkg/inferencegateway/external.go).                                     *)
(*                                                                         *)
(* A registration is several statements, with other operators' calls and   *)
(* the check of the model's capabilities in between.  A price is there or  *)
(* not: both rates above zero, or not both.  The marks `slipped' and       *)
(* `late', and `dropped', are history: no code reads them.                 *)
(***************************************************************************)
EXTENDS Naturals, FiniteSets

CONSTANTS
  Editors,       \* operators' requests at work at a time
  Backends,      \* provider, model id and URL a model may be served by
  Asked,         \* what a registration may ask for
  MaxEdits,      \* bound: calls of operators, and so the keys they give
  MaxBreaks      \* bound: calls that fail on the way, restarts and failed checks

ASSUME CatalogAssumption ==
  /\ \A w \in Asked :
        /\ w.backend \in Backends
        /\ w.price \in {"keep", "none", "full"}
        /\ w.offer \in {"keep", "no", "yes"}
        /\ {w.on, w.key} \subseteq BOOLEAN
  /\ "none" \notin Backends /\ "nothing" \notin Backends
  /\ {MaxEdits, MaxBreaks} \subseteq Nat

VARIABLES
  row,        \* of inference.models
  vault,      \* vault[r]: the key in the secret named r, 0 if there is none
  report,     \* of inference.model_probe_reports
  check,      \* the check that runs
  call,       \* call[e]: the request of operator e
  built,      \* Gateway.externals: what the cached provider was built from
  misserved,  \* history: a request got a provider other than it asked for
  dropped,    \* history: secrets that were to go with their model
  edits,      \* operators' calls so far
  breaks      \* failures so far

catalogVars == <<row, vault, report, check, call, built, misserved, dropped, edits, breaks>>

gateway == <<built, misserved>>
keys    == <<vault, dropped>>

NoModel    == [backend |-> "none"]
NoReport == [of |-> "none"]
NoCall   == [at |-> "idle"]
NoCheck  == [at |-> "off"]
NoBuilt  == [backend |-> "none", key |-> 0]

\* Names of secrets are fresh UUIDs; a call's number names what it makes.
Refs == 1 .. MaxEdits

Exists == row # NoModel

CatalogInit ==
  /\ row = NoModel
  /\ vault = [r \in Refs |-> 0]
  /\ report = NoReport
  /\ check = NoCheck
  /\ call = [e \in Editors |-> NoCall]
  /\ built = NoBuilt
  /\ misserved = FALSE
  /\ dropped = {}
  /\ edits = 0
  /\ breaks = 0

\* Where a registration is between its upsert and the end of afterRegister.
AfterSave == {"offer", "ref", "key", "set", "saved", "forget"}

Is(e, step)  == call[e].at = step
Go(e, step)  == call' = [call EXCEPT ![e].at = step]
Answer(e)    == call' = [call EXCEPT ![e] = NoCall]
Edit(e)      == call[e] = NoCall /\ edits < MaxEdits /\ edits' = edits + 1

\* The evidence there is outlives what it is evidence of.
Outlived(r) == IF r = NoReport THEN r ELSE [r EXCEPT !.late = TRUE]

LeftBehind ==
  /\ report' = Outlived(report)
  /\ check' = IF check.at = "put" THEN [check EXCEPT !.late = TRUE] ELSE check

-----------------------------------------------------------------------------
(* A registration.  The handler keeps the model as it was, to see later     *)
(* what has changed; a model it fails to read passes for a new one.         *)

Register(e) ==
  /\ Edit(e)
  /\ \E w \in Asked, seen \in BOOLEAN :
        /\ call' = [call EXCEPT ![e] =
                      [at |-> "price", wish |-> w, prev |-> IF seen THEN row.backend ELSE "none",
                       relied |-> FALSE, ref |-> 0, key |-> edits']]
        /\ IF seen THEN UNCHANGED breaks
           ELSE Exists /\ breaks < MaxBreaks /\ breaks' = breaks + 1
  /\ UNCHANGED <<row, report, keys, check, gateway>>

\* To be enabled, a model needs a price of this call or one already stored.
PriceStored == Exists /\ row.priced

ReadPrice(e) ==
  /\ Is(e, "price")
  /\ LET w == call[e].wish
     IN  IF ~w.on \/ w.price = "full"
         THEN Go(e, "save")
         ELSE IF w.price = "keep" /\ PriceStored
              THEN call' = [call EXCEPT ![e].at = "save", ![e].relied = TRUE]
              ELSE Answer(e)
  /\ UNCHANGED <<row, report, keys, check, gateway, edits, breaks>>

\* The upsert leaves what the call does not speak of: a price that is not
\* given, and the key.
Saved(w, relied) ==
  [backend |-> w.backend, on |-> w.on,
   priced  |-> w.price = "full" \/ (w.price = "keep" /\ PriceStored),
   ref     |-> IF Exists THEN row.ref ELSE 0,
   slipped |-> relied /\ ~PriceStored]

AfterOffer(w) == IF w.key THEN "ref" ELSE "saved"

SaveModel(e) ==
  /\ Is(e, "save")
  /\ LET w == call[e].wish
     IN  /\ row' = Saved(w, call[e].relied)
         /\ Go(e, IF w.offer # "keep" THEN "offer" ELSE AfterOffer(w))
         /\ check' = IF check.at \in {"test", "put"} /\ w.backend # row.backend
                     THEN [check EXCEPT !.late = TRUE] ELSE check
         /\ report' = IF row.backend = call[e].prev THEN report ELSE Outlived(report)
  /\ UNCHANGED <<keys, gateway, edits, breaks>>

\* A registration that ends before it has looked at what it changed.
EndsEarly(e) ==
  IF call[e].prev = call[e].wish.backend THEN UNCHANGED <<report, check>>
  ELSE LeftBehind

\* SetAvailability asks for the price in the UPDATE itself.  Where a model is
\* offered, and in which order, is left out of the row.
MayOffer(yes) == Exists /\ (yes => row.priced)

SaveOffer(e) ==
  /\ Is(e, "offer")
  /\ LET yes == call[e].wish.offer = "yes"
     IN  IF MayOffer(yes)
         THEN /\ Go(e, AfterOffer(call[e].wish))
              /\ UNCHANGED <<report, check>>
         ELSE /\ Answer(e)
              /\ EndsEarly(e)
  /\ UNCHANGED <<row, keys, gateway, edits, breaks>>

\* storeAPIKey: into the model's own secret, or a new one when it has none.
ReadRef(e) ==
  /\ Is(e, "ref")
  /\ IF Exists
     THEN call' = [call EXCEPT ![e].at = "key",
                      ![e].ref = IF row.ref # 0 THEN row.ref ELSE call[e].key]
     ELSE Go(e, "saved")
  /\ UNCHANGED <<row, report, keys, check, gateway, edits, breaks>>

PutKey(e) ==
  /\ Is(e, "key")
  /\ vault' = [vault EXCEPT ![call[e].ref] = call[e].key]
  /\ Go(e, "set")
  /\ UNCHANGED <<row, report, check, gateway, dropped, edits, breaks>>

SetAPIKeyRef(e) ==
  /\ Is(e, "set")
  /\ row' = IF Exists THEN [row EXCEPT !.ref = call[e].ref] ELSE row
  /\ Go(e, "saved")
  /\ UNCHANGED <<report, keys, check, gateway, edits, breaks>>

\* afterRegister: evidence of another backend, or under another key, goes.
Changed(e) == call[e].prev # row.backend \/ call[e].wish.key

ReadBack(e) ==
  /\ Is(e, "saved")
  /\ IF ~Exists \/ (~Changed(e) /\ report # NoReport)
     THEN Answer(e)
     ELSE Go(e, IF Changed(e) /\ call[e].prev # "none" THEN "forget" ELSE "start")
  /\ UNCHANGED <<row, report, keys, check, gateway, edits, breaks>>

Invalidate(e) ==
  /\ Is(e, "forget")
  /\ report' = NoReport
  /\ check' = IF check.at = "put" THEN [check EXCEPT !.late = TRUE] ELSE check
  /\ Go(e, "start")
  /\ UNCHANGED <<row, keys, gateway, edits, breaks>>

\* CheckAsync does nothing while a check of the model runs.
Begun == IF check = NoCheck THEN [at |-> "read"] ELSE check

StartCheck(e) ==
  /\ Is(e, "start")
  /\ check' = Begun
  /\ Answer(e)
  /\ UNCHANGED <<row, report, keys, gateway, edits, breaks>>

\* A statement fails: that a key is not stored is a warning, that evidence
\* is not dropped goes unsaid, anything else ends the registration.
StatementFails(e) ==
  /\ breaks < MaxBreaks
  /\ breaks' = breaks + 1
  /\ \/ /\ call[e].at \in {"ref", "key", "set"}
        /\ Go(e, "saved")
        /\ UNCHANGED <<report, check>>
     \/ /\ call[e].at \in {"offer", "saved"}
        /\ Answer(e)
        /\ EndsEarly(e)
     \/ /\ Is(e, "forget")
        /\ Go(e, "start")
        /\ LeftBehind
  /\ UNCHANGED <<row, keys, gateway, edits>>

-----------------------------------------------------------------------------
(* The calls that are one statement, and the deletion.                      *)

SetPricing(e, priced) ==
  /\ Edit(e)
  /\ Exists /\ (priced \/ ~row.on)
  /\ row' = [row EXCEPT !.priced = priced]
  /\ UNCHANGED <<report, keys, check, call, gateway, breaks>>

SetEnabled(e, on) ==
  /\ Edit(e)
  /\ Exists /\ (on => row.priced)
  /\ row' = [row EXCEPT !.on = on]
  /\ UNCHANGED <<report, keys, check, call, gateway, breaks>>

CheckModel(e) ==
  /\ Edit(e)
  /\ Exists
  /\ check' = Begun
  /\ UNCHANGED <<row, report, keys, call, gateway, breaks>>

DeleteModel(e) ==
  /\ Edit(e)
  /\ Exists
  /\ call' = [call EXCEPT ![e] = [at |-> "delete", ref |-> row.ref]]
  /\ UNCHANGED <<row, report, keys, check, gateway, breaks>>

\* The report goes with the row: ON DELETE CASCADE.
DeleteRow(e) ==
  /\ Is(e, "delete")
  /\ row' = NoModel
  /\ report' = NoReport
  /\ IF Exists /\ call[e].ref # 0
     THEN Go(e, "unkey") /\ dropped' = dropped \union {call[e].ref}
     ELSE Answer(e) /\ UNCHANGED dropped
  /\ UNCHANGED <<vault, check, gateway, edits, breaks>>

DeleteKey(e) ==
  /\ Is(e, "unkey")
  /\ vault' = [vault EXCEPT ![call[e].ref] = 0]
  /\ Answer(e)
  /\ UNCHANGED <<row, report, check, gateway, dropped, edits, breaks>>

-----------------------------------------------------------------------------
(* The gateway: a provider is kept as long as what it was built from stays  *)
(* the same.                                                                *)

\* The cache of secrets is refreshed by each key put; only other replicas may
\* see the one before, for thirty seconds.
KeyRead == IF row.ref = 0 THEN 0 ELSE vault[row.ref]

\* mutant: a new key does not make a new provider
HashWithoutKey(p) == <<p.backend>>

\* externalHash covers the backend and the key.
Hash(p) == <<p.backend, p.key>>

GetProvider ==
  LET asked == [backend |-> row.backend, key |-> KeyRead]
      got   == IF Hash(built) = Hash(asked) THEN built ELSE asked
  IN  /\ built' = got
      /\ misserved' = (misserved \/ got # asked)

Request ==
  /\ Exists /\ row.on
  /\ GetProvider
  /\ UNCHANGED <<row, keys, report, check, call, edits, breaks>>

-----------------------------------------------------------------------------
(* The check, and the end of the process.                                   *)

CheckReads ==
  /\ check.at = "read"
  /\ IF Exists
     THEN /\ GetProvider
          /\ check' = [at |-> "test", of |-> row.backend, late |-> FALSE]
     ELSE /\ check' = NoCheck
          /\ UNCHANGED gateway
  /\ UNCHANGED <<row, keys, report, call, edits, breaks>>

\* What could not be tested this time keeps its earlier result.
MergeReports(prev, found, late) ==
  IF found THEN [of |-> check.of, late |-> late]
  ELSE IF prev = NoReport THEN [of |-> "nothing", late |-> FALSE]
  ELSE [prev EXCEPT !.late = @ \/ late]

CheckMerges(found) ==
  /\ check.at = "test"
  /\ IF found THEN UNCHANGED breaks ELSE breaks < MaxBreaks /\ breaks' = breaks + 1
  /\ check' = [at |-> "put", merged |-> MergeReports(report, found, check.late),
               late |-> check.late]
  /\ UNCHANGED <<row, keys, report, call, gateway, edits>>

\* The provider cannot be built, or the report not be read or saved.
CheckGivesUp ==
  /\ check.at \in {"test", "put"}
  /\ breaks < MaxBreaks
  /\ breaks' = breaks + 1
  /\ check' = NoCheck
  /\ UNCHANGED <<row, keys, report, call, gateway, edits>>

\* No report can be saved of a model that is not there.
CheckSaves ==
  /\ check.at = "put"
  /\ report' = IF Exists THEN [check.merged EXCEPT !.late = @ \/ check.late] ELSE report
  /\ check' = NoCheck
  /\ UNCHANGED <<row, keys, call, gateway, edits, breaks>>

\* Shortly after a start, an enabled model without a report is checked.
CheckMissing ==
  /\ Exists /\ row.on
  /\ report = NoReport
  /\ check = NoCheck
  /\ check' = Begun
  /\ UNCHANGED <<row, keys, report, call, gateway, edits, breaks>>

Restart ==
  /\ breaks < MaxBreaks
  /\ breaks' = breaks + 1
  /\ report' = IF \E e \in Editors :
                        call[e].at \in AfterSave /\ call[e].prev # row.backend
               THEN Outlived(report) ELSE report
  /\ call' = [e \in Editors |-> NoCall]
  /\ check' = NoCheck
  /\ built' = NoBuilt
  /\ UNCHANGED <<row, keys, misserved, edits>>

RegisterStep(e) ==
  \/ Register(e) \/ ReadPrice(e) \/ SaveModel(e) \/ SaveOffer(e)
  \/ ReadRef(e) \/ PutKey(e) \/ SetAPIKeyRef(e)
  \/ ReadBack(e) \/ Invalidate(e) \/ StartCheck(e) \/ StatementFails(e)

OtherCall(e) ==
  \/ \E b \in BOOLEAN : SetPricing(e, b) \/ SetEnabled(e, b)
  \/ CheckModel(e) \/ DeleteModel(e) \/ DeleteRow(e) \/ DeleteKey(e)

CheckStep ==
  \/ CheckReads \/ CheckSaves \/ CheckGivesUp \/ CheckMissing
  \/ \E found \in BOOLEAN : CheckMerges(found)

CatalogNext ==
  \/ \E e \in Editors : RegisterStep(e) \/ OtherCall(e)
  \/ Request \/ CheckStep \/ Restart

CatalogSpec == CatalogInit /\ [][CatalogNext]_catalogVars

-----------------------------------------------------------------------------
\* No customer is served for free: a model that is enabled has a price, but
\* for one whose price was taken away between the moment a registration that
\* enables it had read that price and the moment it was saved (the pricing
\* rule of modelcatalog.Service).
EnabledIsPriced == Exists /\ row.on => row.priced \/ row.slipped

\* Operators judge a model by evidence of the backend it has: a report of
\* another one is there only while the registration that changed it has yet
\* to drop it, or where that registration ended before it did, or a check
\* or another registration overlapped it (afterRegister, Service.Check).
EvidenceFits ==
  report.of \in {"none", "nothing", row.backend}
  \/ report.late
  \/ \E e \in Editors :
        call[e].at \in AfterSave /\ Changed(e)

\* The secret that the row names holds a key (storeAPIKey writes it before it
\* is named, DeleteModel removes it after the row), but where a registration
\* had read the name before the model was deleted and writes it into the row
\* of the model that is there since.
KeyIsThere == Exists /\ row.ref \notin dropped \union {0} => vault[row.ref] # 0

\* And a request goes where the row it read says, with the key it read, for
\* all that providers are kept (externalProviderFor).
ModelsSound == EnabledIsPriced /\ EvidenceFits /\ KeyIsThere /\ ~misserved
=============================================================================

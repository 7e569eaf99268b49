----------------------------- MODULE ModelPicker -----------------------------
(***************************************************************************)
(* The model picker (src/tui/model-picker.ts, src/tools/model-picker-      *)
(* host.ts) with the provider pins it keeps (src/state/provider-pins.ts).  *)
(*                                                                         *)
(* A pin is shown at once and written later, one write after another; a    *)
(* write that fails takes the pin back on the screen, which re-sorts the   *)
(* list of providers under the user.  A model is chosen by an asynchronous *)
(* call of Pi; until it answers the picker takes no input.                 *)
(***************************************************************************)
EXTENDS Integers, FiniteSets, SequencesExt

CONSTANTS
    Names,      \* the providers, in alphabetical order
    Ready,      \* providers that are connected
    Catalogue,  \* models as sorted by the constructor: [id, provider, usable]
    Matches,    \* ids of the models that match the query that is typed
    Initial,    \* initialProviderPins
    MaxPins,    \* bound: pins toggled here or written by other processes
    MaxOpens,   \* bound: pickers opened
    MaxChoices  \* bound: models chosen

VARIABLES
    life,       \* closed, loading (the pins), open, login (Pi's /login runs)
    pins,       \* picker.pins
    index,      \* providerIndex: 0 for all providers
    browser,    \* providerBrowser: keys go to the list of providers
    query,      \* something is typed
    filtered,   \* the models listed, as places in the catalogue, whose order they keep
    sel,        \* selectedIndex
    busy,
    flight,     \* calls of pi.setModel that have not answered: [call, model, picker]
    current,    \* ctx.model
    writes,     \* pinWrites of all pickers: [key, to, picker], in the order they were asked for
    disk,       \* the pins file, Absent before it exists
    toggles, opens, choices, others,    \* bounded counters
    tainted,    \* history: providers whose pin was rolled back over a later one,
                \* or loaded while an earlier picker was still writing
    foreign     \* history: providers another process wrote

pin == <<pins, writes, disk, tainted, foreign>>
view == <<index, browser, query, filtered, sel>>
counters == <<toggles, opens, choices, others>>
vars == <<life, pin, view, busy, flight, current, counters>>

Absent == {"absent"}
Providers == {Names[k] : k \in DOMAIN Names}
Ids == {Catalogue[k].id : k \in DOMAIN Catalogue}
NoModel == "no model"

\* Every provider has one name, and the words that stand for all of them and for
\* no file are not names; the pins a first picker writes are of providers.
NamesAssumption ==
    /\ Names \in Seq(Providers) /\ \A i, j \in DOMAIN Names : Names[i] = Names[j] => i = j
    /\ {"all", "absent"} \cap Providers = {}
    /\ Initial \subseteq Providers
    /\ Len(Catalogue) \in Nat /\ DOMAIN Catalogue = 1 .. Len(Catalogue)

\* sortProviders: pinned, then connected, then by name.
Alphabetical(p) == CHOOSE k \in DOMAIN Names : Names[k] = p
Precedes(P, p, q) ==
    IF (p \in P) # (q \in P) THEN p \in P
    ELSE IF (p \in Ready) # (q \in Ready) THEN p \in Ready
    ELSE Alphabetical(p) < Alphabetical(q)

\* The place of a provider in the sorted list, and the provider in a place.
IndexOf(P, p) == IF p = "all" THEN 0 ELSE 1 + Cardinality({q \in Providers : Precedes(P, q, p)})
ProviderAt(P, i) == IF i = 0 THEN "all" ELSE CHOOSE p \in Providers : IndexOf(P, p) = i

ActiveProvider == ProviderAt(pins, index)

\* filter: the models of one provider, what the query finds, or what can be used.
Filtered(p, q) ==
    {k \in DOMAIN Catalogue : /\ IF p # "all" THEN Catalogue[k].provider = p ELSE (q \/ Catalogue[k].usable)
                              /\ q => Catalogue[k].id \in Matches}

\* The row that is marked is the model with so many before it in the list.
SelectedModel ==
    IF sel < Cardinality(filtered)
    THEN Catalogue[CHOOSE k \in filtered : Cardinality({j \in filtered : j < k}) = sel]
    ELSE [id |-> NoModel]

AtLeast0(n) == IF n < 0 THEN 0 ELSE n
Between(lo, n, hi) == IF n > hi THEN AtLeast0(hi) ELSE IF n < lo THEN lo ELSE n

Shows(p, q) ==
    /\ filtered' = Filtered(p, q) /\ query' = q
    /\ sel' = 0

Init ==
    /\ life = "closed" /\ pins = {} /\ index = 0 /\ browser = FALSE /\ query = FALSE
    /\ filtered = {} /\ sel = 0 /\ busy = FALSE
    /\ flight = {} /\ current \in {NoModel, Catalogue[1].id}
    /\ writes = <<>> /\ disk \in {Absent, Initial}
    /\ toggles = 0 /\ opens = 0 /\ choices = 0 /\ others = 0
    /\ tainted = {} /\ foreign = {}

-----------------------------------------------------------------------------
(* registerModelPicker: one picker at a time *)

\* open, when the Designer is idle: the catalogue is read, then the pins.
Open ==
    /\ life = "closed" /\ opens < MaxOpens /\ opens' = opens + 1
    /\ life' = "loading"
    /\ UNCHANGED <<pin, view, busy, flight, current, toggles, choices, others>>

\* ProviderPinStore.load, which writes the first pins, or fails and shows none.
\* The picker starts with the query it was opened with.
Loaded(readable, q) ==
    /\ life = "loading" /\ life' = "open"
    /\ disk' = IF readable /\ disk = Absent THEN Initial ELSE disk
    /\ pins' = IF readable THEN disk' ELSE {}
    /\ tainted' = IF readable THEN {writes[k].key : k \in DOMAIN writes} ELSE Providers
    /\ foreign' = {}
    /\ index' = 0 /\ browser' = FALSE /\ busy' = FALSE
    /\ Shows("all", q)
    /\ UNCHANGED <<writes, flight, current, counters>>

\* done: Pi disposes the overlay; what is in flight goes on without it.
Done(next) ==
    /\ life' = next
    /\ UNCHANGED <<pin, view, busy, flight, current, counters>>

\* A provider that is not connected: Pi's /login, and the picker again.
LoginEnds ==
    /\ life = "login" /\ opens < MaxOpens /\ opens' = opens + 1
    /\ life' = "loading"
    /\ UNCHANGED <<pin, view, busy, flight, current, toggles, choices, others>>

-----------------------------------------------------------------------------
(* Pins *)

\* setPinned keeps the provider whose models are listed.
SetPinned(key, to) ==
    /\ pins' = IF to THEN pins \cup {key} ELSE pins \ {key}
    /\ index' = IndexOf(pins', ActiveProvider)

Takes == life = "open" /\ ~busy

\* togglePin, by its key, its button, or the star of a row (pinTarget).
TogglePin(p) ==
    /\ Takes /\ toggles + others < MaxPins /\ toggles' = toggles + 1
    /\ SetPinned(p, p \notin pins)
    /\ writes' = Append(writes, [key |-> p, to |-> p \notin pins, picker |-> opens])
    /\ UNCHANGED <<life, disk, tainted, foreign, browser, query, filtered, sel,
                   busy, flight, current, opens, choices, others>>

\* Each picker writes its pins one after another, beside those of an earlier one.
NextWrites == {k \in DOMAIN writes : \A j \in 1 .. k - 1 : writes[j].picker # writes[k].picker}

\* ProviderPinStore.setPinned: reads, changes and replaces the file in its lock.
PinWritten(k) ==
    /\ k \in NextWrites /\ writes' = RemoveAt(writes, k)
    /\ LET saved == IF disk = Absent THEN {} ELSE disk
       IN  disk' = IF writes[k].to THEN saved \cup {writes[k].key} ELSE saved \ {writes[k].key}
    /\ UNCHANGED <<life, pins, tainted, foreign, view, busy, flight, current, counters>>

\* Mutant: the pin that could not be saved stays on the screen.
PinKept(k) ==
    /\ k \in NextWrites /\ writes' = RemoveAt(writes, k)
    /\ busy' = (busy /\ life # "open")
    /\ UNCHANGED <<life, pins, tainted, foreign, disk, view, flight, current, counters>>

\* The write fails: the picker that asked for it, while it is open, takes the pin
\* back and says so, which also ends its `busy'.
PinFails(k) ==
    /\ k \in NextWrites /\ writes' = RemoveAt(writes, k)
    /\ IF life = "open" /\ writes[k].picker = opens
       THEN /\ SetPinned(writes[k].key, ~writes[k].to)
            /\ busy' = FALSE
            /\ tainted' = IF \E j \in DOMAIN writes : j > k /\ writes[j].key = writes[k].key
                          THEN tainted \cup {writes[k].key} ELSE tainted
       ELSE UNCHANGED <<pins, index, busy, tainted>>
    /\ UNCHANGED <<life, disk, foreign, browser, query, filtered, sel, flight, current, counters>>

\* Another Pi changes the same file.
OtherWrites(p) ==
    /\ toggles + others < MaxPins /\ others' = others + 1 /\ disk # Absent
    /\ disk' = IF p \in disk THEN disk \ {p} ELSE disk \cup {p}
    /\ foreign' = foreign \cup {p}
    /\ UNCHANGED <<life, pins, writes, tainted, view, busy, flight, current, toggles, opens, choices>>

-----------------------------------------------------------------------------
(* Keys, the wheel and clicks *)

\* move: in the list of providers, each of which is listed at once, or in the list
\* of models.  A key moves in the list that has the keys, the wheel in the one below
\* the pointer (handleWheel).  Which rows are in view is left out.
Move(inProviders, d) ==
    /\ Takes
    /\ IF inProviders
       THEN /\ index' = Between(0, index + d, Len(Names))
            /\ Shows(ProviderAt(pins, index'), query)
       ELSE /\ sel' = AtLeast0(Between(0, sel + d, Cardinality(filtered) - 1))
            /\ UNCHANGED <<index, query, filtered>>
    /\ UNCHANGED <<life, pin, browser, busy, flight, current, counters>>

\* Tab cycles through the providers, all of them included.
Cycle(d) ==
    /\ Takes
    /\ index' = (index + d + Len(Names) + 1) % (Len(Names) + 1)
    /\ Shows(ProviderAt(pins, index'), query)
    /\ UNCHANGED <<life, pin, browser, busy, flight, current, counters>>

\* Ctrl+P, Escape out of the browser, a click on the filter or the button.
Browse ==
    /\ Takes /\ browser' = ~browser
    /\ UNCHANGED <<life, pin, index, query, filtered, sel, busy, flight, current, counters>>

\* A click on a row of the providers: listed without the query.
PickProvider(i) ==
    /\ Takes /\ index' = i /\ browser' = FALSE
    /\ Shows(ProviderAt(pins, i), FALSE)
    /\ UNCHANGED <<life, pin, busy, flight, current, counters>>

Type(q) ==
    /\ Takes /\ q # query /\ Shows(ActiveProvider, q)
    /\ UNCHANGED <<life, pin, index, browser, busy, flight, current, counters>>

\* A click on a row of the models.
PickModel(k) ==
    /\ Takes /\ k < Cardinality(filtered)
    /\ sel' = k /\ browser' = FALSE
    /\ UNCHANGED <<life, pin, index, query, filtered, busy, flight, current, counters>>

Cancel == Takes /\ Done("closed")

\* Enter on a provider that is not connected, or on one of its models.
Connect ==
    /\ Takes
    /\ IF browser THEN index > 0 /\ ActiveProvider \notin Ready
                  ELSE SelectedModel.id # NoModel /\ SelectedModel.provider \notin Ready
    /\ Done("login") \/ Done("closed")

\* Enter on a model: out of scope, the Designer at work, the one in use, or chosen.
Enter(idle) ==
    /\ Takes /\ ~browser /\ SelectedModel.id # NoModel /\ SelectedModel.provider \in Ready
    /\ IF ~SelectedModel.usable \/ ~idle
       THEN UNCHANGED <<life, busy, flight, choices>>
       ELSE IF SelectedModel.id = current
       THEN life' = "closed" /\ UNCHANGED <<busy, flight, choices>>
       ELSE /\ choices < MaxChoices /\ choices' = choices + 1
            /\ busy' = TRUE
            /\ flight' = flight \cup {[call |-> choices', model |-> SelectedModel.id, picker |-> opens]}
            /\ UNCHANGED life
    /\ UNCHANGED <<pin, view, current, toggles, opens, others>>

\* pi.setModel answers: the picker that asked is done, unless it is disposed.
AskerIsOpen(f) == life = "open" /\ f.picker = opens

Chosen(f) ==
    /\ f \in flight /\ flight' = flight \ {f}
    /\ current' = f.model
    /\ life' = IF AskerIsOpen(f) THEN "closed" ELSE life
    /\ UNCHANGED <<pin, view, busy, counters>>

NotChosen(f) ==
    /\ f \in flight /\ flight' = flight \ {f}
    /\ busy' = (busy /\ ~AskerIsOpen(f))
    /\ UNCHANGED <<life, pin, view, current, counters>>

Next ==
    \/ Open \/ \E q \in BOOLEAN : Loaded(TRUE, q) \/ Loaded(FALSE, q)
    \/ LoginEnds
    \/ \E p \in Providers : TogglePin(p) \/ OtherWrites(p)
    \/ \E k \in DOMAIN writes : PinWritten(k) \/ PinFails(k)
    \/ \E providers \in BOOLEAN, d \in {1, -1} : Move(providers, d)
    \/ \E d \in {1, -1} : Cycle(d)
    \/ Browse \/ \E i \in 0 .. Len(Names) : PickProvider(i)
    \/ \E q \in BOOLEAN : Type(q)
    \/ \E k \in DOMAIN Catalogue : PickModel(k - 1)
    \/ Cancel \/ Connect \/ \E i \in BOOLEAN : Enter(i)
    \/ \E f \in flight : Chosen(f) \/ NotChosen(f)

Spec == Init /\ [][Next]_vars

-----------------------------------------------------------------------------
(* Properties *)

TypeOK ==
    /\ life \in {"closed", "loading", "open", "login"}
    /\ pins \subseteq Providers /\ index \in 0 .. Len(Names)
    /\ sel \in Nat
    /\ \A k \in DOMAIN writes : writes[k].key \in Providers

\* What Enter acts on is in the list of the provider that is marked, whatever was
\* typed, pinned or taken back meanwhile: pins re-sort the providers under the mark.
ListIsOfActiveProvider ==
    life = "open" => /\ filtered = Filtered(ActiveProvider, query)
                     /\ filtered # {} => sel < Cardinality(filtered)

\* When nothing is left to write, the pins on the screen are the pins on disk, also
\* after failures, except where another process changed them, a later toggle of the
\* same provider was already waiting when an earlier one failed, or the picker was
\* opened while an earlier one still wrote.
PinsAreSaved ==
    life = "open" /\ writes = <<>> =>
        \A p \in Providers \ (tainted \cup foreign) : (p \in pins) <=> (p \in disk)

\* handleInput's comment: "A pending model change cannot be cancelled after it has
\* been dispatched", so the picker takes no input while one is pending.
PendingChangeLocks == \A f \in flight : AskerIsOpen(f) => busy
=============================================================================

----------------------------- MODULE CallsProofs -----------------------------
(***************************************************************************)
(* What whoever waits for a call can rely on, proved of Calls: the store's *)
(* part rests on ProjectStoreProofs, the others on an invariant each.      *)
(*                                                                         *)
(* SandboxCommand: what a tool is told of its sandboxed command is the end *)
(* of it, for any amount of input and output.  `close' is reported when    *)
(* the leader is reaped and nobody holds the pipes, so that nothing can    *)
(* move afterwards (Still).  Until then whatever is lost leaves a trace:   *)
(* dropped output and input that nobody took are remembered in stdinError  *)
(* (Traced).                                                               *)
(*                                                                         *)
(* TranscriptActivity: the working row and the spinners follow the stream  *)
(* for any calls, themes and blocks of thinking.  The rate in the row is   *)
(* computed from the samples of the tracker, which outlive a block; what   *)
(* has to be carried is that a pulse that is live has dropped those of the *)
(* blocks before (LiveRates).                                              *)
(*                                                                         *)
(* SandboxMounts: the sandbox is tight for every tree of paths, wherever   *)
(* in it the worktree, Node, the system's toolchain and the secrets are.   *)
(* Every mount covers what the earlier ones put below it, so the invariant *)
(* follows the order of the arguments (Ordered): until the worktree is     *)
(* bound nothing can be written (BeforeBind), what was mounted of the      *)
(* toolchain stays readable unless the worktree covers it                  *)
(* (ToolchainStays), and from then on what can be written is the worktree  *)
(* without the directories covered since (WorktreeIsBound).                *)
(***************************************************************************)
EXTENDS Calls, ProjectStoreProofs, SequenceTheorems, WellFoundedInduction, TLAPS

-----------------------------------------------------------------------------
(* SandboxCommand *)

CommandTypes ==
    /\ leader \in {"none", "runs", "zero", "failed", "killed"}
    /\ helper \in BOOLEAN /\ stdinError \in BOOLEAN /\ aborted \in BOOLEAN
    /\ timer \in BOOLEAN /\ listener \in BOOLEAN /\ signalled \in BOOLEAN /\ closed \in BOOLEAN
    /\ toWrite \in 0 .. InputChunks /\ stdin \in {"open", "closed", "broken"}
    /\ stdoutBytes \in 0 .. MaxWrites /\ kept \in 0 .. MaxOutput
    /\ result \in {"pending", "resolved", "rejected"}

\* Output that was dropped, and input that was not taken, are remembered.
Traced ==
    /\ kept <= stdoutBytes /\ (kept = stdoutBytes \/ stdinError)
    /\ stdin = "closed" => toWrite = 0 \/ leader = "failed"
    /\ stdin = "broken" => stdinError

\* Before the start nothing is set; after the answer nothing is left that could move.
Still ==
    /\ leader = "none" => ~timer /\ ~listener /\ stdin = "open" /\ result # "resolved"
    /\ result # "pending" => ~Shell!Runs /\ ~timer /\ ~listener /\ (leader = "none" \/ ~helper)

CommandInv == CommandTypes /\ Traced /\ Still /\ Shell!SuccessIsWhole

\* Nothing was written, read or answered when the tool makes its call.
LEMMA CommandInit == Shell!Init => CommandInv
<1> SUFFICES ASSUME Shell!Init PROVE CommandInv
  OBVIOUS
<1> USE BoundsAreNatural DEF Shell!Init
<1>1. CommandTypes
  <2>1. /\ helper \in BOOLEAN /\ stdinError \in BOOLEAN /\ aborted \in BOOLEAN
        /\ timer \in BOOLEAN /\ listener \in BOOLEAN /\ signalled \in BOOLEAN /\ closed \in BOOLEAN
    BY Zenon
  <2>2. toWrite \in 0 .. InputChunks /\ stdoutBytes \in 0 .. MaxWrites /\ kept \in 0 .. MaxOutput
    BY SMT
  <2> QED
    BY <2>1, <2>2 DEF CommandTypes
<1>2. Traced
  BY DEF Traced
<1>3. Still /\ Shell!SuccessIsWhole
  BY DEF Still, Shell!SuccessIsWhole
<1> QED
  BY <1>1, <1>2, <1>3 DEF CommandInv

\* No event, timer, abort or process of the group breaks any of it.
LEMMA CommandStep == CommandInv /\ [Shell!Next]_(Shell!vars) => CommandInv'
<1> SUFFICES ASSUME CommandInv, [Shell!Next]_(Shell!vars) PROVE CommandInv'
  OBVIOUS
<1> USE BoundsAreNatural DEF CommandInv, CommandTypes, Traced, Still, Shell!SuccessIsWhole, Shell!Runs
<1>1. CASE Shell!Start
  BY <1>1 DEF Shell!Start, Shell!output
<1>2. CASE Shell!SpawnFails
  BY <1>2 DEF Shell!SpawnFails, Shell!Settle, Shell!output
<1>3. CASE Shell!Abort
  <2>1. CASE listener
    BY <1>3, <2>1 DEF Shell!Abort, Shell!KillGroup, Shell!output
  <2>2. CASE ~listener
    BY <1>3, <2>2 DEF Shell!Abort, Shell!output, Shell!process
  <2> QED
    BY <2>1, <2>2
<1>4. CASE Shell!Timeout
  BY <1>4 DEF Shell!Timeout, Shell!KillGroup, Shell!output
<1>5. CASE Shell!Reads
  BY <1>5 DEF Shell!Reads, Shell!process, Shell!output
<1>6. CASE Shell!Output
  <2>1. CASE stdoutBytes + 1 > MaxOutput
    BY <1>6, <2>1 DEF Shell!Output
  <2>2. CASE ~(stdoutBytes + 1 > MaxOutput)
    BY <1>6, <2>2 DEF Shell!Output
  <2> QED
    BY <2>1, <2>2
<1>7. ASSUME NEW code \in {"zero", "failed"}, Shell!Exits(code) PROVE CommandInv'
  BY <1>7 DEF Shell!Exits, Shell!output
<1>8. CASE Shell!HelperExits
  BY <1>8 DEF Shell!HelperExits, Shell!output
<1>9. CASE Shell!StdinEnds
  <2>1. CASE stdin' = "closed"
    BY <1>9, <2>1 DEF Shell!StdinEnds, Shell!process, Shell!output
  <2>2. CASE stdin' = "broken"
    BY <1>9, <2>2 DEF Shell!StdinEnds, Shell!process, Shell!output
  <2> QED
    BY <1>9, <2>1, <2>2 DEF Shell!StdinEnds
<1>10. CASE Shell!Close
  BY <1>10 DEF Shell!Close, Shell!Settle, Shell!process, Shell!output
<1>11. CASE UNCHANGED Shell!vars
  BY <1>11 DEF Shell!vars, Shell!process, Shell!output
<1> QED
  BY <1>1, <1>2, <1>3, <1>4, <1>5, <1>6, <1>7, <1>8, <1>9, <1>10, <1>11 DEF Shell!Next

-----------------------------------------------------------------------------
(* TranscriptActivity *)

\* What the pulse has seen of this block, besides the properties.
PulseTypes ==
    /\ stream \in {"idle", "quiet", "thinking", "other"} /\ theme \in Themes
    /\ pulses \in Nat /\ block \in Nat
    /\ active \subseteq 1 .. pulses /\ timers \subseteq 1 .. pulses
    /\ row \in {"idle", "pulse"} /\ live \in BOOLEAN /\ seen \in BOOLEAN
    /\ rate \subseteq 1 .. block
    /\ liveTools \subseteq Tools /\ ticker \in {"none", "runs"}

\* Once a delta of this block was seen, the tracker holds rates of this block alone.
LiveRates ==
    /\ live => samples \subseteq {block}
    /\ stream = "thinking" => block > 0

ActivityInv ==
    /\ PulseTypes /\ LiveRates
    /\ Activity!RowFollowsThinking /\ Activity!RateIsOfThisBlock /\ Activity!TickerFollowsTools

\* The pulse stops with its stream: the row is given back, whoever had it.
LEMMA StopKeeps ==
  ASSUME ActivityInv, Activity!Stop, stream' \in {"idle", "quiet", "other"}, UNCHANGED theme
  PROVE  /\ Activity!RowFollowsThinking' /\ Activity!RateIsOfThisBlock' /\ LiveRates'
         /\ active' \subseteq 1 .. pulses' /\ timers' \subseteq 1 .. pulses'
         /\ row' \in {"idle", "pulse"} /\ rate' \subseteq 1 .. block'
         /\ live' \in BOOLEAN /\ seen' \in BOOLEAN /\ pulses' \in Nat /\ block' \in Nat
BY DEF ActivityInv, PulseTypes, LiveRates, Activity!Stop, Activity!RowFollowsThinking,
       Activity!RateIsOfThisBlock

\* An event of thinking starts the pulse or goes on with it.
LEMMA ObserveKeeps ==
  ASSUME ActivityInv, NEW delta \in BOOLEAN, Activity!Observe(delta), stream' = "thinking", UNCHANGED theme
  PROVE  /\ Activity!RowFollowsThinking' /\ Activity!RateIsOfThisBlock' /\ LiveRates'
         /\ active' \subseteq 1 .. pulses' /\ timers' \subseteq 1 .. pulses'
         /\ row' \in {"idle", "pulse"} /\ rate' \subseteq 1 .. block'
         /\ live' \in BOOLEAN /\ seen' \in BOOLEAN /\ pulses' \in Nat /\ block' \in Nat
<1> DEFINE isNew == pulses = 0 \/ pulseTheme # theme
           starts == isNew \/ active = {}
<1>0. ActivityInv
  OBVIOUS
<1> USE DEF ActivityInv, PulseTypes, LiveRates, Activity!RowFollowsThinking, Activity!RateIsOfThisBlock
<1>1. CASE starts /\ isNew
  <2>1. /\ pulses' = pulses + 1 /\ active' = {pulses + 1}
        /\ timers' = {} \/ timers' = {pulses + 1}
        /\ block' = block + 1 /\ live' = FALSE /\ seen' = TRUE /\ row' = "pulse" /\ rate' = {}
    BY <1>1 DEF Activity!Observe, Activity!Replaced
  <2>2. pulses' \in Nat /\ active' \subseteq 1 .. pulses' /\ timers' \subseteq active'
    BY <2>1
  <2>3. block' \in Nat /\ block' > 0
    BY <2>1
  <2> QED
    BY <1>0, <2>1, <2>2, <2>3
<1>2. CASE starts /\ ~isNew
  <2>1. /\ pulses' = pulses /\ active' = {pulses} /\ pulses # 0
        /\ timers' = {} \/ timers' = {pulses}
        /\ block' = block + 1 /\ live' = FALSE /\ seen' = TRUE /\ row' = "pulse" /\ rate' = {}
    BY <1>2 DEF Activity!Observe
  <2>2. pulses' \in Nat /\ active' \subseteq 1 .. pulses' /\ timers' \subseteq active'
    BY <2>1
  <2>3. block' \in Nat /\ block' > 0
    BY <2>1
  <2> QED
    BY <1>0, <2>1, <2>2, <2>3
<1>3. CASE ~starts
  <2>1. /\ live' = (live \/ (delta /\ seen)) /\ seen' = TRUE
        /\ UNCHANGED <<pulses, active, timers, block>>
    BY <1>3 DEF Activity!Observe
  <2>2. PICK S \in SUBSET Activity!Averaged(delta /\ seen) :
            /\ samples' = S
            /\ IF ReducedMotion THEN row' = "pulse" /\ Activity!ShowRate(live', S)
                                ELSE UNCHANGED <<row, rate>>
    BY <1>3 DEF Activity!Observe
  <2>3. stream = "thinking" /\ row = "pulse" /\ active = {pulses}
    BY <1>0, <1>3
  <2>4. live' => S \subseteq {block}
    BY <1>0, <2>1, <2>2 DEF Activity!Averaged
  <2>5. row' = "pulse" /\ rate' \subseteq {block}
    <3>1. CASE ReducedMotion
      BY <2>2, <2>4, <3>1 DEF Activity!ShowRate
    <3>2. CASE ~ReducedMotion
      BY <1>0, <2>2, <2>3, <3>2
    <3> QED
      BY <3>1, <3>2
  <2>6. block \in 1 .. block
    BY <1>0, <2>3
  <2> QED
    BY <1>0, <2>1, <2>2, <2>3, <2>4, <2>5, <2>6
<1> QED
  BY <1>1, <1>2, <1>3

\* The ticker runs exactly while a tool is live, whatever happens to one of them.
LEMMA TickerKeeps ==
  ASSUME ActivityInv,
         \/ \E t \in Tools : Activity!Render(t)
         \/ Activity!Tick
         \/ Activity!Settle
  PROVE  /\ Activity!TickerFollowsTools'
         /\ liveTools' \subseteq Tools /\ ticker' \in {"none", "runs"}
BY DEF ActivityInv, PulseTypes, Activity!TickerFollowsTools, Activity!Render, Activity!Register,
       Activity!Unregister, Activity!Tick, Activity!Settle

\* Every step keeps the row with the stream, the rate with the block and the ticker with
\* the calls.
LEMMA ActivityStep == ActivityInv /\ [Activity!Next]_(Activity!vars) => ActivityInv'
<1> SUFFICES ASSUME ActivityInv, [Activity!Next]_(Activity!vars) PROVE ActivityInv'
  OBVIOUS
<1>0. ActivityInv
  OBVIOUS
<1>1. ASSUME NEW p \in 1 .. pulses, Activity!Frame(p) PROVE ActivityInv'
  <2> USE DEF ActivityInv, PulseTypes, LiveRates, Activity!RowFollowsThinking,
              Activity!RateIsOfThisBlock, Activity!TickerFollowsTools
  <2>1. p \in active /\ stream = "thinking"
    BY <1>0, <1>1 DEF Activity!Frame
  <2>2. PICK S \in SUBSET samples : samples' = S /\ Activity!ShowRate(live, S)
    BY <1>1, <2>1 DEF Activity!Frame
  <2>3. rate' \subseteq {block} /\ (live => samples' \subseteq {block}) /\ block \in 1 .. block
    BY <1>0, <2>1, <2>2 DEF Activity!ShowRate
  <2> QED
    BY <1>0, <1>1, <2>1, <2>3 DEF Activity!Frame, Activity!toolVars
<1>2. ASSUME (\E t \in Tools : Activity!Render(t)) \/ Activity!Tick PROVE ActivityInv'
  <2>1. /\ UNCHANGED <<stream, theme, pulses, active, timers, live, seen, samples, row, rate, block>>
    BY <1>2 DEF Activity!Render, Activity!Tick, Activity!pulseVars
  <2> QED
    BY <1>0, <1>2, <2>1, TickerKeeps DEF ActivityInv, PulseTypes, LiveRates,
       Activity!RowFollowsThinking, Activity!RateIsOfThisBlock
<1>3. ASSUME NEW delta \in BOOLEAN, Activity!Thinks(delta) PROVE ActivityInv'
  <2>1. stream' = "thinking" /\ Activity!Observe(delta) /\ UNCHANGED <<theme, liveTools, ticker>>
    BY <1>3 DEF Activity!Thinks, Activity!toolVars
  <2> QED
    BY <1>0, <2>1, ObserveKeeps DEF ActivityInv, PulseTypes, Activity!TickerFollowsTools
<1>4. CASE Activity!Speaks \/ Activity!MessageEnds
  <2>1. stream' \in {"quiet", "other"} /\ Activity!Stop /\ UNCHANGED <<theme, liveTools, ticker>>
    BY <1>4 DEF Activity!Speaks, Activity!MessageEnds, Activity!toolVars
  <2> QED
    BY <1>0, <2>1, StopKeeps DEF ActivityInv, PulseTypes, Activity!TickerFollowsTools
<1>5. CASE Activity!Ends("quiet") \/ Activity!Ends("idle")
  <2>1. stream' \in {"quiet", "idle"} /\ Activity!Stop /\ Activity!Settle /\ UNCHANGED theme
    BY <1>5 DEF Activity!Ends
  <2> QED
    BY <1>0, <2>1, StopKeeps, TickerKeeps DEF ActivityInv, PulseTypes
<1>6. CASE Activity!AgentStarts \/ \E t \in Tools : Activity!CallStarts(t) \/ Activity!CallSettles(t)
  <2>1. /\ UNCHANGED <<theme, pulses, active, timers, live, seen, samples, row, rate, block, liveTools, ticker>>
        /\ stream' = stream \/ (stream = "idle" /\ stream' = "quiet")
    BY <1>6 DEF Activity!AgentStarts, Activity!CallStarts, Activity!CallSettles, Activity!pulseVars,
                Activity!toolVars
  <2> QED
    BY <1>0, <2>1 DEF ActivityInv, PulseTypes, LiveRates, Activity!RowFollowsThinking,
                      Activity!RateIsOfThisBlock, Activity!TickerFollowsTools
<1>7. ASSUME NEW h \in Themes, Activity!ThemeChanges(h) PROVE ActivityInv'
  <2>1. /\ UNCHANGED <<stream, pulses, active, timers, live, seen, samples, row, rate, block, liveTools, ticker>>
        /\ theme' \in Themes
    BY <1>7 DEF Activity!ThemeChanges, Activity!pulseVars, Activity!toolVars
  <2> QED
    BY <1>0, <2>1 DEF ActivityInv, PulseTypes, LiveRates, Activity!RowFollowsThinking,
                      Activity!RateIsOfThisBlock, Activity!TickerFollowsTools
<1>8. CASE UNCHANGED Activity!vars
  <2>1. UNCHANGED <<stream, theme, pulses, active, timers, live, seen, samples, row, rate, block, liveTools, ticker>>
    BY <1>8 DEF Activity!vars, Activity!pulseVars, Activity!toolVars
  <2> QED
    BY <1>0, <2>1 DEF ActivityInv, PulseTypes, LiveRates, Activity!RowFollowsThinking,
                      Activity!RateIsOfThisBlock, Activity!TickerFollowsTools
<1> QED
  BY <1>1, <1>2, <1>3, <1>4, <1>5, <1>6, <1>7, <1>8 DEF Activity!Next

\* At the start nothing moves.
LEMMA ActivityInit == Activity!Init => ActivityInv
<1> SUFFICES ASSUME Activity!Init PROVE ActivityInv
  OBVIOUS
<1>1. /\ stream = "idle" /\ theme \in Themes /\ pulses = 0 /\ active = {} /\ timers = {}
      /\ live = FALSE /\ seen = FALSE /\ row = "idle" /\ rate = {} /\ block = 0
      /\ liveTools = {} /\ ticker = "none"
  BY DEF Activity!Init
<1>2. PulseTypes
  <2>1. pulses \in Nat /\ block \in Nat
    BY <1>1
  <2> QED
    BY <1>1, <2>1 DEF PulseTypes
<1>3. LiveRates
  BY <1>1 DEF LiveRates
<1>4. Activity!RowFollowsThinking
  BY <1>1 DEF Activity!RowFollowsThinking
<1>5. Activity!RateIsOfThisBlock /\ Activity!TickerFollowsTools
  BY <1>1 DEF Activity!RateIsOfThisBlock, Activity!TickerFollowsTools
<1> QED
  BY <1>2, <1>3, <1>4, <1>5 DEF ActivityInv

-----------------------------------------------------------------------------
(* Paths *)

Component == STRING
Strings == Seq(Component)

\* One path is inside another when it continues it, component by component.
LEMMA InsideIs ==
  ASSUME NEW p \in Strings, NEW q \in Strings
  PROVE  Mounts!IsInside(p, q) <=> Len(p) <= Len(q) /\ \A i \in 1 .. Len(p) : p[i] = q[i]
<1> USE DEF Strings
<1>1. Len(p) \in Nat /\ Len(q) \in Nat
  BY LenProperties
<1>2. CASE Len(p) <= Len(q)
  <2>1. \A i \in 1 .. Len(p) : p[i] \in Component /\ q[i] \in Component
    BY <1>1, <1>2, ElementOfSeq
  <2> DEFINE s == SubSeq(p, 1, Len(p))
             t == SubSeq(q, 1, Len(p))
  <2>2. s \in Seq(Component) /\ Len(s) = Len(p) /\ \A i \in 1 .. Len(p) : s[i] = p[i]
    <3>1. s \in Seq(Component) /\ Len(s) = IF 1 <= Len(p) THEN Len(p) - 1 + 1 ELSE 0
      BY <1>1, <2>1, SubSeqProperties
    <3>2. \A i \in 1 .. Len(p) - 1 + 1 : s[i] = p[1 + i - 1]
      BY <1>1, <2>1, SubSeqProperties
    <3> HIDE DEF s
    <3>3. Len(s) = Len(p)
      BY <1>1, <3>1
    <3>4. ASSUME NEW i \in 1 .. Len(p) PROVE s[i] = p[i]
      <4>1. i \in 1 .. Len(p) - 1 + 1 /\ 1 + i - 1 = i
        BY <1>1
      <4> QED
        BY <3>2, <4>1
    <3> QED
      BY <3>1, <3>3, <3>4
  <2>3. t \in Seq(Component) /\ Len(t) = Len(p) /\ \A i \in 1 .. Len(p) : t[i] = q[i]
    <3>1. t \in Seq(Component) /\ Len(t) = IF 1 <= Len(p) THEN Len(p) - 1 + 1 ELSE 0
      BY <1>1, <2>1, SubSeqProperties
    <3>2. \A i \in 1 .. Len(p) - 1 + 1 : t[i] = q[1 + i - 1]
      BY <1>1, <2>1, SubSeqProperties
    <3> HIDE DEF t
    <3>3. Len(t) = Len(p)
      BY <1>1, <3>1
    <3>4. ASSUME NEW i \in 1 .. Len(p) PROVE t[i] = q[i]
      <4>1. i \in 1 .. Len(p) - 1 + 1 /\ 1 + i - 1 = i
        BY <1>1
      <4> QED
        BY <3>2, <4>1
    <3> QED
      BY <3>1, <3>3, <3>4
  <2> HIDE DEF s, t
  <2>4. (s = t) <=> \A i \in 1 .. Len(p) : p[i] = q[i]
    <3>1. ASSUME s = t, NEW i \in 1 .. Len(p) PROVE p[i] = q[i]
      BY <2>2, <2>3, <3>1
    <3>2. ASSUME \A i \in 1 .. Len(p) : p[i] = q[i] PROVE s = t
      <4>1. \A i \in 1 .. Len(s) : s[i] = t[i]
        BY <2>2, <2>3, <3>2
      <4> QED
        BY <2>2, <2>3, <4>1, SeqEqual
    <3> QED
      BY <3>1, <3>2
  <2>5. Mounts!IsInside(p, q) <=> s = t
    BY <1>2 DEF Mounts!IsInside, Mounts!IsPrefix, s, t
  <2> QED
    BY <1>2, <2>4, <2>5
<1>3. CASE ~(Len(p) <= Len(q))
  BY <1>3 DEF Mounts!IsInside, Mounts!IsPrefix
<1> QED
  BY <1>2, <1>3

\* Being inside is an order ...
LEMMA InsideIsOrder ==
  /\ \A p \in Strings : Mounts!IsInside(p, p)
  /\ \A p, q, r \in Strings : Mounts!IsInside(p, q) /\ Mounts!IsInside(q, r) => Mounts!IsInside(p, r)
<1>1. ASSUME NEW p \in Strings PROVE Mounts!IsInside(p, p)
  BY InsideIs, LenProperties DEF Strings
<1>2. ASSUME NEW p \in Strings, NEW q \in Strings, NEW r \in Strings,
             Mounts!IsInside(p, q), Mounts!IsInside(q, r)
      PROVE  Mounts!IsInside(p, r)
  <2>1. Len(p) \in Nat /\ Len(q) \in Nat /\ Len(r) \in Nat
    BY LenProperties DEF Strings
  <2>2. Len(p) <= Len(q) /\ \A i \in 1 .. Len(p) : p[i] = q[i]
    BY <1>2, InsideIs
  <2>3. Len(q) <= Len(r) /\ \A i \in 1 .. Len(q) : q[i] = r[i]
    BY <1>2, InsideIs
  <2>4. Len(p) <= Len(r) /\ \A i \in 1 .. Len(p) : p[i] = r[i]
    BY <2>1, <2>2, <2>3
  <2> QED
    BY <2>4, InsideIs
<1> QED
  BY <1>1, <1>2

\* ... in which what is around one path is nested.
LEMMA InsideIsNested ==
  ASSUME NEW p \in Strings, NEW q \in Strings, NEW r \in Strings,
         Mounts!IsInside(p, r), Mounts!IsInside(q, r)
  PROVE  /\ Mounts!IsInside(p, q) \/ Mounts!IsInside(q, p)
         /\ Len(p) <= Len(q) => Mounts!IsInside(p, q)
         /\ Len(p) = Len(q) => p = q
<1>1. Len(p) \in Nat /\ Len(q) \in Nat /\ Len(r) \in Nat
  BY LenProperties DEF Strings
<1>2. Len(p) <= Len(r) /\ \A i \in 1 .. Len(p) : p[i] = r[i]
  BY InsideIs
<1>3. Len(q) <= Len(r) /\ \A i \in 1 .. Len(q) : q[i] = r[i]
  BY InsideIs
<1>4. Len(p) <= Len(q) => Mounts!IsInside(p, q)
  <2> SUFFICES ASSUME Len(p) <= Len(q) PROVE Mounts!IsInside(p, q)
    OBVIOUS
  <2>1. \A i \in 1 .. Len(p) : p[i] = q[i]
    BY <1>1, <1>2, <1>3
  <2> QED
    BY <2>1, InsideIs
<1>5. Len(q) <= Len(p) => Mounts!IsInside(q, p)
  <2> SUFFICES ASSUME Len(q) <= Len(p) PROVE Mounts!IsInside(q, p)
    OBVIOUS
  <2>1. \A i \in 1 .. Len(q) : q[i] = p[i]
    BY <1>1, <1>2, <1>3
  <2> QED
    BY <2>1, InsideIs
<1>6. Len(p) = Len(q) => p = q
  <2> SUFFICES ASSUME Len(p) = Len(q) PROVE p = q
    OBVIOUS
  <2>1. \A i \in 1 .. Len(p) : p[i] = q[i]
    BY <1>1, <1>2, <1>3
  <2> QED
    BY <2>1, SeqEqual DEF Strings
<1> QED
  BY <1>1, <1>4, <1>5, <1>6

\* What appending does.
LEMMA AppendIs ==
  ASSUME NEW S, NEW p \in Seq(S), NEW x \in S
  PROVE  /\ Append(p, x) \in Seq(S)
         /\ Len(Append(p, x)) = Len(p) + 1
         /\ \A i \in 1 .. Len(p) : Append(p, x)[i] = p[i]
         /\ Append(p, x)[Len(p) + 1] = x
  BY AppendProperties

\* A directory contains what is put into it, and is not inside it.
LEMMA JoinIs ==
  ASSUME NEW p \in Strings, NEW name, Mounts!Join(p, name) \in Strings
  PROVE  /\ Mounts!IsInside(p, Mounts!Join(p, name))
         /\ ~Mounts!IsInside(Mounts!Join(p, name), p)
<1> DEFINE q == Append(p, name)
           S == Component \cup {name}
<1>1. p \in Seq(S) /\ name \in S
  BY SeqMonotonic DEF Strings
<1> HIDE DEF S
<1>2. Len(q) = Len(p) + 1 /\ \A i \in 1 .. Len(p) : q[i] = p[i]
  BY <1>1, AppendIs
<1>3. Len(p) \in Nat
  BY LenProperties DEF Strings
<1>4. q = Mounts!Join(p, name)
  BY DEF Mounts!Join
<1> HIDE DEF q
<1>5. q \in Strings
  BY <1>4
<1>6. Mounts!IsInside(p, q) /\ ~Mounts!IsInside(q, p)
  BY <1>2, <1>3, <1>5, InsideIs
<1> QED
  BY <1>4, <1>6

\* The parent of a path is around it.
LEMMA FrontIs ==
  ASSUME NEW p \in Strings, p # <<>>
  PROVE  Mounts!Front(p) \in Strings /\ Mounts!IsInside(Mounts!Front(p), p)
<1> DEFINE q == SubSeq(p, 1, Len(p) - 1)
<1>1. Len(p) \in Nat /\ Len(p) > 0
  BY LenProperties, EmptySeq DEF Strings
<1>2. \A i \in 1 .. Len(p) - 1 : p[i] \in Component
  BY <1>1, ElementOfSeq DEF Strings
<1>3. Len(p) - 1 \in Int /\ 1 \in Int
  BY <1>1
<1>4. q \in Seq(Component) /\ Len(q) = IF 1 <= Len(p) - 1 THEN Len(p) - 1 - 1 + 1 ELSE 0
  BY <1>2, <1>3, SubSeqProperties
<1>5. \A i \in 1 .. Len(p) - 1 - 1 + 1 : q[i] = p[1 + i - 1]
  BY <1>2, <1>3, SubSeqProperties
<1> HIDE DEF q
<1>6. Len(q) = Len(p) - 1
  <2> DEFINE n == Len(p)
             l == Len(q)
  <2>1. n \in Nat /\ n > 0 /\ l = IF 1 <= n - 1 THEN n - 1 - 1 + 1 ELSE 0
    BY <1>1, <1>4
  <2> HIDE DEF n, l
  <2>2. l = n - 1
    BY <2>1
  <2> QED
    BY <2>2 DEF n, l
<1>7. ASSUME NEW i \in 1 .. Len(q) PROVE q[i] = p[i]
  <2>1. i \in 1 .. Len(p) - 1 - 1 + 1 /\ 1 + i - 1 = i
    BY <1>1, <1>6
  <2> QED
    BY <1>5, <2>1
<1>8. q \in Strings
  BY <1>4 DEF Strings
<1>9. Mounts!IsInside(q, p)
  BY <1>1, <1>6, <1>7, <1>8, InsideIs
<1> QED
  BY <1>8, <1>9 DEF Mounts!Front, q

\* Of the directories around a path that are in a set one is outermost.
LEMMA OutermostExists ==
  ASSUME NEW S \in SUBSET Strings, NEW t \in S
  PROVE  \E m \in Mounts!OutermostMounts(S) : Mounts!IsInside(m, t)
<1> DEFINE A == {p \in S : Mounts!IsInside(p, t)}
           T == {Len(p) : p \in A}
           R == OpToRel(<, Nat)
<1>1. t \in A
  BY InsideIsOrder
<1>2. T \subseteq Nat /\ T # {}
  <2>1. \A p \in Strings : Len(p) \in Nat
    BY LenProperties DEF Strings
  <2> QED
    BY <1>1, <2>1
<1>3. IsWellFoundedOn(R, Nat)
  BY NatLessThanWellFounded
<1>4. \A x, y \in Nat : x < y => <<x, y>> \in R
  BY DEF OpToRel
<1> HIDE DEF R, T
<1>5. \E x \in T : \A y \in T : ~(<<y, x>> \in R)
  BY <1>2, <1>3, WFMin
<1>6. PICK x \in T : \A y \in T : ~(y < x)
  BY <1>2, <1>4, <1>5
<1>7. PICK m \in A : x = Len(m)
  BY DEF T
<1>8. ASSUME NEW q \in S, Mounts!IsInside(q, m) PROVE q = m
  <2>1. q \in A
    BY <1>7, <1>8, InsideIsOrder
  <2>2. Len(q) \in T
    BY <2>1 DEF T
  <2>3. Len(q) <= Len(m)
    BY <1>7, <1>8, InsideIs
  <2>4. Len(q) = Len(m)
    BY <1>2, <1>6, <1>7, <2>2, <2>3
  <2> QED
    BY <1>7, <2>1, <2>4, InsideIsNested
<1>9. m \in Mounts!OutermostMounts(S)
  BY <1>7, <1>8 DEF Mounts!OutermostMounts
<1> QED
  BY <1>7, <1>9

-----------------------------------------------------------------------------
(* The mounts of the sandbox *)

In(p, q) == Mounts!IsInside(p, q)

\* What is left to be done to a path.
Left(what, p) == [does |-> what, at |-> p] \in todo

\* What has been looked at on the host is the worktree and what the toolchain is in.
MountTypes ==
    /\ worktree \in Worktrees /\ runtime \in Runtimes
    /\ kind \in [Paths -> {"absent", "real", "link"}] /\ kind[worktree] = "real"
    /\ stage \in {"prepare", "check", "mount", "done", "refused"}
    /\ view \in [Paths -> {"absent", "scratch", "link", "ro", "rw"}]

\* What is left is a suffix of the order.
Ordered ==
    /\ todo \subseteq Mounts!Arguments
    /\ \A a \in Mounts!Arguments, b \in todo : Mounts!Before(b, a) => a \in todo

\* How far it is.
Staged ==
    /\ stage \in {"prepare", "check", "refused"} => todo = {}
    /\ stage \in {"prepare", "check"} => \A p \in Paths : view[p] = "absent"
    /\ stage \in {"check", "mount", "done"} => \A o \in Mounts!Owned : kind[o] = "real"
    /\ stage \in {"mount", "done"} => Mounts!SafeDynamicMount
    /\ stage = "done" => todo = {}

\* Until the worktree is bound only what has been mounted of the toolchain is there ...
BeforeBind ==
    Left("bind", worktree) =>
        \A p \in Paths :
            /\ view[p] # "rw"
            /\ view[p] = "ro" => \E m \in Mounts!Real : ~Left("ro", m) /\ In(m, p)

\* ... and it stays, but for what the worktree covers.
ToolchainStays ==
    \A m \in Mounts!Real, p \in Paths :
        /\ ~Left("ro", m) /\ In(m, p) /\ kind[p] # "absent"
        /\ Left("bind", worktree) \/ ~In(worktree, p)
        => view[p] = "ro"

\* Then the worktree is what can be written, without the directories covered since.
WorktreeIsBound ==
    ~Left("bind", worktree) =>
        \A p \in Paths :
            /\ (view[p] = "rw") <=>
                  /\ kind[p] # "absent" /\ In(worktree, p)
                  /\ \A o \in Mounts!Owned : In(o, p) => Left("protect", o)
            /\ In(worktree, p) /\ kind[p] # "absent" => view[p] \in {"ro", "rw"}

\* What is visible of the host is in one of the mounts.
MountsOnly ==
    \A p \in Paths :
        view[p] \in {"ro", "rw"} => In(worktree, p) \/ \E m \in Mounts!Real : In(m, p)

Views == BeforeBind /\ ToolchainStays /\ WorktreeIsBound /\ MountsOnly

MountInv ==
    /\ MountTypes /\ Ordered /\ Staged
    /\ stage \in {"mount", "done"} => Views

\* The paths that matter are paths.
LEMMA PathsAre ==
  ASSUME worktree \in Worktrees, runtime \in Runtimes
  PROVE  /\ Paths \subseteq Strings /\ worktree \in Paths
         /\ Mounts!Owned \subseteq Paths /\ Mounts!Toolchain \subseteq Paths
         /\ Secrets \subseteq Paths /\ runtime \in Paths /\ <<"tmp">> \in Paths
         /\ \A p \in Paths : p # <<>> => Mounts!Front(p) \in Paths
         /\ \A m \in Mounts!Toolchain : m \in System \/ In(runtime, m)
         /\ \A o \in Mounts!Owned : In(worktree, o) /\ ~In(o, worktree)
<1>1. /\ Paths \subseteq Strings /\ Secrets \subseteq Paths /\ System \subseteq Paths
      /\ <<"tmp">> \in Paths /\ \A p \in Paths : p # <<>> => Mounts!Front(p) \in Paths
  BY HostIsATree DEF Mounts!PathsAssumption, Strings, Component
<1>2. \A name \in Mounts!Protected : worktree \in Paths /\ Mounts!Join(worktree, name) \in Paths
  BY HostIsATree DEF Mounts!PathsAssumption
<1>3. \A name \in {"bin", "lib"} : runtime \in Paths /\ Mounts!Join(runtime, name) \in Paths
  BY HostIsATree DEF Mounts!PathsAssumption
<1>4. worktree \in Paths /\ runtime \in Paths
  BY <1>2, <1>3 DEF Mounts!Protected
<1>5. \A o \in Mounts!Owned : o \in Paths /\ In(worktree, o) /\ ~In(o, worktree)
  BY <1>1, <1>2, <1>4, JoinIs DEF Mounts!Owned, In
<1>6. \A m \in Mounts!Toolchain : m \in Paths /\ (m \in System \/ In(runtime, m))
  BY <1>1, <1>3, <1>4, JoinIs DEF Mounts!Toolchain, In
<1> QED
  BY <1>1, <1>4, <1>5, <1>6

\* What is mounted of the toolchain exists, and no part of it is in another.
LEMMA RealIs ==
  ASSUME MountTypes
  PROVE  /\ Mounts!Real \subseteq Mounts!Toolchain
         /\ \A m \in Mounts!Real : m \in Paths /\ kind[m] = "real"
         /\ \A m, n \in Mounts!Real : In(m, n) => m = n
         /\ Mounts!Links \subseteq Paths
  BY PathsAre DEF MountTypes, Mounts!Real, Mounts!OutermostMounts, Mounts!Links, In

\* The arguments, one by one.
LEMMA ArgumentsAre ==
  ASSUME MountTypes
  PROVE  /\ \A a \in Mounts!Arguments :
               /\ a = [does |-> a.does, at |-> a.at] /\ a.at \in Paths
               /\ \/ a.does = "scratch" /\ Len(a.at) = 1
                  \/ a.does = "dir"
                  \/ a.does = "link"
                  \/ a.does = "ro" /\ a.at \in Mounts!Real
                  \/ a.does = "bind" /\ a.at = worktree
                  \/ a.does = "protect" /\ a.at \in Mounts!Owned
         /\ \A m \in Mounts!Real : [does |-> "ro", at |-> m] \in Mounts!Arguments
         /\ [does |-> "bind", at |-> worktree] \in Mounts!Arguments
         /\ \A o \in Mounts!Owned : [does |-> "protect", at |-> o] \in Mounts!Arguments
<1> DEFINE D == Mounts!Parents(Mounts!Real \cup Mounts!Links \cup {worktree} \cup Mounts!Owned)
<1>1. D \subseteq Paths
  BY DEF Mounts!Parents
<1> HIDE DEF D
<1>2. Mounts!Arguments = [does : {"scratch"}, at : {<<"tmp">>}] \cup [does : {"dir"}, at : D]
                         \cup [does : {"link"}, at : Mounts!Links]
                         \cup [does : {"ro"}, at : Mounts!Real]
                         \cup [does : {"bind"}, at : {worktree}]
                         \cup [does : {"protect"}, at : Mounts!Owned]
  BY DEF Mounts!Arguments, Mounts!Each, D
<1>3. ASSUME NEW a \in Mounts!Arguments
      PROVE  /\ a = [does |-> a.does, at |-> a.at] /\ a.at \in Paths
             /\ \/ a.does = "scratch" /\ Len(a.at) = 1
                \/ a.does = "dir"
                \/ a.does = "link"
                \/ a.does = "ro" /\ a.at \in Mounts!Real
                \/ a.does = "bind" /\ a.at = worktree
                \/ a.does = "protect" /\ a.at \in Mounts!Owned
  <2>1. CASE a \in [does : {"scratch"}, at : {<<"tmp">>}]
    <3>1. a = [does |-> a.does, at |-> a.at] /\ a.does = "scratch" /\ a.at = <<"tmp">>
      BY <2>1
    <3>2. Len(<<"tmp">>) = 1
      OBVIOUS
    <3> QED
      BY <3>1, <3>2, PathsAre DEF MountTypes
  <2>2. CASE a \in [does : {"dir"}, at : D]
    BY <1>1, <2>2
  <2>3. CASE a \in [does : {"link"}, at : Mounts!Links]
    BY <2>3, RealIs
  <2>4. CASE a \in [does : {"ro"}, at : Mounts!Real]
    BY <2>4, RealIs
  <2>5. CASE a \in [does : {"bind"}, at : {worktree}]
    BY <2>5, PathsAre DEF MountTypes
  <2>6. CASE a \in [does : {"protect"}, at : Mounts!Owned]
    BY <2>6, PathsAre DEF MountTypes
  <2> QED
    BY <1>2, <2>1, <2>2, <2>3, <2>4, <2>5, <2>6
<1>4. \A m \in Mounts!Real : [does |-> "ro", at |-> m] \in Mounts!Arguments
  BY <1>2
<1>5. [does |-> "bind", at |-> worktree] \in Mounts!Arguments
  BY <1>2
<1>6. \A o \in Mounts!Owned : [does |-> "protect", at |-> o] \in Mounts!Arguments
  BY <1>2
<1> QED
  BY <1>3, <1>4, <1>5, <1>6

\* While one argument is next, those of later kinds are left and those of earlier
\* kinds are done.
LEMMA OrderIs ==
  ASSUME MountTypes, Ordered, NEW arg \in todo, \A other \in todo : ~Mounts!Before(other, arg)
  PROVE  /\ arg.does \in {"scratch", "dir", "link"} =>
               \A m \in Mounts!Real : Left("ro", m)
         /\ arg.does \in {"scratch", "dir", "link", "ro"} => Left("bind", worktree)
         /\ arg.does = "bind" => \A o \in Mounts!Owned : Left("protect", o)
         /\ arg.does = "protect" => ~Left("bind", worktree)
<1>1. \A a \in Mounts!Arguments : Mounts!Before(arg, a) => a \in todo
  BY DEF Ordered
<1>2. ASSUME NEW m \in Mounts!Real, arg.does \in {"scratch", "dir", "link"}
      PROVE  Left("ro", m)
  <2> DEFINE a == [does |-> "ro", at |-> m]
  <2>1. a \in Mounts!Arguments /\ a.does = "ro"
    BY ArgumentsAre
  <2>2. Mounts!Turn["ro"] = 4 /\ Mounts!Turn[arg.does] \in 1 .. 3
    BY <1>2 DEF Mounts!Turn
  <2>3. Mounts!Before(arg, a)
    BY <2>1, <2>2 DEF Mounts!Before
  <2> QED
    BY <1>1, <2>1, <2>3 DEF Left
<1>3. ASSUME arg.does \in {"scratch", "dir", "link", "ro"}
      PROVE  Left("bind", worktree)
  <2> DEFINE a == [does |-> "bind", at |-> worktree]
  <2>1. a \in Mounts!Arguments /\ a.does = "bind"
    BY ArgumentsAre
  <2>2. Mounts!Turn["bind"] = 5 /\ Mounts!Turn[arg.does] \in 1 .. 4
    BY <1>3 DEF Mounts!Turn
  <2>3. Mounts!Before(arg, a)
    BY <2>1, <2>2 DEF Mounts!Before
  <2> QED
    BY <1>1, <2>1, <2>3 DEF Left
<1>4. ASSUME NEW o \in Mounts!Owned, arg.does = "bind"
      PROVE  Left("protect", o)
  <2> DEFINE a == [does |-> "protect", at |-> o]
  <2>1. a \in Mounts!Arguments /\ a.does = "protect"
    BY ArgumentsAre
  <2>2. Mounts!Turn["protect"] = 6 /\ Mounts!Turn[arg.does] = 5
    BY <1>4 DEF Mounts!Turn
  <2>3. Mounts!Before(arg, a)
    BY <2>1, <2>2 DEF Mounts!Before
  <2> QED
    BY <1>1, <2>1, <2>3 DEF Left
<1>5. ASSUME arg.does = "protect", Left("bind", worktree)
      PROVE  FALSE
  <2> DEFINE a == [does |-> "bind", at |-> worktree]
  <2>1. a \in todo /\ a.does = "bind"
    BY <1>5 DEF Left
  <2>2. Mounts!Turn["bind"] = 5 /\ Mounts!Turn[arg.does] = 6
    BY <1>5 DEF Mounts!Turn
  <2>3. Mounts!Before(a, arg)
    BY <2>1, <2>2 DEF Mounts!Before
  <2> QED
    BY <2>1, <2>3
<1> QED
  BY <1>2, <1>3, <1>4, <1>5

\* In an initial state nothing has been mounted, and the worktree is there.
LEMMA MountsInit == Mounts!Init => MountInv
<1> SUFFICES ASSUME Mounts!Init PROVE MountInv
  OBVIOUS
<1>1. /\ worktree \in Worktrees /\ runtime \in Runtimes
      /\ stage = "prepare" /\ todo = {} /\ view = [p \in Paths |-> "absent"]
  BY DEF Mounts!Init
<1>2. /\ Paths \subseteq Strings /\ worktree \in Paths
      /\ \A o \in Mounts!Owned : o \in Paths /\ ~In(o, worktree)
  BY <1>1, PathsAre
<1> DEFINE Optional == {p \in System : ~Mounts!IsInside(p, worktree) /\ ~Mounts!IsInside(p, runtime)}
<1>3. PICK absent \in SUBSET (Optional \cup {Mounts!Join(worktree, ".intentum")}),
           links \in SUBSET (Optional \cup {Mounts!Join(worktree, ".pi")}) :
        kind = [p \in Paths |->
                  IF p \in links THEN "link"
                  ELSE IF \E q \in absent \cup links : Mounts!IsInside(q, p) THEN "absent"
                  ELSE "real"]
  BY DEF Mounts!Init
<1>4. /\ Mounts!Join(worktree, ".intentum") \in Mounts!Owned
      /\ Mounts!Join(worktree, ".pi") \in Mounts!Owned
  BY DEF Mounts!Owned, Mounts!Protected
<1>5. \A q \in absent \cup links : ~Mounts!IsInside(q, worktree)
  BY <1>2, <1>4 DEF In
<1>6. worktree \notin links
  BY <1>2, <1>5, InsideIsOrder
<1>7. kind \in [Paths -> {"absent", "real", "link"}] /\ kind[worktree] = "real"
  BY <1>2, <1>3, <1>5, <1>6
<1>8. MountTypes
  BY <1>1, <1>7 DEF MountTypes
<1>9. Ordered /\ Staged
  BY <1>1 DEF Ordered, Staged
<1> QED
  BY <1>1, <1>8, <1>9 DEF MountInv

\* What an argument does to the sandbox.
LEMMA MountedIs ==
  ASSUME MountTypes, NEW arg \in Mounts!Arguments, view' = Mounts!Mounted(arg)
  PROVE  /\ view' \in [Paths -> {"absent", "scratch", "link", "ro", "rw"}]
         /\ arg.does \in {"scratch", "dir", "link"} =>
               \A q \in Paths : view'[q] = view[q] \/ view'[q] \in {"scratch", "link"}
         /\ arg.does \in {"ro", "bind", "protect"} =>
               \A q \in Paths :
                 /\ ~In(arg.at, q) => view'[q] = view[q]
                 /\ In(arg.at, q) /\ kind[q] = "absent" => view'[q] = "absent"
                 /\ In(arg.at, q) /\ kind[q] # "absent" =>
                       view'[q] = IF arg.does = "bind" THEN "rw" ELSE "ro"
<1>1. view \in [Paths -> {"absent", "scratch", "link", "ro", "rw"}]
  BY DEF MountTypes
<1>2. arg.at \in Paths /\ arg.does \in {"scratch", "dir", "link", "ro", "bind", "protect"}
  BY ArgumentsAre
<1>3. CASE arg.does = "scratch"
  <2>1. view' = Mounts!Covered(arg.at, "scratch")
    BY <1>3 DEF Mounts!Mounted
  <2> QED
    BY <1>1, <1>3, <2>1 DEF Mounts!Covered
<1>4. CASE arg.does = "dir"
  <2>1. view' = [view EXCEPT ![arg.at] = IF @ = "absent" THEN "scratch" ELSE @]
    BY <1>4 DEF Mounts!Mounted
  <2> QED
    BY <1>1, <1>2, <1>4, <2>1
<1>5. CASE arg.does = "link"
  <2>1. view' = [view EXCEPT ![arg.at] = "link"]
    BY <1>5 DEF Mounts!Mounted
  <2> QED
    BY <1>1, <1>2, <1>5, <2>1
<1>6. CASE arg.does = "bind"
  <2>1. view' = Mounts!Covered(arg.at, "rw")
    BY <1>6 DEF Mounts!Mounted
  <2> QED
    BY <1>1, <1>6, <2>1 DEF Mounts!Covered, In
<1>7. CASE arg.does \in {"ro", "protect"}
  <2>1. view' = Mounts!Covered(arg.at, "ro")
    BY <1>7 DEF Mounts!Mounted
  <2> QED
    BY <1>1, <1>7, <2>1 DEF Mounts!Covered, In
<1> QED
  BY <1>2, <1>3, <1>4, <1>5, <1>6, <1>7

\* What the checks let through can be mounted.
LEMMA NextIsPossible ==
  ASSUME MountInv, stage = "mount", NEW arg \in todo, \A other \in todo : ~Mounts!Before(other, arg)
  PROVE  ~Mounts!Impossible(arg)
<1>1. MountTypes /\ Ordered /\ Staged /\ Views
  BY DEF MountInv
<1>2. arg \in Mounts!Arguments /\ arg.at \in Paths
  BY <1>1, ArgumentsAre DEF Ordered
<1>3. Paths \subseteq Strings /\ worktree \in Paths
  BY <1>1, PathsAre DEF MountTypes
<1>4. ASSUME Len(arg.at) > 1
      PROVE  Mounts!Front(arg.at) \in Paths /\ In(Mounts!Front(arg.at), arg.at)
  <2>1. arg.at # <<>>
    BY <1>4
  <2> QED
    BY <1>1, <1>2, <1>3, <2>1, FrontIs, PathsAre DEF In, MountTypes
<1>5. ASSUME Left("bind", worktree), Len(arg.at) > 1, view[Mounts!Front(arg.at)] \in {"ro", "rw"}
      PROVE  \E m \in Mounts!Real : ~Left("ro", m) /\ In(m, arg.at)
  <2>1. PICK m \in Mounts!Real : ~Left("ro", m) /\ In(m, Mounts!Front(arg.at))
    BY <1>1, <1>4, <1>5 DEF Views, BeforeBind
  <2>2. m \in Strings
    BY <1>1, <1>3, RealIs
  <2> QED
    BY <1>2, <1>3, <1>4, <1>5, <2>1, <2>2, InsideIsOrder DEF In
<1>6. CASE arg.does = "scratch" /\ Len(arg.at) = 1
  BY <1>6 DEF Mounts!Impossible
<1>7. CASE arg.does \in {"dir", "link"}
  <2>1. Left("bind", worktree) /\ \A m \in Mounts!Real : Left("ro", m)
    BY <1>1, <1>7, OrderIs
  <2> QED
    BY <1>5, <1>7, <2>1 DEF Mounts!Impossible
<1>8. CASE arg.does = "ro" /\ arg.at \in Mounts!Real
  <2>1. Left("bind", worktree)
    BY <1>1, <1>8, OrderIs
  <2>2. Left("ro", arg.at)
    BY <1>1, <1>2, <1>8, ArgumentsAre DEF Left
  <2>3. kind[arg.at] = "real" /\ \A m \in Mounts!Real : In(m, arg.at) => m = arg.at
    BY <1>1, <1>8, RealIs
  <2> QED
    BY <1>5, <1>8, <2>1, <2>2, <2>3 DEF Mounts!Impossible
<1>9. CASE arg.does = "bind" /\ arg.at = worktree
  <2>1. Left("bind", worktree)
    BY <1>1, <1>2, <1>9, ArgumentsAre DEF Left
  <2>2. kind[worktree] = "real"
    BY <1>1 DEF MountTypes
  <2>3. (\E m \in Mounts!Real : ~Left("ro", m) /\ In(m, worktree)) => view[worktree] = "ro"
    BY <1>1, <1>3, <2>1, <2>2 DEF Views, ToolchainStays
  <2> QED
    BY <1>5, <1>9, <2>1, <2>2, <2>3 DEF Mounts!Impossible
<1>10. CASE arg.does = "protect" /\ arg.at \in Mounts!Owned
  <2>1. ~Left("bind", worktree)
    BY <1>1, <1>10, OrderIs
  <2>2. kind[arg.at] = "real"
    BY <1>1, <1>10 DEF Staged
  <2>3. In(worktree, arg.at)
    BY <1>1, <1>10, PathsAre DEF MountTypes
  <2>4. view[arg.at] \in {"ro", "rw"}
    BY <1>1, <1>2, <2>1, <2>2, <2>3 DEF Views, WorktreeIsBound
  <2> QED
    BY <1>10, <2>2, <2>4 DEF Mounts!Impossible
<1> QED
  BY <1>1, <1>2, <1>6, <1>7, <1>8, <1>9, <1>10, ArgumentsAre

\* What the layout is made of depends on the host only.
LEMMA Unmoved ==
  ASSUME UNCHANGED <<worktree, runtime, kind>>
  PROVE  /\ Mounts!Owned' = Mounts!Owned /\ Mounts!Toolchain' = Mounts!Toolchain
         /\ Mounts!Real' = Mounts!Real /\ Mounts!Arguments' = Mounts!Arguments
         /\ Mounts!SafeDynamicMount' <=> Mounts!SafeDynamicMount
  BY DEF Mounts!Owned, Mounts!Toolchain, Mounts!Real, Mounts!Links, Mounts!OutermostMounts,
         Mounts!Parents, Mounts!Each, Mounts!Arguments, Mounts!SafeDynamicMount

\* The sandbox is no wider after the next argument.
LEMMA ViewsKept ==
  ASSUME MountInv, stage = "mount", NEW arg \in todo, \A other \in todo : ~Mounts!Before(other, arg),
         view' = Mounts!Mounted(arg), todo' = todo \ {arg}, UNCHANGED <<worktree, runtime, kind>>
  PROVE  Views'
<1>1. MountTypes /\ Ordered /\ Staged /\ Views
  BY DEF MountInv
<1>2. arg \in Mounts!Arguments /\ arg.at \in Paths /\ arg = [does |-> arg.does, at |-> arg.at]
  BY <1>1, ArgumentsAre DEF Ordered
<1>3. Paths \subseteq Strings /\ worktree \in Paths
  BY <1>1, PathsAre DEF MountTypes
<1>4. Mounts!Owned' = Mounts!Owned /\ Mounts!Real' = Mounts!Real
  BY Unmoved
<1>5. \A what, p : Left(what, p)' <=> Left(what, p) /\ arg # [does |-> what, at |-> p]
  BY DEF Left
<1>6. \A what, p : arg = [does |-> what, at |-> p] => arg.does = what /\ arg.at = p
  OBVIOUS
<1>7. CASE arg.does \in {"scratch", "dir", "link"}
  <2>1. \A q \in Paths : view'[q] = view[q] \/ view'[q] \in {"scratch", "link"}
    BY <1>1, <1>2, <1>7, MountedIs
  <2>2. Left("bind", worktree) /\ \A m \in Mounts!Real : Left("ro", m)
    BY <1>1, <1>7, OrderIs
  <2>3. Left("bind", worktree)' /\ \A m \in Mounts!Real : Left("ro", m)'
    BY <1>5, <1>6, <1>7, <2>2
  <2>4. \A p \in Paths : view[p] \notin {"ro", "rw"}
    BY <1>1, <2>2 DEF Views, BeforeBind, MountTypes
  <2>5. \A p \in Paths : view'[p] \notin {"ro", "rw"}
    BY <2>1, <2>4
  <2> QED
    BY <1>4, <2>3, <2>5 DEF Views, BeforeBind, ToolchainStays, WorktreeIsBound, MountsOnly
<1>8. CASE arg.does = "ro" /\ arg.at \in Mounts!Real
  <2>1. \A q \in Paths :
          /\ ~In(arg.at, q) => view'[q] = view[q]
          /\ In(arg.at, q) => view'[q] \in {"absent", "ro"}
          /\ In(arg.at, q) /\ kind[q] # "absent" => view'[q] = "ro"
    BY <1>1, <1>2, <1>8, MountedIs
  <2>2. Left("bind", worktree) /\ Left("bind", worktree)'
    BY <1>1, <1>5, <1>6, <1>8, OrderIs
  <2>3. ~Left("ro", arg.at)' /\ \A m : ~Left("ro", m) => ~Left("ro", m)'
    BY <1>2, <1>5, <1>8
  <2>4. BeforeBind'
    <3>1. ASSUME NEW p \in Paths
          PROVE  /\ view'[p] # "rw"
                 /\ view'[p] = "ro" => \E m \in Mounts!Real : ~Left("ro", m)' /\ In(m, p)
      <4>1. /\ view[p] # "rw"
            /\ view[p] = "ro" => \E m \in Mounts!Real : ~Left("ro", m) /\ In(m, p)
        BY <1>1, <2>2 DEF Views, BeforeBind
      <4>2. CASE In(arg.at, p)
        BY <1>8, <2>1, <2>3, <4>2
      <4>3. CASE ~In(arg.at, p)
        BY <2>1, <2>3, <4>1, <4>3
      <4> QED
        BY <4>2, <4>3
    <3> QED
      BY <1>4, <3>1 DEF BeforeBind
  <2>5. ToolchainStays'
    <3>1. ASSUME NEW m \in Mounts!Real, NEW p \in Paths,
                 ~Left("ro", m)', In(m, p), kind[p] # "absent"
          PROVE  view'[p] = "ro"
      <4>1. CASE In(arg.at, p)
        BY <2>1, <3>1, <4>1
      <4>2. CASE ~In(arg.at, p)
        <5>1. ~Left("ro", m)
          BY <1>5, <1>6, <3>1, <4>2
        <5> QED
          BY <1>1, <2>1, <2>2, <3>1, <4>2, <5>1 DEF Views, ToolchainStays
      <4> QED
        BY <4>1, <4>2
    <3> QED
      BY <1>4, <3>1 DEF ToolchainStays
  <2>6. WorktreeIsBound'
    BY <2>2 DEF WorktreeIsBound
  <2>7. MountsOnly'
    BY <1>1, <1>4, <1>8, <2>1 DEF Views, MountsOnly
  <2> QED
    BY <2>4, <2>5, <2>6, <2>7 DEF Views
<1>9. CASE arg.does = "bind" /\ arg.at = worktree
  <2>1. \A q \in Paths :
          /\ ~In(worktree, q) => view'[q] = view[q]
          /\ In(worktree, q) /\ kind[q] = "absent" => view'[q] = "absent"
          /\ In(worktree, q) /\ kind[q] # "absent" => view'[q] = "rw"
    BY <1>1, <1>2, <1>9, MountedIs
  <2>2. Left("bind", worktree) /\ ~Left("bind", worktree)'
    BY <1>2, <1>5, <1>9 DEF Left
  <2>3. \A o \in Mounts!Owned : Left("protect", o)'
    BY <1>1, <1>5, <1>6, <1>9, OrderIs
  <2>4. \A m : Left("ro", m)' <=> Left("ro", m)
    BY <1>5, <1>6, <1>9
  <2>5. BeforeBind'
    BY <2>2 DEF BeforeBind
  <2>6. ToolchainStays'
    BY <1>1, <1>4, <2>1, <2>2, <2>4 DEF Views, ToolchainStays
  <2>7. WorktreeIsBound'
    <3>1. ASSUME NEW p \in Paths
          PROVE  /\ (view'[p] = "rw") <=> kind[p] # "absent" /\ In(worktree, p)
                 /\ In(worktree, p) /\ kind[p] # "absent" => view'[p] \in {"ro", "rw"}
      <4>1. view[p] # "rw"
        BY <1>1, <2>2 DEF Views, BeforeBind
      <4> QED
        BY <2>1, <4>1
    <3> QED
      BY <1>4, <2>3, <3>1 DEF WorktreeIsBound
  <2>8. MountsOnly'
    BY <1>1, <1>4, <2>1 DEF Views, MountsOnly
  <2> QED
    BY <2>5, <2>6, <2>7, <2>8 DEF Views
<1>10. CASE arg.does = "protect" /\ arg.at \in Mounts!Owned
  <2>1. \A q \in Paths :
          /\ ~In(arg.at, q) => view'[q] = view[q]
          /\ In(arg.at, q) /\ kind[q] = "absent" => view'[q] = "absent"
          /\ In(arg.at, q) /\ kind[q] # "absent" => view'[q] = "ro"
    BY <1>1, <1>2, <1>10, MountedIs
  <2>2. ~Left("bind", worktree) /\ ~Left("bind", worktree)'
    BY <1>1, <1>5, <1>10, OrderIs
  <2>3. \A m : Left("ro", m)' <=> Left("ro", m)
    BY <1>5, <1>6, <1>10
  <2>4. \A q \in Paths : In(arg.at, q) => In(worktree, q)
    <3>1. In(worktree, arg.at)
      BY <1>1, <1>10, PathsAre DEF MountTypes
    <3> QED
      BY <1>2, <1>3, <3>1, InsideIsOrder DEF In
  <2>5. ~Left("protect", arg.at)'
    BY <1>2, <1>5, <1>10
  <2>6. \A o : o # arg.at => (Left("protect", o)' <=> Left("protect", o))
    BY <1>5, <1>6
  <2>7. BeforeBind'
    BY <2>2 DEF BeforeBind
  <2>8. ToolchainStays'
    BY <1>1, <1>4, <2>1, <2>2, <2>3, <2>4 DEF Views, ToolchainStays
  <2>9. WorktreeIsBound'
    <3>1. ASSUME NEW p \in Paths
          PROVE  /\ (view'[p] = "rw") <=>
                       /\ kind[p] # "absent" /\ In(worktree, p)
                       /\ \A o \in Mounts!Owned : In(o, p) => Left("protect", o)'
                 /\ In(worktree, p) /\ kind[p] # "absent" => view'[p] \in {"ro", "rw"}
      <4>1. /\ (view[p] = "rw") <=>
                  /\ kind[p] # "absent" /\ In(worktree, p)
                  /\ \A o \in Mounts!Owned : In(o, p) => Left("protect", o)
            /\ In(worktree, p) /\ kind[p] # "absent" => view[p] \in {"ro", "rw"}
        BY <1>1, <2>2 DEF Views, WorktreeIsBound
      <4>2. CASE In(arg.at, p)
        BY <1>10, <2>1, <2>5, <4>2
      <4>3. CASE ~In(arg.at, p)
        <5>1. \A o \in Mounts!Owned : In(o, p) => (Left("protect", o)' <=> Left("protect", o))
          BY <2>6, <4>3
        <5>2. view'[p] = view[p]
          BY <2>1, <4>3
        <5> QED
          BY <4>1, <5>1, <5>2
      <4> QED
        BY <4>2, <4>3
    <3> QED
      BY <1>4, <2>2, <3>1 DEF WorktreeIsBound
  <2>10. MountsOnly'
    <3>1. ASSUME NEW p \in Paths, view'[p] \in {"ro", "rw"}
          PROVE  In(worktree, p) \/ \E m \in Mounts!Real : In(m, p)
      BY <1>1, <2>1, <2>4, <3>1 DEF Views, MountsOnly
    <3> QED
      BY <1>4, <3>1 DEF MountsOnly
  <2> QED
    BY <2>7, <2>8, <2>9, <2>10 DEF Views
<1> QED
  BY <1>1, <1>2, <1>7, <1>8, <1>9, <1>10, ArgumentsAre

\* Every step of the mounts keeps the invariant.
LEMMA MountsNext == MountInv /\ [Mounts!Next]_(Mounts!vars) => MountInv'
<1> SUFFICES ASSUME MountInv, [Mounts!Next]_(Mounts!vars) PROVE MountInv'
  OBVIOUS
<1>1. MountTypes /\ Ordered /\ Staged /\ (stage \in {"mount", "done"} => Views)
  BY DEF MountInv
<1>2. Paths \subseteq Strings /\ worktree \in Paths /\ Mounts!Owned \subseteq Paths
  BY <1>1, PathsAre DEF MountTypes
<1>3. ASSUME Mounts!Refuse, stage \in {"prepare", "check"} PROVE MountInv'
  <2>1. stage' = "refused" /\ UNCHANGED <<worktree, runtime, kind, todo, view>> /\ todo = {}
    BY <1>1, <1>3 DEF Mounts!Refuse, Staged
  <2>2. MountTypes' /\ Ordered' /\ Staged'
    BY <1>1, <2>1 DEF MountTypes, Ordered, Staged
  <2> QED
    BY <2>1, <2>2 DEF MountInv
<1>4. CASE Mounts!EnsureControllerDirectories
  <2>1. stage = "prepare" /\ todo = {}
    BY <1>1, <1>4 DEF Mounts!EnsureControllerDirectories, Staged
  <2>2. CASE \E p \in Mounts!Owned : kind[p] = "link"
    BY <1>3, <1>4, <2>1, <2>2 DEF Mounts!EnsureControllerDirectories
  <2>3. CASE ~\E p \in Mounts!Owned : kind[p] = "link"
    <3>1. /\ stage' = "check" /\ UNCHANGED <<worktree, runtime, todo, view>>
          /\ kind' = [p \in Paths |-> IF p \in Mounts!Owned THEN "real" ELSE kind[p]]
      BY <1>4, <2>3 DEF Mounts!EnsureControllerDirectories
    <3>2. /\ kind' \in [Paths -> {"absent", "real", "link"}] /\ kind'[worktree] = "real"
          /\ \A o \in Mounts!Owned : kind'[o] = "real"
      BY <1>1, <1>2, <3>1 DEF MountTypes
    <3>3. Mounts!Owned' = Mounts!Owned
      BY <3>1 DEF Mounts!Owned
    <3>4. MountTypes' /\ Ordered' /\ Staged'
      BY <1>1, <2>1, <3>1, <3>2, <3>3 DEF MountTypes, Ordered, Staged
    <3> QED
      BY <3>1, <3>4 DEF MountInv
  <2> QED
    BY <2>2, <2>3
<1>5. CASE Mounts!Check
  <2>1. stage = "check" /\ todo = {} /\ \A p \in Paths : view[p] = "absent"
    BY <1>1, <1>5 DEF Mounts!Check, Staged
  <2>2. CASE ~bwrap \/ ~Mounts!SafeDynamicMount \/ <<>> \in Mounts!Real
    BY <1>3, <1>5, <2>1, <2>2 DEF Mounts!Check
  <2>3. CASE ~(~bwrap \/ ~Mounts!SafeDynamicMount \/ <<>> \in Mounts!Real)
    <3>1. /\ stage' = "mount" /\ todo' = Mounts!Arguments
          /\ UNCHANGED <<worktree, runtime, kind, view>> /\ Mounts!SafeDynamicMount
      BY <1>5, <2>3 DEF Mounts!Check
    <3>2. /\ Mounts!Owned' = Mounts!Owned /\ Mounts!Real' = Mounts!Real
          /\ Mounts!Arguments' = Mounts!Arguments /\ Mounts!SafeDynamicMount'
      BY <3>1, Unmoved
    <3>3. MountTypes' /\ Ordered' /\ Staged'
      BY <1>1, <2>1, <3>1, <3>2 DEF MountTypes, Ordered, Staged
    <3>4. Left("bind", worktree)' /\ \A m \in Mounts!Real : Left("ro", m)'
      BY <1>1, <3>1, ArgumentsAre DEF Left
    <3>5. Views'
      BY <2>1, <3>1, <3>2, <3>4 DEF Views, BeforeBind, ToolchainStays, WorktreeIsBound, MountsOnly
    <3> QED
      BY <3>3, <3>5 DEF MountInv
  <2> QED
    BY <2>2, <2>3
<1>6. ASSUME NEW arg \in todo, Mounts!Apply(arg) PROVE MountInv'
  <2>1. /\ stage = "mount" /\ \A other \in todo : ~Mounts!Before(other, arg)
        /\ UNCHANGED <<worktree, runtime, kind>>
    BY <1>6 DEF Mounts!Apply
  <2>2. ~Mounts!Impossible(arg)
    BY <2>1, NextIsPossible
  <2>3. /\ todo' = todo \ {arg} /\ view' = Mounts!Mounted(arg)
        /\ stage' = IF todo = {arg} THEN "done" ELSE "mount"
    BY <1>6, <2>2 DEF Mounts!Apply
  <2>4. Views'
    BY <1>1, <2>1, <2>3, ViewsKept
  <2>5. arg \in Mounts!Arguments
    BY <1>1 DEF Ordered
  <2>6. view' \in [Paths -> {"absent", "scratch", "link", "ro", "rw"}]
    BY <1>1, <2>3, <2>5, MountedIs
  <2>7. stage' \in {"mount", "done"} /\ (stage' = "done" => todo' = {})
    BY <2>3
  <2>8. /\ Mounts!Owned' = Mounts!Owned /\ Mounts!Arguments' = Mounts!Arguments
        /\ Mounts!SafeDynamicMount' <=> Mounts!SafeDynamicMount
    BY <2>1, Unmoved
  <2>9. MountTypes'
    BY <1>1, <2>1, <2>6, <2>7 DEF MountTypes
  <2>10. Ordered'
    <3>1. ASSUME NEW a \in Mounts!Arguments, NEW b \in todo', Mounts!Before(b, a)
          PROVE  a \in todo'
      <4>1. b \in todo /\ a \in todo
        BY <1>1, <2>3, <3>1 DEF Ordered
      <4>2. a # arg
        BY <2>1, <3>1, <4>1
      <4> QED
        BY <2>3, <4>1, <4>2
    <3>2. todo' \subseteq Mounts!Arguments
      BY <1>1, <2>3 DEF Ordered
    <3>3. \A a, b : Mounts!Before(b, a)' <=> Mounts!Before(b, a)
      BY DEF Mounts!Before
    <3> QED
      BY <2>8, <3>1, <3>2, <3>3 DEF Ordered
  <2>11. Staged'
    BY <1>1, <2>1, <2>7, <2>8 DEF Staged
  <2> QED
    BY <2>4, <2>9, <2>10, <2>11 DEF MountInv
<1>7. CASE UNCHANGED Mounts!vars
  <2>1. UNCHANGED <<worktree, runtime, kind, stage, todo, view>>
    BY <1>7 DEF Mounts!vars
  <2>2. /\ Mounts!Owned' = Mounts!Owned /\ Mounts!Real' = Mounts!Real
        /\ Mounts!Arguments' = Mounts!Arguments
        /\ Mounts!SafeDynamicMount' <=> Mounts!SafeDynamicMount
    BY <2>1, Unmoved
  <2>3. MountTypes' /\ Ordered' /\ Staged'
    BY <1>1, <2>1, <2>2 DEF MountTypes, Ordered, Staged, Mounts!Before
  <2>4. stage \in {"mount", "done"} => Views'
    BY <1>1, <2>1, <2>2
       DEF Views, BeforeBind, ToolchainStays, WorktreeIsBound, MountsOnly, Left
  <2> QED
    BY <2>1, <2>3, <2>4 DEF MountInv
<1> QED
  BY <1>4, <1>5, <1>6, <1>7 DEF Mounts!Next

\* What the invariant is for.
LEMMA MountsAreTight == MountInv => Mounts!SandboxIsTight /\ Mounts!TypeOK
<1> SUFFICES ASSUME MountInv PROVE Mounts!SandboxIsTight /\ Mounts!TypeOK
  OBVIOUS
<1>1. MountTypes /\ Ordered /\ Staged /\ (stage \in {"mount", "done"} => Views)
  BY DEF MountInv
<1>2. /\ Paths \subseteq Strings /\ worktree \in Paths /\ runtime \in Paths
      /\ Secrets \subseteq Paths /\ Mounts!Toolchain \subseteq Paths
      /\ \A m \in Mounts!Toolchain : m \in System \/ In(runtime, m)
  BY <1>1, PathsAre DEF MountTypes
<1>3. ASSUME stage = "done" PROVE Views /\ \A what, p : ~Left(what, p)
  BY <1>1, <1>3 DEF Staged, Left
<1>4. Mounts!WorktreeIsTheOnlyWritable
  <2> SUFFICES ASSUME stage = "done", NEW p \in Paths
               PROVE  (view[p] = "rw") <=> /\ kind[p] # "absent" /\ Mounts!IsInside(worktree, p)
                                           /\ \A o \in Mounts!Owned : ~Mounts!IsInside(o, p)
    BY DEF Mounts!WorktreeIsTheOnlyWritable
  <2> QED
    BY <1>3 DEF Views, WorktreeIsBound, In
<1>5. Mounts!ToolchainIsReadable
  <2> SUFFICES ASSUME stage = "done", NEW t \in Mounts!Toolchain, NEW p \in Paths,
                      Mounts!IsInside(t, p), kind[t] = "real", kind[p] = "real",
                      ~Mounts!IsInside(worktree, p)
               PROVE  view[p] = "ro"
    BY DEF Mounts!ToolchainIsReadable
  <2> DEFINE S == {q \in Mounts!Toolchain : kind[q] = "real"}
  <2>1. S \in SUBSET Strings /\ t \in S
    BY <1>2
  <2>2. Mounts!Real = Mounts!OutermostMounts(S)
    BY DEF Mounts!Real
  <2> HIDE DEF S
  <2>3. PICK m \in Mounts!Real : Mounts!IsInside(m, t)
    BY <2>1, <2>2, OutermostExists
  <2>4. m \in Strings /\ t \in Strings /\ p \in Strings
    BY <1>1, <1>2, <2>1, RealIs
  <2>5. In(m, p)
    BY <2>3, <2>4, InsideIsOrder DEF In
  <2> QED
    BY <1>3, <2>5 DEF Views, ToolchainStays, In
<1>6. Mounts!HostIsHidden
  <2> SUFFICES ASSUME stage = "done", NEW p \in Paths, view[p] \in {"ro", "rw"},
                      ~Mounts!IsInside(worktree, p)
               PROVE  /\ \E t \in Mounts!Toolchain : kind[t] = "real" /\ Mounts!IsInside(t, p)
                      /\ \A s \in Secrets : Mounts!IsInside(s, p) =>
                            \E t \in System : Mounts!IsInside(t, p)
    BY DEF Mounts!HostIsHidden
  <2>1. PICK m \in Mounts!Real : In(m, p)
    BY <1>3 DEF Views, MountsOnly, In
  <2>2. m \in Mounts!Toolchain /\ m \in Paths /\ kind[m] = "real"
    BY <1>1, RealIs
  <2>3. ASSUME NEW s \in Secrets, Mounts!IsInside(s, p), m \notin System PROVE FALSE
    <3>1. In(runtime, m)
      BY <1>2, <2>2, <2>3
    <3>2. Mounts!IsInside(runtime, p)
      BY <1>2, <2>1, <2>2, <3>1, InsideIsOrder DEF In
    <3>3. Mounts!IsInside(runtime, s) \/ Mounts!IsInside(s, runtime)
      BY <1>2, <2>3, <3>2, InsideIsNested
    <3>4. Mounts!SafeDynamicMount
      BY <1>1 DEF Staged
    <3> QED
      BY <3>3, <3>4 DEF Mounts!SafeDynamicMount
  <2> QED
    BY <2>1, <2>2, <2>3 DEF In
<1>7. Mounts!LayoutIsPossible /\ Mounts!TypeOK
  BY <1>1 DEF Mounts!LayoutIsPossible, Mounts!TypeOK, MountTypes
<1> QED
  BY <1>4, <1>5, <1>6, <1>7 DEF Mounts!SandboxIsTight

-----------------------------------------------------------------------------
(* The parts side by side *)

CallsInv == IInv /\ CommandInv /\ ActivityInv /\ MountInv

\* A step is one of one part; the others rest.
LEMMA CallsStep == CallsInv /\ [CallsNext]_CallsVars => CallsInv'
<1> SUFFICES ASSUME CallsInv, [CallsNext]_CallsVars PROVE CallsInv'
  OBVIOUS
<1>1. [Next]_vars
  BY DEF CallsNext, CallsVars, vars, bounds, history
<1>2. [Shell!Next]_(Shell!vars)
  BY DEF CallsNext, CallsVars, shellVars, Shell!vars, Shell!process, Shell!output
<1>3. [Activity!Next]_(Activity!vars)
  BY DEF CallsNext, CallsVars, activityVars, Activity!vars, Activity!pulseVars, Activity!toolVars
<1>4. [Mounts!Next]_(Mounts!vars)
  BY DEF CallsNext, CallsVars, mountVars, Mounts!vars
<1> QED
  BY <1>1, <1>2, <1>3, <1>4, StepInv, CommandStep, ActivityStep, MountsNext DEF CallsInv

\* The invariants of the parts hold together.
THEOREM CallsInvariant == CallsSpec => []CallsInv
<1>1. CallsInit => CallsInv
  BY InitInv, CommandInit, ActivityInit, MountsInit DEF CallsInit, CallsInv
<1> QED
  BY <1>1, CallsStep, PTL DEF CallsSpec

\* What the parts say of the types of their variables holds throughout.
THEOREM CallsTypes == CallsSpec => []TypesOK
<1>1. CallsInv => TypesOK
  <2> SUFFICES ASSUME CallsInv PROVE TypesOK
    OBVIOUS
  <2>1. TypeOK
    BY InvIsTyped DEF CallsInv
  <2>2. Shell!TypeOK
    BY DEF CallsInv, CommandInv, CommandTypes, Shell!TypeOK
  <2>3. Activity!TypeOK
    BY DEF CallsInv, ActivityInv, PulseTypes, Activity!TypeOK
  <2>4. Mounts!TypeOK
    BY MountsAreTight DEF CallsInv
  <2> QED
    BY <2>1, <2>2, <2>3, <2>4 DEF TypesOK
<1> QED
  BY <1>1, CallsInvariant, PTL

\* A tool that is told of success had all its input taken and all its output kept, and
\* with any answer no process of the group, timer or listener is left behind.
THEOREM WholeAnswers == CallsSpec => []AnswersAreWhole
<1>1. CallsInv => AnswersAreWhole
  BY DEF CallsInv, CommandInv, Still, AnswersAreWhole, Shell!AnswersAreWhole,
         Shell!NothingOutlivesTheAnswer
<1> QED
  BY <1>1, CallsInvariant, PTL

\* The row pulses exactly while the Designer thinks, its rate is of this block of
\* thinking alone, and one timer turns the spinners exactly while a call has one: no
\* order of events, aborted turn, late timer or change of theme leaves anything behind.
THEOREM ActivityShown == CallsSpec => []ActivityIsShown
<1>1. CallsInv => ActivityIsShown
  BY DEF CallsInv, ActivityInv, ActivityIsShown
<1> QED
  BY <1>1, CallsInvariant, PTL

\* The shell of a Worker writes to its worktree and nowhere else, finds its tools, sees
\* nothing else of the host, and is not refused half-way: for every tree of paths.
THEOREM TightSandbox == CallsSpec => []SandboxIsTight
<1>1. CallsInv => SandboxIsTight
  BY MountsAreTight DEF CallsInv, SandboxIsTight
<1> QED
  BY <1>1, CallsInvariant, PTL
=============================================================================

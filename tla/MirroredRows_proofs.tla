------------------------ MODULE MirroredRows_proofs ------------------------
(***************************************************************************)
(* A row and its counterpart outside diverge only for the causes that are  *)
(* recorded, a removal that reports success is final, and a call that had  *)
(* the row to itself mends it: for any contents, certificates and callers, *)
(* and any number of failures.                                             *)
(*                                                                         *)
(* The argument: between its two writes a call knows what the first one    *)
(* has brought about (Knows), because only calls that clash with it could  *)
(* undo that; those in flight do not clash unless that is recorded         *)
(* (Apart), and a call that is alone has no others beside it (Alone).  So  *)
(* when the last call between its writes makes the second one, row and     *)
(* counterpart agree (Agreed).                                             *)
(***************************************************************************)
EXTENDS MirroredRows, TLAPS

-----------------------------------------------------------------------------
(* The inductive invariant.                                                *)

\* Between the write of the row and that of its counterpart.
Writing(k) == \/ k.at = "router"
              \/ k.verb \in {"Set", "Delete"} /\ k.at = "row"

Calm == ~cutShort /\ ~crossed /\ ~unrouted

\* Nobody has undone what this call did.
Trusted(k) == k.alone \/ ~crossed

\* The stages of each verb, and the rows it is about.
Shape(k) ==
    /\ k.verb = "none" => k = Idle
    /\ k.at = "idle" => k.verb = "none"
    /\ k.verb \in {"Set", "Delete"} => kind = "secret" /\ k.at \in {"vault", "row"}
    /\ k.verb = "Add" => kind # "secret" /\ born /\ k.at = "router"
    /\ k.verb = "Update" => kind = "route" /\ born /\ k.at \in {"row", "router"}
    /\ k.verb = "Remove" => kind # "secret" /\ born /\ k.at \in {"row", "router"}
    /\ k.verb = "Verify" => kind = "domain" /\ k.at = "row"
    /\ k.verb = "ProvisionCert" => kind = "domain" /\ k.at \in {"issue", "record"}

\* What a call knows of row and counterpart.
Knows(k) ==
    /\ k.verb = "Set" /\ k.at = "row" /\ Trusted(k) => outside # None
    /\ k.verb = "Set" /\ k.found /\ ~crossed => row # None
    /\ k.verb = "Delete" /\ k.at = "row" /\ Trusted(k) => outside = None
    /\ k.verb \in {"Add", "Update"} /\ k.at = "router" /\ Trusted(k) =>
          row # None /\ (kind = "route" => row = k.value)
    /\ k.verb = "Update" /\ Calm => outside # None
    /\ k.verb = "Remove" /\ k.at = "router" => row = None
    /\ k.at = "record" => k.cert \in issued

CallsInv == \A c \in Callers : Shape(call[c]) /\ Knows(call[c])

\* The others of a call that is alone are idle.
Alone == \A c, d \in Callers :
            c # d /\ call[c].verb # "none" /\ call[c].alone => call[d].verb = "none"

Clash(v, w) ==
    \/ v = "Set" /\ w = "Delete"
    \/ v = "Delete" /\ w = "Set"
    \/ v \in {"Add", "Remove"} /\ w = "Update"
    \/ v = "Update" /\ w \in {"Add", "Update", "Remove"}
    \/ v = "Add" /\ w = "Remove"
    \/ v = "Remove" /\ w = "Add"

\* Calls in flight clash only if that is recorded.
Apart == ~crossed => \A c, d \in Callers : c # d => ~Clash(call[c].verb, call[d].verb)

Agreed == Calm /\ (\A c \in Callers : ~Writing(call[c])) => Agree

\* What is gone was not put back.
GoneInv ==
    gone => /\ kind # "secret" => row = None /\ born
            /\ ~crossed => \A c \in Callers : call[c].verb \notin {"Set", "Add", "Update"}
            /\ ~crossed /\ ~unrouted => outside = None

SettledInv == settled => Agree /\ \A c \in Callers : call[c].verb = "none"

\* A certificate without a row is about to get one, or was lost.
CertsInv ==
    /\ recorded \subseteq issued
    /\ ~cutShort => \A cert \in issued \ recorded :
                        \E c \in Callers : call[c].at = "record" /\ call[c].cert = cert

\* Only an insert makes the row of a route or domain.
Born == kind # "secret" /\ row # None => born

IInv == /\ TypeOK /\ Born /\ CallsInv /\ Alone /\ Apart
        /\ Agreed /\ GoneInv /\ SettledInv /\ CertsInv

-----------------------------------------------------------------------------
(* What the shared steps do to the calls.                                  *)

\* The fields of an idle call.
LEMMA IdleCall ==
    /\ Idle \in Calls
    /\ Idle.verb = "none" /\ Idle.at = "idle"
  BY MirrorAssumption DEF Idle, Calls, Verbs

\* A call is in flight exactly when it has a verb.
LEMMA BusyCalls ==
    ASSUME TypeOK, CallsInv
    PROVE  \A c \in Callers : c \in Busy <=> call[c].verb # "none"
  BY IdleCall DEF CallsInv, Shape, Busy

\* The overlaps that may undo each other, as pairs and as sets.
LEMMA ClashPairs ==
    ASSUME NEW v \in Verbs, NEW u \in Verbs \cup {"none"}
    PROVE  {v, u} \in Clashes <=> Clash(v, u)
  <1>1. CASE v = "Set" BY <1>1 DEF Clashes, Clash, Verbs
  <1>2. CASE v = "Delete" BY <1>2 DEF Clashes, Clash, Verbs
  <1>3. CASE v = "Add" BY <1>3 DEF Clashes, Clash, Verbs
  <1>4. CASE v = "Update" BY <1>4 DEF Clashes, Clash, Verbs
  <1>5. CASE v = "Remove" BY <1>5 DEF Clashes, Clash, Verbs
  <1>6. CASE v \in {"Verify", "ProvisionCert"} BY <1>6 DEF Clashes, Clash, Verbs
  <1> QED BY <1>1, <1>2, <1>3, <1>4, <1>5, <1>6 DEF Verbs

\* A call that is no longer alone is still one.
LEMMA CrowdedCall ==
    ASSUME NEW k \in Calls
    PROVE  [k EXCEPT !.alone = FALSE] \in Calls
  BY DEF Calls

\* A call that begins is the only one that changes but for who is alone.
Entered(c, v, stage, value, found) ==
    /\ call' \in [Callers -> Calls]
    /\ call[c].verb = "none" /\ call[c].at = "idle"
    /\ call'[c].verb = v /\ call'[c].at = stage /\ call'[c].value = value
    /\ call'[c].found = found
    /\ call'[c].alone => \A d \in Callers : d # c => call'[d].verb = "none"
    /\ \A d \in Callers : d # c =>
          /\ call'[d].verb = call[d].verb /\ call'[d].at = call[d].at
          /\ call'[d].value = call[d].value /\ call'[d].found = call[d].found
          /\ call'[d].cert = call[d].cert
          /\ call[d].verb = "none" => call'[d] = call[d]
          /\ call[d].verb # "none" => ~call'[d].alone
    /\ \A d \in Callers : Clash(v, call[d].verb) => crossed'
    /\ crossed => crossed'
    /\ gone' = (gone /\ v \notin {"Set", "Add"})
    /\ settled' = FALSE
    /\ cutShort' = cutShort /\ unrouted' = unrouted
    /\ {crossed', gone'} \subseteq BOOLEAN

\* Entered is what the beginning of a call comes to.
LEMMA EnterCalls ==
    ASSUME TypeOK, CallsInv, NEW c \in Callers, NEW v \in Verbs,
           NEW stage \in {"vault", "row", "router", "issue"}, NEW value \in Contents,
           NEW found \in BOOLEAN, Enter(c, v, stage, value, found)
    PROVE  Entered(c, v, stage, value, found)
  <1>1. call[c] = Idle /\ call \in [Callers -> Calls]
    BY DEF Enter, TypeOK
  <1>2. \A d \in Callers : call'[d] =
           IF d = c THEN [verb |-> v, at |-> stage, value |-> value, found |-> found,
                          cert |-> None, alone |-> Busy = {}]
           ELSE IF d \in Busy THEN [call[d] EXCEPT !.alone = FALSE] ELSE Idle
    BY DEF Enter
  <1>3. \A d \in Callers : d # c /\ d \in Busy => call'[d] = [call[d] EXCEPT !.alone = FALSE]
    BY <1>2
  <1>4. \A d \in Callers : d # c /\ d \notin Busy => call'[d] = Idle /\ call[d] = Idle
    BY <1>2 DEF Busy
  <1>5. call'[c] = [verb |-> v, at |-> stage, value |-> value, found |-> found,
                    cert |-> None, alone |-> Busy = {}]
    BY <1>2
  <1>6. call'[c] \in Calls
    BY <1>5 DEF Calls
  <1>7. \A d \in Callers : d # c /\ d \in Busy => call'[d] \in Calls
    <2> SUFFICES ASSUME NEW d \in Callers, d # c, d \in Busy PROVE call'[d] \in Calls
      OBVIOUS
    <2>1. call[d] \in Calls BY <1>1
    <2>2. [call[d] EXCEPT !.alone = FALSE] \in Calls BY <2>1, CrowdedCall
    <2> QED BY <1>3, <2>2
  <1>8. call' = [d \in Callers |-> call'[d]]
    BY DEF Enter
  <1>9. call' \in [Callers -> Calls]
    BY <1>4, <1>6, <1>7, <1>8, IdleCall
  <1>10. \A d \in Callers : Clash(v, call[d].verb) => crossed'
    <2> SUFFICES ASSUME NEW d \in Callers, Clash(v, call[d].verb) PROVE crossed'
      OBVIOUS
    <2>1. call[d].verb \in Verbs \cup {"none"}
      BY <1>1 DEF Calls
    <2>2. call[d].verb # "none"
      BY DEF Clash
    <2>3. d \in Busy
      BY <2>2, IdleCall DEF Busy
    <2>4. {v, call[d].verb} \in Clashes
      BY <2>1, ClashPairs
    <2> QED BY <2>3, <2>4 DEF Enter
  <1>11. call'[c].alone => \A d \in Callers : d # c => call'[d].verb = "none"
    <2>1. call'[c].alone = (Busy = {})
      BY <1>5
    <2>2. call'[c].alone => \A d \in Callers : d \notin Busy
      BY <2>1
    <2> QED BY <1>4, <2>2, IdleCall
  <1>12. \A d \in Callers : d # c =>
                 /\ call'[d].verb = call[d].verb /\ call'[d].at = call[d].at
                 /\ call'[d].value = call[d].value /\ call'[d].found = call[d].found
                 /\ call'[d].cert = call[d].cert
                 /\ call[d].verb = "none" => call'[d] = call[d]
                 /\ call[d].verb # "none" => ~call'[d].alone
    <2> SUFFICES ASSUME NEW d \in Callers, d # c
                 PROVE  /\ call'[d].verb = call[d].verb /\ call'[d].at = call[d].at
                        /\ call'[d].value = call[d].value /\ call'[d].found = call[d].found
                        /\ call'[d].cert = call[d].cert
                        /\ call[d].verb = "none" => call'[d] = call[d]
                        /\ call[d].verb # "none" => ~call'[d].alone
      OBVIOUS
    <2>1. CASE d \in Busy
      BY <1>1, <1>3, <2>1, BusyCalls DEF Calls
    <2>2. CASE d \notin Busy
      BY <1>4, <2>2, BusyCalls
    <2> QED BY <2>1, <2>2
  <1>13. call[c].verb = "none" /\ call[c].at = "idle"
    BY <1>1, IdleCall
  <1> QED
    BY <1>5, <1>9, <1>10, <1>11, <1>12, <1>13 DEF Enter, Entered, TypeOK

\* A call that goes on to its next stage.
Went(c, stage) ==
    /\ call'[c].verb = call[c].verb /\ call'[c].at = stage
    /\ call'[c].value = call[c].value /\ call'[c].found = call[c].found
    /\ call'[c].cert = call[c].cert /\ call'[c].alone = call[c].alone
    /\ UNCHANGED history /\ mishaps' = mishaps

\* What a step of c leaves of the other calls.
Alongside(c) ==
    /\ call' \in [Callers -> Calls]
    /\ \A d \in Callers : d # c => call'[d] = call[d]

LEMMA ProceedCalls ==
    ASSUME TypeOK, NEW c \in Callers, NEW stage \in {"row", "router"}, Proceed(c, stage)
    PROVE  Went(c, stage) /\ Alongside(c)
  <1>1. call \in [Callers -> Calls]
    BY DEF TypeOK
  <1>2. call' = [call EXCEPT ![c].at = stage]
    BY DEF Proceed
  <1> QED BY <1>1, <1>2 DEF Calls, Went, Alongside, Proceed

\* A call that ends.
LEMMA EndCalls ==
    ASSUME TypeOK, NEW c \in Callers, call' = [call EXCEPT ![c] = Idle]
    PROVE  call'[c] = Idle /\ Alongside(c)
  BY IdleCall DEF TypeOK, Alongside

\* A call that is alone has no company, and calls that clash are recorded.
LEMMA Company ==
    ASSUME IInv, NEW c \in Callers, NEW d \in Callers, d # c, call[c].verb # "none"
    PROVE  /\ call[c].alone => call[d].verb = "none"
           /\ call[d].verb # "none" => ~call[d].alone
           /\ ~crossed => ~Clash(call[c].verb, call[d].verb)
  BY DEF IInv, Alone, Apart

\* Nothing that could bring a row back is left when a removal ends.
LEMMA NoneBringsBack ==
    ASSUME IInv, NEW c \in Callers, call[c].verb \in {"Delete", "Remove"},
           call'[c] = Idle, Alongside(c), ~crossed
    PROVE  \A d \in Callers : call'[d].verb \notin {"Set", "Add", "Update"}
  <1> SUFFICES ASSUME NEW d \in Callers, d # c
               PROVE  call[d].verb \notin {"Set", "Add", "Update"}
    BY IdleCall DEF Alongside
  <1>1. Shape(call[c]) /\ Shape(call[d]) /\ ~Clash(call[c].verb, call[d].verb)
    BY Company DEF IInv, CallsInv
  <1> QED BY <1>1 DEF Shape, Clash

\* Certificates, by a step that has nothing to do with them.
LEMMA CertsStay ==
    ASSUME IInv, NEW c \in Callers, Alongside(c), call[c].at # "record",
           issued' = issued, recorded' = recorded, cutShort => cutShort', cutShort' \in BOOLEAN
    PROVE  CertsInv'
  BY DEF IInv, CertsInv, Alongside, TypeOK

-----------------------------------------------------------------------------
(* Every step preserves the invariant.                                     *)

\* A call that begins without writing a row.
LEMMA Begins ==
    ASSUME IInv, NEW c \in Callers, NEW v \in Verbs \ {"Add"},
           NEW stage \in {"vault", "row", "issue"}, NEW value \in Contents,
           NEW found \in BOOLEAN, Enter(c, v, stage, value, found),
           UNCHANGED tables, mishaps' \in Nat,
           v \in {"Set", "Delete"} => kind = "secret" /\ stage = "vault",
           v = "Update" => kind = "route" /\ row # None /\ stage = "row",
           v = "Remove" => kind # "secret" /\ row # None /\ stage = "row",
           v = "Verify" => kind = "domain" /\ stage = "row",
           v = "ProvisionCert" => kind = "domain" /\ stage = "issue",
           v = "Set" /\ found => row # None
    PROVE  IInv'
  <1> USE DEF tables
  <1>1. TypeOK /\ CallsInv
    BY DEF IInv
  <1>e. Entered(c, v, stage, value, found)
    <2> HIDE DEF tables
    <2>1. v \in Verbs /\ stage \in {"vault", "row", "router", "issue"}
      OBVIOUS
    <2> QED BY <1>1, <2>1, EnterCalls
  <1> USE <1>e DEF Entered
  <1>2. TypeOK'
    BY DEF IInv, TypeOK
  <1>3. Born'
    BY DEF IInv, Born
  <1>4. CallsInv'
    <2> SUFFICES ASSUME NEW d \in Callers PROVE Shape(call[d])' /\ Knows(call[d])'
      BY DEF CallsInv
    <2>1. CASE d = c
      <3>1. Shape(call[c])'
        BY DEF IInv, Born, Shape, Verbs
      <3>2. v = "Update" /\ Calm' => outside # None
        <4> SUFFICES ASSUME v = "Update", Calm' PROVE outside # None
          OBVIOUS
        <4>1. Calm
          BY DEF Calm, IInv, TypeOK
        <4>2. \A b \in Callers : ~Writing(call[b])
          <5> SUFFICES ASSUME NEW b \in Callers, Writing(call[b]) PROVE FALSE
            OBVIOUS
          <5>1. call[b].verb \in {"Add", "Update", "Remove"}
            <6>1. Shape(call[b]) /\ call[b].verb \in Verbs \cup {"none"}
              BY DEF IInv, CallsInv, TypeOK, Calls
            <6> QED BY <6>1, IdleCall DEF Shape, Writing, Verbs
          <5> QED BY <5>1 DEF Clash, Calm
        <4> QED BY <4>1, <4>2 DEF IInv, Agreed, Agree
      <3> QED BY <2>1, <3>1, <3>2 DEF Knows
    <2>2. CASE d # c
      <3>1. Shape(call[d]) /\ Knows(call[d])
        BY DEF IInv, CallsInv
      <3>2. Shape(call[d])'
        BY <2>2, <3>1 DEF Shape
      <3> QED BY <2>2, <3>1, <3>2 DEF Knows, Trusted, Calm, Shape
    <2> QED BY <2>1, <2>2
  <1>5. Alone'
    BY DEF IInv, Alone
  <1>6. Apart'
    BY DEF IInv, Apart, Clash
  <1>7. Agreed'
    BY DEF IInv, Agreed, Agree, Writing, Calm
  <1>8. GoneInv'
    BY DEF IInv, GoneInv
  <1>9. SettledInv'
    BY DEF SettledInv
  <1>10. CertsInv'
    BY DEF IInv, CertsInv, CallsInv, Shape
  <1> QED BY <1>2, <1>3, <1>4, <1>5, <1>6, <1>7, <1>8, <1>9, <1>10 DEF IInv

\* Add: the first write is its first step.
LEMMA Inserts ==
    ASSUME IInv, NEW c \in Callers, NEW content \in Contents, kind # "secret",
           InsertRow(c, content)
    PROVE  IInv'
  <1>1. TypeOK /\ CallsInv
    BY DEF IInv
  <1>e. Entered(c, "Add", "router", content, FALSE)
    <2>1. "Add" \in Verbs /\ FALSE \in BOOLEAN /\ Enter(c, "Add", "router", content, FALSE)
      BY DEF Verbs, InsertRow
    <2> QED BY <1>1, <2>1, EnterCalls
  <1> USE <1>e DEF Entered, InsertRow
  <1>2. TypeOK'
    BY DEF IInv, TypeOK
  <1>3. Born' /\ row' # None
    BY MirrorAssumption DEF IInv, Born
  <1>4. CallsInv'
    <2> SUFFICES ASSUME NEW d \in Callers PROVE Shape(call[d])' /\ Knows(call[d])'
      BY DEF CallsInv
    <2>1. CASE d = c
      BY <1>3, <2>1 DEF Shape, Knows, Trusted
    <2>2. CASE d # c
      <3>1. Shape(call[d]) /\ Knows(call[d])
        BY DEF IInv, CallsInv
      <3>2. call[d].verb \notin {"Set", "Delete", "Add", "Update", "Remove"}
        BY <3>1 DEF Shape
      <3>3. Shape(call[d])'
        BY <2>2, <3>1 DEF Shape
      <3> QED BY <2>2, <3>1, <3>2, <3>3 DEF Knows, Shape
    <2> QED BY <2>1, <2>2
  <1>5. Alone'
    BY DEF IInv, Alone
  <1>6. Apart'
    BY DEF IInv, Apart, Clash
  <1>7. Agreed'
    BY DEF Agreed, Writing
  <1>8. GoneInv'
    BY DEF GoneInv
  <1>9. SettledInv'
    BY DEF SettledInv
  <1>10. CertsInv'
    BY DEF IInv, CertsInv, CallsInv, Shape
  <1> QED BY <1>2, <1>3, <1>4, <1>5, <1>6, <1>7, <1>8, <1>9, <1>10 DEF IInv

\* Set: the vault is written.
LEMMA StoreValueKeeps ==
    ASSUME IInv, NEW c \in Callers, StoreValue(c)
    PROVE  IInv'
  <1>1. TypeOK /\ call[c] \in Calls /\ Shape(call[c]) /\ Knows(call[c])
    BY DEF IInv, TypeOK, CallsInv
  <1>2. /\ Alongside(c)
        /\ Proceed(c, "row") => Went(c, "row")
        /\ call' = [call EXCEPT ![c] = Idle] => call'[c] = Idle
    BY <1>1, EndCalls, ProceedCalls DEF StoreValue, Refuse, Fail
  <1> USE <1>1, <1>2 DEF StoreValue, Went, Alongside, Succeed, Refuse, Fail, Mishap, history,
                       PerhapsOutside, tables
  <1>3. TypeOK'
    <2>1. mishaps' \in Nat
      BY MirrorAssumption DEF TypeOK
    <2>2. {cutShort', crossed', unrouted'} \subseteq BOOLEAN
      BY DEF TypeOK
    <2>3. {gone', settled'} \subseteq BOOLEAN
      BY DEF TypeOK
    <2>4. /\ kind' \in Kinds /\ row' \in Contents \cup {None}
          /\ outside' \in Contents \cup {None}
          /\ {born', router'} \subseteq BOOLEAN
      BY MirrorAssumption DEF TypeOK, Calls
    <2>5. issued' \subseteq Certs /\ recorded' \subseteq Certs
      BY DEF TypeOK
    <2> QED BY <2>1, <2>2, <2>3, <2>4, <2>5 DEF TypeOK
  <1>4. /\ call[c].verb # "none" /\ crossed' = crossed /\ kind' = kind
        /\ cutShort => cutShort'
        /\ Calm' => Calm
    <2>1. call[c].verb # "none" /\ crossed' = crossed /\ kind' = kind
      BY IdleCall DEF Shape
    <2>2. (cutShort => cutShort') /\ (unrouted => unrouted')
      BY DEF TypeOK
    <2> QED BY <2>1, <2>2 DEF Calm
  <1>5. Born'
    BY MirrorAssumption DEF IInv, Born, Shape, Calls
  <1>6. CallsInv'
    <2> SUFFICES ASSUME NEW d \in Callers PROVE Shape(call[d])' /\ Knows(call[d])'
      BY DEF CallsInv
    <2>1. CASE d = c
      BY <2>1, <1>4, MirrorAssumption, IdleCall DEF Shape, Knows, Trusted, Calls
    <2>2. CASE d # c
      <3>1. Shape(call[d]) /\ Knows(call[d]) /\ call'[d] = call[d] /\ call[d] \in Calls
        BY <2>2 DEF IInv, CallsInv, TypeOK
      <3>2. /\ call[d].verb # "none" => ~call[d].alone
            /\ ~crossed => ~Clash(call[c].verb, call[d].verb)
        BY <2>2, <1>4, Company
      <3>3. Shape(call[d])'
        BY <3>1, <1>4 DEF Shape
      <3>4. Knows(call[d])'
        <4>1. call[d].verb \in {"none", "Set", "Delete"} /\ issued' = issued /\ row' = row
          BY <3>1, IdleCall DEF Shape, Verbs, Calls
        <4>2. CASE call[d].verb = "Set"
          BY <4>1, <4>2, <3>1, <1>4, MirrorAssumption DEF Knows, Trusted, Calls
        <4>3. CASE call[d].verb = "Delete"
          BY <4>1, <4>3, <3>1, <3>2, <1>4 DEF Knows, Trusted, Clash
        <4>4. CASE call[d].verb = "none"
          BY <4>1, <4>4, <3>1 DEF Knows
        <4> QED BY <4>1, <4>2, <4>3, <4>4
      <3> QED BY <3>1, <3>3, <3>4
    <2> QED BY <2>1, <2>2
  <1>7. Alone' /\ Apart'
    BY <1>4, IdleCall DEF IInv, Alone, Apart, Clash
  <1>8. Agreed'
    <2> SUFFICES ASSUME Calm', \A d \in Callers : ~Writing(call[d])' PROVE Agree'
      BY DEF Agreed
    <2>1. Calm /\ ~Writing(call[c])'
      BY <1>4
    <2>2. \A d \in Callers : d # c => ~Writing(call[d])
      BY DEF Writing
    <2>3. ~Writing(call[c]) => Agree
      BY <2>1, <2>2 DEF IInv, Agreed
    <2> QED BY <1>4, <2>1, <2>3, MirrorAssumption, IdleCall DEF Agree, Calm, Writing, Shape, Knows, Trusted
  <1>9. GoneInv'
    <2> SUFFICES ASSUME gone' PROVE GoneInv'
      BY DEF GoneInv
    <2> QED BY IdleCall, <1>4, Company DEF IInv, GoneInv, Clash, Knows, Shape, Trusted
  <1>10. SettledInv'
    <2> SUFFICES ASSUME settled' PROVE Agree' /\ \A d \in Callers : call'[d].verb = "none"
      BY DEF SettledInv
    <2>1. ~settled
      BY <1>4 DEF IInv, SettledInv
    <2> QED BY <2>1, <1>4, Company, MirrorAssumption, IdleCall DEF Agree, Knows, Shape, Trusted
  <1>11. CertsInv'
    <2>1. call[c].at # "record" /\ issued' = issued /\ recorded' = recorded
      BY DEF Shape
    <2>2. cutShort' \in BOOLEAN
      BY <1>3 DEF TypeOK
    <2> QED BY <2>1, <2>2, <1>4, CertsStay
  <1> QED BY <1>3, <1>5, <1>6, <1>7, <1>8, <1>9, <1>10, <1>11 DEF IInv

\* Set: the row is written.
LEMMA WriteSecretKeeps ==
    ASSUME IInv, NEW c \in Callers, WriteSecret(c)
    PROVE  IInv'
  <1>1. TypeOK /\ call[c] \in Calls /\ Shape(call[c]) /\ Knows(call[c])
    BY DEF IInv, TypeOK, CallsInv
  <1>2. call'[c] = Idle /\ Alongside(c)
    BY <1>1, EndCalls DEF WriteSecret, Succeed, Refuse, Fail
  <1> USE <1>1, <1>2 DEF WriteSecret, Went, Alongside, Succeed, Refuse, Fail, Mishap, history,
                       PerhapsOutside, tables
  <1>3. TypeOK'
    <2>1. mishaps' \in Nat
      BY MirrorAssumption DEF TypeOK
    <2>2. {cutShort', crossed', unrouted'} \subseteq BOOLEAN
      BY DEF TypeOK
    <2>3. {gone', settled'} \subseteq BOOLEAN
      BY DEF TypeOK
    <2>4. /\ kind' \in Kinds /\ row' \in Contents \cup {None}
          /\ outside' \in Contents \cup {None}
          /\ {born', router'} \subseteq BOOLEAN
      BY MirrorAssumption DEF TypeOK, Calls
    <2>5. issued' \subseteq Certs /\ recorded' \subseteq Certs
      BY DEF TypeOK
    <2> QED BY <2>1, <2>2, <2>3, <2>4, <2>5 DEF TypeOK
  <1>4. /\ call[c].verb # "none" /\ crossed' = crossed /\ kind' = kind
        /\ cutShort => cutShort'
        /\ Calm' => Calm
    <2>1. call[c].verb # "none" /\ crossed' = crossed /\ kind' = kind
      BY IdleCall DEF Shape
    <2>2. (cutShort => cutShort') /\ (unrouted => unrouted')
      BY DEF TypeOK
    <2> QED BY <2>1, <2>2 DEF Calm
  <1>5. Born'
    BY MirrorAssumption DEF IInv, Born, Shape, Calls
  <1>6. CallsInv'
    <2> SUFFICES ASSUME NEW d \in Callers PROVE Shape(call[d])' /\ Knows(call[d])'
      BY DEF CallsInv
    <2>1. CASE d = c
      BY <2>1, <1>4, MirrorAssumption, IdleCall DEF Shape, Knows, Trusted, Calls
    <2>2. CASE d # c
      <3>1. Shape(call[d]) /\ Knows(call[d]) /\ call'[d] = call[d] /\ call[d] \in Calls
        BY <2>2 DEF IInv, CallsInv, TypeOK
      <3>2. /\ call[d].verb # "none" => ~call[d].alone
            /\ ~crossed => ~Clash(call[c].verb, call[d].verb)
        BY <2>2, <1>4, Company
      <3>3. Shape(call[d])'
        BY <3>1, <1>4 DEF Shape
      <3>4. Knows(call[d])'
        BY <3>1, <3>2, <1>4, MirrorAssumption DEF Knows, Shape, Trusted, Clash
      <3> QED BY <3>1, <3>3, <3>4
    <2> QED BY <2>1, <2>2
  <1>7. Alone' /\ Apart'
    BY <1>4, IdleCall DEF IInv, Alone, Apart, Clash
  <1>8. Agreed'
    <2> SUFFICES ASSUME Calm', \A d \in Callers : ~Writing(call[d])' PROVE Agree'
      BY DEF Agreed
    <2>1. Calm /\ ~Writing(call[c])'
      BY <1>4
    <2>2. \A d \in Callers : d # c => ~Writing(call[d])
      BY DEF Writing
    <2>3. ~Writing(call[c]) => Agree
      BY <2>1, <2>2 DEF IInv, Agreed
    <2> QED 
      <3>1. kind = "secret" /\ outside # None /\ (call[c].found => row # None)
        BY <2>1 DEF Shape, Knows, Trusted, Calm, Calls
      <3>2. row' # None
        BY <2>1, <3>1, MirrorAssumption, ZenonT(60) DEF Calm, Calls
      <3> QED BY <3>1, <3>2, <1>4 DEF Agree
  <1>9. GoneInv'
    <2> SUFFICES ASSUME gone' PROVE GoneInv'
      BY DEF GoneInv
    <2> QED BY IdleCall, <1>4, Company DEF IInv, GoneInv, Clash, Knows, Shape, Trusted
  <1>10. SettledInv'
    <2> SUFFICES ASSUME settled' PROVE Agree' /\ \A d \in Callers : call'[d].verb = "none"
      BY DEF SettledInv
    <2>1. ~settled
      BY <1>4 DEF IInv, SettledInv
    <2> QED BY <2>1, <1>4, Company, MirrorAssumption, IdleCall DEF Agree, Knows, Shape, Trusted
  <1>11. CertsInv'
    <2>1. call[c].at # "record" /\ issued' = issued /\ recorded' = recorded
      BY DEF Shape
    <2>2. cutShort' \in BOOLEAN
      BY <1>3 DEF TypeOK
    <2> QED BY <2>1, <2>2, <1>4, CertsStay
  <1> QED BY <1>3, <1>5, <1>6, <1>7, <1>8, <1>9, <1>10, <1>11 DEF IInv

\* Delete: the vault's value is dropped.
LEMMA DropValueKeeps ==
    ASSUME IInv, NEW c \in Callers, DropValue(c)
    PROVE  IInv'
  <1>1. TypeOK /\ call[c] \in Calls /\ Shape(call[c]) /\ Knows(call[c])
    BY DEF IInv, TypeOK, CallsInv
  <1>2. /\ Alongside(c)
        /\ Proceed(c, "row") => Went(c, "row")
        /\ call' = [call EXCEPT ![c] = Idle] => call'[c] = Idle
    BY <1>1, EndCalls, ProceedCalls DEF DropValue, Refuse, Fail
  <1> USE <1>1, <1>2 DEF DropValue, Went, Alongside, Succeed, Refuse, Fail, Mishap, history,
                       PerhapsOutside, tables
  <1>3. TypeOK'
    <2>1. mishaps' \in Nat
      BY MirrorAssumption DEF TypeOK
    <2>2. {cutShort', crossed', unrouted'} \subseteq BOOLEAN
      BY DEF TypeOK
    <2>3. {gone', settled'} \subseteq BOOLEAN
      BY DEF TypeOK
    <2>4. /\ kind' \in Kinds /\ row' \in Contents \cup {None}
          /\ outside' \in Contents \cup {None}
          /\ {born', router'} \subseteq BOOLEAN
      BY MirrorAssumption DEF TypeOK, Calls
    <2>5. issued' \subseteq Certs /\ recorded' \subseteq Certs
      BY DEF TypeOK
    <2> QED BY <2>1, <2>2, <2>3, <2>4, <2>5 DEF TypeOK
  <1>4. /\ call[c].verb # "none" /\ crossed' = crossed /\ kind' = kind
        /\ cutShort => cutShort'
        /\ Calm' => Calm
    <2>1. call[c].verb # "none" /\ crossed' = crossed /\ kind' = kind
      BY IdleCall DEF Shape
    <2>2. (cutShort => cutShort') /\ (unrouted => unrouted')
      BY DEF TypeOK
    <2> QED BY <2>1, <2>2 DEF Calm
  <1>5. Born'
    BY MirrorAssumption DEF IInv, Born, Shape, Calls
  <1>6. CallsInv'
    <2> SUFFICES ASSUME NEW d \in Callers PROVE Shape(call[d])' /\ Knows(call[d])'
      BY DEF CallsInv
    <2>1. CASE d = c
      BY <2>1, <1>4, MirrorAssumption, IdleCall DEF Shape, Knows, Trusted, Calls
    <2>2. CASE d # c
      <3>1. Shape(call[d]) /\ Knows(call[d]) /\ call'[d] = call[d] /\ call[d] \in Calls
        BY <2>2 DEF IInv, CallsInv, TypeOK
      <3>2. /\ call[d].verb # "none" => ~call[d].alone
            /\ ~crossed => ~Clash(call[c].verb, call[d].verb)
        BY <2>2, <1>4, Company
      <3>3. Shape(call[d])'
        BY <3>1, <1>4 DEF Shape
      <3>4. Knows(call[d])'
        BY <3>1, <3>2, <1>4, MirrorAssumption DEF Knows, Shape, Trusted, Clash
      <3> QED BY <3>1, <3>3, <3>4
    <2> QED BY <2>1, <2>2
  <1>7. Alone' /\ Apart'
    BY <1>4, IdleCall DEF IInv, Alone, Apart, Clash
  <1>8. Agreed'
    <2> SUFFICES ASSUME Calm', \A d \in Callers : ~Writing(call[d])' PROVE Agree'
      BY DEF Agreed
    <2>1. Calm /\ ~Writing(call[c])'
      BY <1>4
    <2>2. \A d \in Callers : d # c => ~Writing(call[d])
      BY DEF Writing
    <2>3. ~Writing(call[c]) => Agree
      BY <2>1, <2>2 DEF IInv, Agreed
    <2> QED BY <1>4, <2>1, <2>3, MirrorAssumption, IdleCall DEF Agree, Calm, Writing, Shape, Knows, Trusted
  <1>9. GoneInv'
    <2> SUFFICES ASSUME gone' PROVE GoneInv'
      BY DEF GoneInv
    <2> QED BY IdleCall, <1>4, Company DEF IInv, GoneInv, Clash, Knows, Shape, Trusted
  <1>10. SettledInv'
    <2> SUFFICES ASSUME settled' PROVE Agree' /\ \A d \in Callers : call'[d].verb = "none"
      BY DEF SettledInv
    <2>1. ~settled
      BY <1>4 DEF IInv, SettledInv
    <2> QED BY <2>1, <1>4, Company, MirrorAssumption, IdleCall DEF Agree, Knows, Shape, Trusted
  <1>11. CertsInv'
    <2>1. call[c].at # "record" /\ issued' = issued /\ recorded' = recorded
      BY DEF Shape
    <2>2. cutShort' \in BOOLEAN
      BY <1>3 DEF TypeOK
    <2> QED BY <2>1, <2>2, <1>4, CertsStay
  <1> QED BY <1>3, <1>5, <1>6, <1>7, <1>8, <1>9, <1>10, <1>11 DEF IInv

\* Delete: the row is dropped.
LEMMA DropSecretKeeps ==
    ASSUME IInv, NEW c \in Callers, DropSecret(c)
    PROVE  IInv'
  <1>1. TypeOK /\ call[c] \in Calls /\ Shape(call[c]) /\ Knows(call[c])
    BY DEF IInv, TypeOK, CallsInv
  <1>2. call'[c] = Idle /\ Alongside(c)
    BY <1>1, EndCalls DEF DropSecret, Succeed, Refuse, Fail
  <1> USE <1>1, <1>2 DEF DropSecret, Went, Alongside, Succeed, Refuse, Fail, Mishap, history,
                       PerhapsOutside, tables
  <1>3. TypeOK'
    <2>1. mishaps' \in Nat
      BY MirrorAssumption DEF TypeOK
    <2>2. {cutShort', crossed', unrouted'} \subseteq BOOLEAN
      BY DEF TypeOK
    <2>3. {gone', settled'} \subseteq BOOLEAN
      BY DEF TypeOK
    <2>4. /\ kind' \in Kinds /\ row' \in Contents \cup {None}
          /\ outside' \in Contents \cup {None}
          /\ {born', router'} \subseteq BOOLEAN
      BY MirrorAssumption DEF TypeOK, Calls
    <2>5. issued' \subseteq Certs /\ recorded' \subseteq Certs
      BY DEF TypeOK
    <2> QED BY <2>1, <2>2, <2>3, <2>4, <2>5 DEF TypeOK
  <1>4. /\ call[c].verb # "none" /\ crossed' = crossed /\ kind' = kind
        /\ cutShort => cutShort'
        /\ Calm' => Calm
    <2>1. call[c].verb # "none" /\ crossed' = crossed /\ kind' = kind
      BY IdleCall DEF Shape
    <2>2. (cutShort => cutShort') /\ (unrouted => unrouted')
      BY DEF TypeOK
    <2> QED BY <2>1, <2>2 DEF Calm
  <1>5. Born'
    BY MirrorAssumption DEF IInv, Born, Shape, Calls
  <1>6. CallsInv'
    <2> SUFFICES ASSUME NEW d \in Callers PROVE Shape(call[d])' /\ Knows(call[d])'
      BY DEF CallsInv
    <2>1. CASE d = c
      BY <2>1, <1>4, MirrorAssumption, IdleCall DEF Shape, Knows, Trusted, Calls
    <2>2. CASE d # c
      <3>1. Shape(call[d]) /\ Knows(call[d]) /\ call'[d] = call[d] /\ call[d] \in Calls
        BY <2>2 DEF IInv, CallsInv, TypeOK
      <3>2. /\ call[d].verb # "none" => ~call[d].alone
            /\ ~crossed => ~Clash(call[c].verb, call[d].verb)
        BY <2>2, <1>4, Company
      <3>3. Shape(call[d])'
        BY <3>1, <1>4 DEF Shape
      <3>4. Knows(call[d])'
        BY <3>1, <3>2, <1>4, MirrorAssumption DEF Knows, Shape, Trusted, Clash
      <3> QED BY <3>1, <3>3, <3>4
    <2> QED BY <2>1, <2>2
  <1>7. Alone' /\ Apart'
    BY <1>4, IdleCall DEF IInv, Alone, Apart, Clash
  <1>8. Agreed'
    <2> SUFFICES ASSUME Calm', \A d \in Callers : ~Writing(call[d])' PROVE Agree'
      BY DEF Agreed
    <2>1. Calm /\ ~Writing(call[c])'
      BY <1>4
    <2>2. \A d \in Callers : d # c => ~Writing(call[d])
      BY DEF Writing
    <2>3. ~Writing(call[c]) => Agree
      BY <2>1, <2>2 DEF IInv, Agreed
    <2> QED BY <1>4, <2>1, <2>3, MirrorAssumption, IdleCall DEF Agree, Calm, Writing, Shape, Knows, Trusted
  <1>9. GoneInv'
    <2> SUFFICES ASSUME gone' PROVE GoneInv'
      BY DEF GoneInv
    <2> QED 
      <3>1. kind = "secret" /\ (~crossed => outside = None)
        BY DEF Shape, Knows, Trusted
      <3>2. ~crossed => \A d \in Callers : call'[d].verb \notin {"Set", "Add", "Update"}
        BY NoneBringsBack
      <3> QED BY <3>1, <3>2, <1>4 DEF GoneInv
  <1>10. SettledInv'
    <2> SUFFICES ASSUME settled' PROVE Agree' /\ \A d \in Callers : call'[d].verb = "none"
      BY DEF SettledInv
    <2>1. ~settled
      BY <1>4 DEF IInv, SettledInv
    <2> QED BY <2>1, <1>4, Company, MirrorAssumption, IdleCall DEF Agree, Knows, Shape, Trusted
  <1>11. CertsInv'
    <2>1. call[c].at # "record" /\ issued' = issued /\ recorded' = recorded
      BY DEF Shape
    <2>2. cutShort' \in BOOLEAN
      BY <1>3 DEF TypeOK
    <2> QED BY <2>1, <2>2, <1>4, CertsStay
  <1> QED BY <1>3, <1>5, <1>6, <1>7, <1>8, <1>9, <1>10, <1>11 DEF IInv

\* There is no router to tell.
LEMMA UnroutedKeeps ==
    ASSUME IInv, NEW c \in Callers, Unrouted(c)
    PROVE  IInv'
  <1>1. TypeOK /\ call[c] \in Calls /\ Shape(call[c]) /\ Knows(call[c])
    BY DEF IInv, TypeOK, CallsInv
  <1>2. call'[c] = Idle /\ Alongside(c)
    BY <1>1, EndCalls DEF Unrouted, Succeed, Refuse, Fail
  <1> USE <1>1, <1>2 DEF Unrouted, Went, Alongside, Succeed, Refuse, Fail, Mishap, history,
                       PerhapsOutside, tables
  <1>3. TypeOK'
    <2>1. mishaps' \in Nat
      BY MirrorAssumption DEF TypeOK
    <2>2. {cutShort', crossed', unrouted'} \subseteq BOOLEAN
      BY DEF TypeOK
    <2>3. {gone', settled'} \subseteq BOOLEAN
      BY DEF TypeOK
    <2>4. /\ kind' \in Kinds /\ row' \in Contents \cup {None}
          /\ outside' \in Contents \cup {None}
          /\ {born', router'} \subseteq BOOLEAN
      BY MirrorAssumption DEF TypeOK, Calls
    <2>5. issued' \subseteq Certs /\ recorded' \subseteq Certs
      BY DEF TypeOK
    <2> QED BY <2>1, <2>2, <2>3, <2>4, <2>5 DEF TypeOK
  <1>4. /\ call[c].verb # "none" /\ crossed' = crossed /\ kind' = kind
        /\ cutShort => cutShort'
        /\ Calm' => Calm
    <2>1. call[c].verb # "none" /\ crossed' = crossed /\ kind' = kind
      BY IdleCall DEF Shape
    <2>2. (cutShort => cutShort') /\ (unrouted => unrouted')
      BY DEF TypeOK
    <2> QED BY <2>1, <2>2 DEF Calm
  <1>5. Born'
    BY MirrorAssumption DEF IInv, Born, Shape, Calls
  <1>6. CallsInv'
    <2> SUFFICES ASSUME NEW d \in Callers PROVE Shape(call[d])' /\ Knows(call[d])'
      BY DEF CallsInv
    <2>1. CASE d = c
      BY <2>1, <1>4, MirrorAssumption, IdleCall DEF Shape, Knows, Trusted, Calls
    <2>2. CASE d # c
      <3>1. Shape(call[d]) /\ Knows(call[d]) /\ call'[d] = call[d] /\ call[d] \in Calls
        BY <2>2 DEF IInv, CallsInv, TypeOK
      <3>2. /\ call[d].verb # "none" => ~call[d].alone
            /\ ~crossed => ~Clash(call[c].verb, call[d].verb)
        BY <2>2, <1>4, Company
      <3>3. Shape(call[d])'
        BY <3>1, <1>4 DEF Shape
      <3>4. Knows(call[d])'
        BY <3>1, <3>2, <1>4, MirrorAssumption DEF Knows, Shape, Trusted, Clash
      <3> QED BY <3>1, <3>3, <3>4
    <2> QED BY <2>1, <2>2
  <1>7. Alone' /\ Apart'
    BY <1>4, IdleCall DEF IInv, Alone, Apart, Clash
  <1>8. Agreed'
    <2> SUFFICES ASSUME Calm', \A d \in Callers : ~Writing(call[d])' PROVE Agree'
      BY DEF Agreed
    <2>1. Calm /\ ~Writing(call[c])'
      BY <1>4
    <2>2. \A d \in Callers : d # c => ~Writing(call[d])
      BY DEF Writing
    <2>3. ~Writing(call[c]) => Agree
      BY <2>1, <2>2 DEF IInv, Agreed
    <2> QED BY <1>4, <2>1, <2>3, MirrorAssumption, IdleCall DEF Agree, Calm, Writing, Shape, Knows, Trusted
  <1>9. GoneInv'
    <2> SUFFICES ASSUME gone' PROVE GoneInv'
      BY DEF GoneInv
    <2> QED 
      <3>1. CASE call[c].verb = "Remove"
        <4>1. ~crossed => \A d \in Callers : call'[d].verb \notin {"Set", "Add", "Update"}
          BY <3>1, NoneBringsBack
        <4>2. row' = None /\ born' /\ unrouted' = TRUE /\ crossed' = crossed
          BY <3>1 DEF Knows, Shape
        <4> HIDE <1>1, <1>2 DEF Unrouted, Alongside
        <4> QED BY <4>1, <4>2 DEF GoneInv
      <3>2. CASE call[c].verb # "Remove"
        <4>1. gone /\ row' = row /\ born' = born /\ unrouted' = TRUE
          BY <3>2
        <4>2. ~crossed => \A d \in Callers : call'[d].verb \notin {"Set", "Add", "Update"}
          BY <4>1, IdleCall DEF IInv, GoneInv
        <4>3. kind # "secret" => row = None /\ born
          BY <4>1 DEF IInv, GoneInv
        <4> HIDE <1>1, <1>2 DEF Unrouted, Alongside
        <4> QED BY <4>1, <4>2, <4>3, <1>4 DEF GoneInv
      <3> QED BY <3>1, <3>2
  <1>10. SettledInv'
    <2> SUFFICES ASSUME settled' PROVE Agree' /\ \A d \in Callers : call'[d].verb = "none"
      BY DEF SettledInv
    <2>1. ~settled
      BY <1>4 DEF IInv, SettledInv
    <2> QED BY <2>1, <1>4, Company, MirrorAssumption, IdleCall DEF Agree, Knows, Shape, Trusted
  <1>11. CertsInv'
    <2>1. call[c].at # "record" /\ issued' = issued /\ recorded' = recorded
      BY DEF Shape
    <2>2. cutShort' \in BOOLEAN
      BY <1>3 DEF TypeOK
    <2> QED BY <2>1, <2>2, <1>4, CertsStay
  <1> QED BY <1>3, <1>5, <1>6, <1>7, <1>8, <1>9, <1>10, <1>11 DEF IInv

\* Add: the router serves it.
LEMMA RouterAddsKeeps ==
    ASSUME IInv, NEW c \in Callers, RouterAdds(c)
    PROVE  IInv'
  <1>1. TypeOK /\ call[c] \in Calls /\ Shape(call[c]) /\ Knows(call[c])
    BY DEF IInv, TypeOK, CallsInv
  <1>2. call'[c] = Idle /\ Alongside(c)
    BY <1>1, EndCalls DEF RouterAdds, Succeed, Refuse, Fail
  <1> USE <1>1, <1>2 DEF RouterAdds, Went, Alongside, Succeed, Refuse, Fail, Mishap, history,
                       PerhapsOutside, tables
  <1>3. TypeOK'
    <2>1. mishaps' \in Nat
      BY MirrorAssumption DEF TypeOK
    <2>2. {cutShort', crossed', unrouted'} \subseteq BOOLEAN
      BY DEF TypeOK
    <2>3. {gone', settled'} \subseteq BOOLEAN
      BY DEF TypeOK
    <2>4. /\ kind' \in Kinds /\ row' \in Contents \cup {None}
          /\ outside' \in Contents \cup {None}
          /\ {born', router'} \subseteq BOOLEAN
      BY MirrorAssumption DEF TypeOK, Calls
    <2>5. issued' \subseteq Certs /\ recorded' \subseteq Certs
      BY DEF TypeOK
    <2> QED BY <2>1, <2>2, <2>3, <2>4, <2>5 DEF TypeOK
  <1>4. /\ call[c].verb # "none" /\ crossed' = crossed /\ kind' = kind
        /\ cutShort => cutShort'
        /\ Calm' => Calm
    <2>1. call[c].verb # "none" /\ crossed' = crossed /\ kind' = kind
      BY IdleCall DEF Shape
    <2>2. (cutShort => cutShort') /\ (unrouted => unrouted')
      BY DEF TypeOK
    <2> QED BY <2>1, <2>2 DEF Calm
  <1>5. Born'
    BY MirrorAssumption DEF IInv, Born, Shape, Calls
  <1>6. CallsInv'
    <2> SUFFICES ASSUME NEW d \in Callers PROVE Shape(call[d])' /\ Knows(call[d])'
      BY DEF CallsInv
    <2>1. CASE d = c
      BY <2>1, <1>4, MirrorAssumption, IdleCall DEF Shape, Knows, Trusted, Calls
    <2>2. CASE d # c
      <3>1. Shape(call[d]) /\ Knows(call[d]) /\ call'[d] = call[d] /\ call[d] \in Calls
        BY <2>2 DEF IInv, CallsInv, TypeOK
      <3>2. /\ call[d].verb # "none" => ~call[d].alone
            /\ ~crossed => ~Clash(call[c].verb, call[d].verb)
        BY <2>2, <1>4, Company
      <3>3. Shape(call[d])'
        BY <3>1, <1>4 DEF Shape
      <3>4. Knows(call[d])'
        <4>1. row' = row /\ issued' = issued /\ kind # "secret"
          BY DEF Shape
        <4>2. CASE call[d].verb = "Update"
          BY <4>1, <4>2, <3>1, <3>2, <1>4 DEF Knows, Shape, Trusted, Clash, Calm
        <4>3. CASE call[d].verb # "Update"
          BY <4>1, <4>3, <3>1, <1>4 DEF Knows, Shape, Trusted
        <4> QED BY <4>2, <4>3
      <3> QED BY <3>1, <3>3, <3>4
    <2> QED BY <2>1, <2>2
  <1>7. Alone' /\ Apart'
    BY <1>4, IdleCall DEF IInv, Alone, Apart, Clash
  <1>8. Agreed'
    <2> SUFFICES ASSUME Calm', \A d \in Callers : ~Writing(call[d])' PROVE Agree'
      BY DEF Agreed
    <2>1. Calm /\ ~Writing(call[c])'
      BY <1>4
    <2>2. \A d \in Callers : d # c => ~Writing(call[d])
      BY DEF Writing
    <2>3. ~Writing(call[c]) => Agree
      BY <2>1, <2>2 DEF IInv, Agreed
    <2> QED 
      <3>1. row # None /\ (kind = "route" => row = call[c].value) /\ call[c].value # None
        BY <2>1, MirrorAssumption DEF Knows, Trusted, Calm, Calls
      <3>2. outside' = call[c].value /\ row' = row
        BY <2>1 DEF Calm
      <3> QED BY <3>1, <3>2, <1>4 DEF Agree
  <1>9. GoneInv'
    <2> SUFFICES ASSUME gone' PROVE GoneInv'
      BY DEF GoneInv
    <2> QED BY IdleCall, <1>4, Company DEF IInv, GoneInv, Clash, Knows, Shape, Trusted
  <1>10. SettledInv'
    <2> SUFFICES ASSUME settled' PROVE Agree' /\ \A d \in Callers : call'[d].verb = "none"
      BY DEF SettledInv
    <2>1. ~settled
      BY <1>4 DEF IInv, SettledInv
    <2> QED 
      <3>1. call[c].alone /\ outside' = call[c].value /\ row' = row
        BY <2>1
      <3>2. row # None /\ (kind = "route" => row = call[c].value) /\ call[c].value # None
        BY <3>1, MirrorAssumption DEF Knows, Trusted, Calls
      <3>3. \A d \in Callers : call'[d].verb = "none"
        BY <3>1, <1>4, Company, IdleCall
      <3> QED BY <3>1, <3>2, <3>3, <1>4 DEF Agree
  <1>11. CertsInv'
    <2>1. call[c].at # "record" /\ issued' = issued /\ recorded' = recorded
      BY DEF Shape
    <2>2. cutShort' \in BOOLEAN
      BY <1>3 DEF TypeOK
    <2> QED BY <2>1, <2>2, <1>4, CertsStay
  <1> QED BY <1>3, <1>5, <1>6, <1>7, <1>8, <1>9, <1>10, <1>11 DEF IInv

\* Update: the row is written.
LEMMA UpdateRowKeeps ==
    ASSUME IInv, NEW c \in Callers, UpdateRow(c)
    PROVE  IInv'
  <1>1. TypeOK /\ call[c] \in Calls /\ Shape(call[c]) /\ Knows(call[c])
    BY DEF IInv, TypeOK, CallsInv
  <1>2. /\ Alongside(c)
        /\ Proceed(c, "router") => Went(c, "router")
        /\ call' = [call EXCEPT ![c] = Idle] => call'[c] = Idle
    BY <1>1, EndCalls, ProceedCalls DEF UpdateRow, Refuse, Fail
  <1> USE <1>1, <1>2 DEF UpdateRow, Went, Alongside, Succeed, Refuse, Fail, Mishap, history,
                       PerhapsOutside, tables
  <1>3. TypeOK'
    <2>1. mishaps' \in Nat
      BY MirrorAssumption DEF TypeOK
    <2>2. {cutShort', crossed', unrouted'} \subseteq BOOLEAN
      BY DEF TypeOK
    <2>3. {gone', settled'} \subseteq BOOLEAN
      BY DEF TypeOK
    <2>4. /\ kind' \in Kinds /\ row' \in Contents \cup {None}
          /\ outside' \in Contents \cup {None}
          /\ {born', router'} \subseteq BOOLEAN
      BY MirrorAssumption DEF TypeOK, Calls
    <2>5. issued' \subseteq Certs /\ recorded' \subseteq Certs
      BY DEF TypeOK
    <2> QED BY <2>1, <2>2, <2>3, <2>4, <2>5 DEF TypeOK
  <1>4. /\ call[c].verb # "none" /\ crossed' = crossed /\ kind' = kind
        /\ cutShort => cutShort'
        /\ Calm' => Calm
    <2>1. call[c].verb # "none" /\ crossed' = crossed /\ kind' = kind
      BY IdleCall DEF Shape
    <2>2. (cutShort => cutShort') /\ (unrouted => unrouted')
      BY DEF TypeOK
    <2> QED BY <2>1, <2>2 DEF Calm
  <1>5. Born'
    BY MirrorAssumption DEF IInv, Born, Shape, Calls
  <1>6. CallsInv'
    <2> SUFFICES ASSUME NEW d \in Callers PROVE Shape(call[d])' /\ Knows(call[d])'
      BY DEF CallsInv
    <2>1. CASE d = c
      BY <2>1, <1>4, MirrorAssumption, IdleCall DEF Shape, Knows, Trusted, Calls
    <2>2. CASE d # c
      <3>1. Shape(call[d]) /\ Knows(call[d]) /\ call'[d] = call[d] /\ call[d] \in Calls
        BY <2>2 DEF IInv, CallsInv, TypeOK
      <3>2. /\ call[d].verb # "none" => ~call[d].alone
            /\ ~crossed => ~Clash(call[c].verb, call[d].verb)
        BY <2>2, <1>4, Company
      <3>3. Shape(call[d])'
        BY <3>1, <1>4 DEF Shape
      <3>4. Knows(call[d])'
        BY <3>1, <3>2, <1>4, MirrorAssumption DEF Knows, Shape, Trusted, Clash
      <3> QED BY <3>1, <3>3, <3>4
    <2> QED BY <2>1, <2>2
  <1>7. Alone' /\ Apart'
    BY <1>4, IdleCall DEF IInv, Alone, Apart, Clash
  <1>8. Agreed'
    <2> SUFFICES ASSUME Calm', \A d \in Callers : ~Writing(call[d])' PROVE Agree'
      BY DEF Agreed
    <2>1. Calm /\ ~Writing(call[c])'
      BY <1>4
    <2>2. \A d \in Callers : d # c => ~Writing(call[d])
      BY DEF Writing
    <2>3. ~Writing(call[c]) => Agree
      BY <2>1, <2>2 DEF IInv, Agreed
    <2> QED BY <1>4, <2>1, <2>3, MirrorAssumption, IdleCall DEF Agree, Calm, Writing, Shape, Knows, Trusted
  <1>9. GoneInv'
    <2> SUFFICES ASSUME gone' PROVE GoneInv'
      BY DEF GoneInv
    <2> QED BY IdleCall, <1>4, Company DEF IInv, GoneInv, Clash, Knows, Shape, Trusted
  <1>10. SettledInv'
    <2> SUFFICES ASSUME settled' PROVE Agree' /\ \A d \in Callers : call'[d].verb = "none"
      BY DEF SettledInv
    <2>1. ~settled
      BY <1>4 DEF IInv, SettledInv
    <2> QED BY <2>1, <1>4, Company, MirrorAssumption, IdleCall DEF Agree, Knows, Shape, Trusted
  <1>11. CertsInv'
    <2>1. call[c].at # "record" /\ issued' = issued /\ recorded' = recorded
      BY DEF Shape
    <2>2. cutShort' \in BOOLEAN
      BY <1>3 DEF TypeOK
    <2> QED BY <2>1, <2>2, <1>4, CertsStay
  <1> QED BY <1>3, <1>5, <1>6, <1>7, <1>8, <1>9, <1>10, <1>11 DEF IInv

\* Update: the router serves the new settings.
LEMMA RouterUpdatesKeeps ==
    ASSUME IInv, NEW c \in Callers, RouterUpdates(c)
    PROVE  IInv'
  <1>1. TypeOK /\ call[c] \in Calls /\ Shape(call[c]) /\ Knows(call[c])
    BY DEF IInv, TypeOK, CallsInv
  <1>2. call'[c] = Idle /\ Alongside(c)
    BY <1>1, EndCalls DEF RouterUpdates, Succeed, Refuse, Fail
  <1> USE <1>1, <1>2 DEF RouterUpdates, Went, Alongside, Succeed, Refuse, Fail, Mishap, history,
                       PerhapsOutside, tables
  <1>3. TypeOK'
    <2>1. mishaps' \in Nat
      BY MirrorAssumption DEF TypeOK
    <2>2. {cutShort', crossed', unrouted'} \subseteq BOOLEAN
      BY DEF TypeOK
    <2>3. {gone', settled'} \subseteq BOOLEAN
      BY DEF TypeOK
    <2>4. /\ kind' \in Kinds /\ row' \in Contents \cup {None}
          /\ outside' \in Contents \cup {None}
          /\ {born', router'} \subseteq BOOLEAN
      BY MirrorAssumption DEF TypeOK, Calls
    <2>5. issued' \subseteq Certs /\ recorded' \subseteq Certs
      BY DEF TypeOK
    <2> QED BY <2>1, <2>2, <2>3, <2>4, <2>5 DEF TypeOK
  <1>4. /\ call[c].verb # "none" /\ crossed' = crossed /\ kind' = kind
        /\ cutShort => cutShort'
        /\ Calm' => Calm
    <2>1. call[c].verb # "none" /\ crossed' = crossed /\ kind' = kind
      BY IdleCall DEF Shape
    <2>2. (cutShort => cutShort') /\ (unrouted => unrouted')
      BY DEF TypeOK
    <2> QED BY <2>1, <2>2 DEF Calm
  <1>5. Born'
    BY MirrorAssumption DEF IInv, Born, Shape, Calls
  <1>6. CallsInv'
    <2> SUFFICES ASSUME NEW d \in Callers PROVE Shape(call[d])' /\ Knows(call[d])'
      BY DEF CallsInv
    <2>1. CASE d = c
      BY <2>1, <1>4, MirrorAssumption, IdleCall DEF Shape, Knows, Trusted, Calls
    <2>2. CASE d # c
      <3>1. Shape(call[d]) /\ Knows(call[d]) /\ call'[d] = call[d] /\ call[d] \in Calls
        BY <2>2 DEF IInv, CallsInv, TypeOK
      <3>2. /\ call[d].verb # "none" => ~call[d].alone
            /\ ~crossed => ~Clash(call[c].verb, call[d].verb)
        BY <2>2, <1>4, Company
      <3>3. Shape(call[d])'
        BY <3>1, <1>4 DEF Shape
      <3>4. Knows(call[d])'
        <4>1. row' = row /\ issued' = issued /\ kind # "secret"
          BY DEF Shape
        <4>2. CASE call[d].verb = "Update"
          BY <4>1, <4>2, <3>1, <3>2, <1>4 DEF Knows, Shape, Trusted, Clash, Calm
        <4>3. CASE call[d].verb # "Update"
          BY <4>1, <4>3, <3>1, <1>4 DEF Knows, Shape, Trusted
        <4> QED BY <4>2, <4>3
      <3> QED BY <3>1, <3>3, <3>4
    <2> QED BY <2>1, <2>2
  <1>7. Alone' /\ Apart'
    BY <1>4, IdleCall DEF IInv, Alone, Apart, Clash
  <1>8. Agreed'
    <2> SUFFICES ASSUME Calm', \A d \in Callers : ~Writing(call[d])' PROVE Agree'
      BY DEF Agreed
    <2>1. Calm /\ ~Writing(call[c])'
      BY <1>4
    <2>2. \A d \in Callers : d # c => ~Writing(call[d])
      BY DEF Writing
    <2>3. ~Writing(call[c]) => Agree
      BY <2>1, <2>2 DEF IInv, Agreed
    <2> QED BY <1>4, <2>1, <2>3, MirrorAssumption, IdleCall DEF Agree, Calm, Writing, Shape, Knows, Trusted
  <1>9. GoneInv'
    <2> SUFFICES ASSUME gone' PROVE GoneInv'
      BY DEF GoneInv
    <2> QED BY IdleCall, <1>4, Company DEF IInv, GoneInv, Clash, Knows, Shape, Trusted
  <1>10. SettledInv'
    <2> SUFFICES ASSUME settled' PROVE Agree' /\ \A d \in Callers : call'[d].verb = "none"
      BY DEF SettledInv
    <2>1. ~settled
      BY <1>4 DEF IInv, SettledInv
    <2> QED BY <2>1, <1>4, Company, MirrorAssumption, IdleCall DEF Agree, Knows, Shape, Trusted
  <1>11. CertsInv'
    <2>1. call[c].at # "record" /\ issued' = issued /\ recorded' = recorded
      BY DEF Shape
    <2>2. cutShort' \in BOOLEAN
      BY <1>3 DEF TypeOK
    <2> QED BY <2>1, <2>2, <1>4, CertsStay
  <1> QED BY <1>3, <1>5, <1>6, <1>7, <1>8, <1>9, <1>10, <1>11 DEF IInv

\* Remove: the row is dropped.
LEMMA DropRowKeeps ==
    ASSUME IInv, NEW c \in Callers, DropRow(c)
    PROVE  IInv'
  <1>1. TypeOK /\ call[c] \in Calls /\ Shape(call[c]) /\ Knows(call[c])
    BY DEF IInv, TypeOK, CallsInv
  <1>2. /\ Alongside(c)
        /\ Proceed(c, "router") => Went(c, "router")
        /\ call' = [call EXCEPT ![c] = Idle] => call'[c] = Idle
    BY <1>1, EndCalls, ProceedCalls DEF DropRow, Refuse, Fail
  <1> USE <1>1, <1>2 DEF DropRow, Went, Alongside, Succeed, Refuse, Fail, Mishap, history,
                       PerhapsOutside, tables
  <1>3. TypeOK'
    <2>1. mishaps' \in Nat
      BY MirrorAssumption DEF TypeOK
    <2>2. {cutShort', crossed', unrouted'} \subseteq BOOLEAN
      BY DEF TypeOK
    <2>3. {gone', settled'} \subseteq BOOLEAN
      BY DEF TypeOK
    <2>4. /\ kind' \in Kinds /\ row' \in Contents \cup {None}
          /\ outside' \in Contents \cup {None}
          /\ {born', router'} \subseteq BOOLEAN
      BY MirrorAssumption DEF TypeOK, Calls
    <2>5. issued' \subseteq Certs /\ recorded' \subseteq Certs
      BY DEF TypeOK
    <2> QED BY <2>1, <2>2, <2>3, <2>4, <2>5 DEF TypeOK
  <1>4. /\ call[c].verb # "none" /\ crossed' = crossed /\ kind' = kind
        /\ cutShort => cutShort'
        /\ Calm' => Calm
    <2>1. call[c].verb # "none" /\ crossed' = crossed /\ kind' = kind
      BY IdleCall DEF Shape
    <2>2. (cutShort => cutShort') /\ (unrouted => unrouted')
      BY DEF TypeOK
    <2> QED BY <2>1, <2>2 DEF Calm
  <1>5. Born'
    BY MirrorAssumption DEF IInv, Born, Shape, Calls
  <1>6. CallsInv'
    <2> SUFFICES ASSUME NEW d \in Callers PROVE Shape(call[d])' /\ Knows(call[d])'
      BY DEF CallsInv
    <2>1. CASE d = c
      BY <2>1, <1>4, MirrorAssumption, IdleCall DEF Shape, Knows, Trusted, Calls
    <2>2. CASE d # c
      <3>1. Shape(call[d]) /\ Knows(call[d]) /\ call'[d] = call[d] /\ call[d] \in Calls
        BY <2>2 DEF IInv, CallsInv, TypeOK
      <3>2. /\ call[d].verb # "none" => ~call[d].alone
            /\ ~crossed => ~Clash(call[c].verb, call[d].verb)
        BY <2>2, <1>4, Company
      <3>3. Shape(call[d])'
        BY <3>1, <1>4 DEF Shape
      <3>4. Knows(call[d])'
        BY <3>1, <3>2, <1>4, MirrorAssumption DEF Knows, Shape, Trusted, Clash
      <3> QED BY <3>1, <3>3, <3>4
    <2> QED BY <2>1, <2>2
  <1>7. Alone' /\ Apart'
    BY <1>4, IdleCall DEF IInv, Alone, Apart, Clash
  <1>8. Agreed'
    <2> SUFFICES ASSUME Calm', \A d \in Callers : ~Writing(call[d])' PROVE Agree'
      BY DEF Agreed
    <2>1. Calm /\ ~Writing(call[c])'
      BY <1>4
    <2>2. \A d \in Callers : d # c => ~Writing(call[d])
      BY DEF Writing
    <2>3. ~Writing(call[c]) => Agree
      BY <2>1, <2>2 DEF IInv, Agreed
    <2> QED BY <1>4, <2>1, <2>3, MirrorAssumption, IdleCall DEF Agree, Calm, Writing, Shape, Knows, Trusted
  <1>9. GoneInv'
    <2> SUFFICES ASSUME gone' PROVE GoneInv'
      BY DEF GoneInv
    <2> QED BY IdleCall, <1>4, Company DEF IInv, GoneInv, Clash, Knows, Shape, Trusted
  <1>10. SettledInv'
    <2> SUFFICES ASSUME settled' PROVE Agree' /\ \A d \in Callers : call'[d].verb = "none"
      BY DEF SettledInv
    <2>1. ~settled
      BY <1>4 DEF IInv, SettledInv
    <2> QED BY <2>1, <1>4, Company, MirrorAssumption, IdleCall DEF Agree, Knows, Shape, Trusted
  <1>11. CertsInv'
    <2>1. call[c].at # "record" /\ issued' = issued /\ recorded' = recorded
      BY DEF Shape
    <2>2. cutShort' \in BOOLEAN
      BY <1>3 DEF TypeOK
    <2> QED BY <2>1, <2>2, <1>4, CertsStay
  <1> QED BY <1>3, <1>5, <1>6, <1>7, <1>8, <1>9, <1>10, <1>11 DEF IInv

\* Remove: the router forgets it.
LEMMA RouterRemovesKeeps ==
    ASSUME IInv, NEW c \in Callers, RouterRemoves(c)
    PROVE  IInv'
  <1>1. TypeOK /\ call[c] \in Calls /\ Shape(call[c]) /\ Knows(call[c])
    BY DEF IInv, TypeOK, CallsInv
  <1>2. call'[c] = Idle /\ Alongside(c)
    BY <1>1, EndCalls DEF RouterRemoves, Succeed, Refuse, Fail
  <1> USE <1>1, <1>2 DEF RouterRemoves, Went, Alongside, Succeed, Refuse, Fail, Mishap, history,
                       PerhapsOutside, tables
  <1>3. TypeOK'
    <2>1. mishaps' \in Nat
      BY MirrorAssumption DEF TypeOK
    <2>2. {cutShort', crossed', unrouted'} \subseteq BOOLEAN
      BY DEF TypeOK
    <2>3. {gone', settled'} \subseteq BOOLEAN
      BY DEF TypeOK
    <2>4. /\ kind' \in Kinds /\ row' \in Contents \cup {None}
          /\ outside' \in Contents \cup {None}
          /\ {born', router'} \subseteq BOOLEAN
      BY MirrorAssumption DEF TypeOK, Calls
    <2>5. issued' \subseteq Certs /\ recorded' \subseteq Certs
      BY DEF TypeOK
    <2> QED BY <2>1, <2>2, <2>3, <2>4, <2>5 DEF TypeOK
  <1>4. /\ call[c].verb # "none" /\ crossed' = crossed /\ kind' = kind
        /\ cutShort => cutShort'
        /\ Calm' => Calm
    <2>1. call[c].verb # "none" /\ crossed' = crossed /\ kind' = kind
      BY IdleCall DEF Shape
    <2>2. (cutShort => cutShort') /\ (unrouted => unrouted')
      BY DEF TypeOK
    <2> QED BY <2>1, <2>2 DEF Calm
  <1>5. Born'
    BY MirrorAssumption DEF IInv, Born, Shape, Calls
  <1>6. CallsInv'
    <2> SUFFICES ASSUME NEW d \in Callers PROVE Shape(call[d])' /\ Knows(call[d])'
      BY DEF CallsInv
    <2>1. CASE d = c
      BY <2>1, <1>4, MirrorAssumption, IdleCall DEF Shape, Knows, Trusted, Calls
    <2>2. CASE d # c
      <3>1. Shape(call[d]) /\ Knows(call[d]) /\ call'[d] = call[d] /\ call[d] \in Calls
        BY <2>2 DEF IInv, CallsInv, TypeOK
      <3>2. /\ call[d].verb # "none" => ~call[d].alone
            /\ ~crossed => ~Clash(call[c].verb, call[d].verb)
        BY <2>2, <1>4, Company
      <3>3. Shape(call[d])'
        BY <3>1, <1>4 DEF Shape
      <3>4. Knows(call[d])'
        <4>1. row' = row /\ issued' = issued /\ kind # "secret"
          BY DEF Shape
        <4>2. CASE call[d].verb = "Update"
          BY <4>1, <4>2, <3>1, <3>2, <1>4 DEF Knows, Shape, Trusted, Clash, Calm
        <4>3. CASE call[d].verb # "Update"
          BY <4>1, <4>3, <3>1, <1>4 DEF Knows, Shape, Trusted
        <4> QED BY <4>2, <4>3
      <3> QED BY <3>1, <3>3, <3>4
    <2> QED BY <2>1, <2>2
  <1>7. Alone' /\ Apart'
    BY <1>4, IdleCall DEF IInv, Alone, Apart, Clash
  <1>8. Agreed'
    <2> SUFFICES ASSUME Calm', \A d \in Callers : ~Writing(call[d])' PROVE Agree'
      BY DEF Agreed
    <2>1. Calm /\ ~Writing(call[c])'
      BY <1>4
    <2>2. \A d \in Callers : d # c => ~Writing(call[d])
      BY DEF Writing
    <2>3. ~Writing(call[c]) => Agree
      BY <2>1, <2>2 DEF IInv, Agreed
    <2> QED BY <1>4, <2>1, <2>3, MirrorAssumption, IdleCall DEF Agree, Calm, Writing, Shape, Knows, Trusted
  <1>9. GoneInv'
    <2> SUFFICES ASSUME gone' PROVE GoneInv'
      BY DEF GoneInv
    <2> QED 
      <3>1. (kind # "secret" => row' = None /\ born') /\ row' = row
        BY DEF Shape, Knows
      <3>2. ~crossed => \A d \in Callers : call'[d].verb \notin {"Set", "Add", "Update"}
        BY NoneBringsBack
      <3>3. ~crossed /\ ~unrouted => outside' = None
        BY DEF IInv, GoneInv
      <3>4. crossed' = crossed /\ unrouted' = unrouted /\ kind' = kind
        OBVIOUS
      <3> HIDE <1>1, <1>2 DEF RouterRemoves, Alongside
      <3> QED BY <3>1, <3>2, <3>3, <3>4 DEF GoneInv
  <1>10. SettledInv'
    <2> SUFFICES ASSUME settled' PROVE Agree' /\ \A d \in Callers : call'[d].verb = "none"
      BY DEF SettledInv
    <2>1. ~settled
      BY <1>4 DEF IInv, SettledInv
    <2> QED BY <2>1, <1>4, Company, MirrorAssumption, IdleCall DEF Agree, Knows, Shape, Trusted
  <1>11. CertsInv'
    <2>1. call[c].at # "record" /\ issued' = issued /\ recorded' = recorded
      BY DEF Shape
    <2>2. cutShort' \in BOOLEAN
      BY <1>3 DEF TypeOK
    <2> QED BY <2>1, <2>2, <1>4, CertsStay
  <1> QED BY <1>3, <1>5, <1>6, <1>7, <1>8, <1>9, <1>10, <1>11 DEF IInv

\* Verify writes what only the store knows.
LEMMA VerifyRowKeeps ==
    ASSUME IInv, NEW c \in Callers, VerifyRow(c)
    PROVE  IInv'
  <1>1. TypeOK /\ call[c] \in Calls /\ Shape(call[c]) /\ Knows(call[c])
    BY DEF IInv, TypeOK, CallsInv
  <1>2. call'[c] = Idle /\ Alongside(c)
    BY <1>1, EndCalls DEF VerifyRow, Succeed, Refuse, Fail
  <1> USE <1>1, <1>2 DEF VerifyRow, Went, Alongside, Succeed, Refuse, Fail, Mishap, history,
                       PerhapsOutside, tables
  <1>3. TypeOK'
    <2>1. mishaps' \in Nat
      BY MirrorAssumption DEF TypeOK
    <2>2. {cutShort', crossed', unrouted'} \subseteq BOOLEAN
      BY DEF TypeOK
    <2>3. {gone', settled'} \subseteq BOOLEAN
      BY DEF TypeOK
    <2>4. /\ kind' \in Kinds /\ row' \in Contents \cup {None}
          /\ outside' \in Contents \cup {None}
          /\ {born', router'} \subseteq BOOLEAN
      BY MirrorAssumption DEF TypeOK, Calls
    <2>5. issued' \subseteq Certs /\ recorded' \subseteq Certs
      BY DEF TypeOK
    <2> QED BY <2>1, <2>2, <2>3, <2>4, <2>5 DEF TypeOK
  <1>4. /\ call[c].verb # "none" /\ crossed' = crossed /\ kind' = kind
        /\ cutShort => cutShort'
        /\ Calm' => Calm
    <2>1. call[c].verb # "none" /\ crossed' = crossed /\ kind' = kind
      BY IdleCall DEF Shape
    <2>2. (cutShort => cutShort') /\ (unrouted => unrouted')
      BY DEF TypeOK
    <2> QED BY <2>1, <2>2 DEF Calm
  <1>5. Born'
    BY MirrorAssumption DEF IInv, Born, Shape, Calls
  <1>6. CallsInv'
    <2> SUFFICES ASSUME NEW d \in Callers PROVE Shape(call[d])' /\ Knows(call[d])'
      BY DEF CallsInv
    <2>1. CASE d = c
      BY <2>1, <1>4, MirrorAssumption, IdleCall DEF Shape, Knows, Trusted, Calls
    <2>2. CASE d # c
      <3>1. Shape(call[d]) /\ Knows(call[d]) /\ call'[d] = call[d] /\ call[d] \in Calls
        BY <2>2 DEF IInv, CallsInv, TypeOK
      <3>2. /\ call[d].verb # "none" => ~call[d].alone
            /\ ~crossed => ~Clash(call[c].verb, call[d].verb)
        BY <2>2, <1>4, Company
      <3>3. Shape(call[d])'
        BY <3>1, <1>4 DEF Shape
      <3>4. Knows(call[d])'
        BY <3>1, <3>2, <1>4, MirrorAssumption DEF Knows, Shape, Trusted, Clash
      <3> QED BY <3>1, <3>3, <3>4
    <2> QED BY <2>1, <2>2
  <1>7. Alone' /\ Apart'
    BY <1>4, IdleCall DEF IInv, Alone, Apart, Clash
  <1>8. Agreed'
    <2> SUFFICES ASSUME Calm', \A d \in Callers : ~Writing(call[d])' PROVE Agree'
      BY DEF Agreed
    <2>1. Calm /\ ~Writing(call[c])'
      BY <1>4
    <2>2. \A d \in Callers : d # c => ~Writing(call[d])
      BY DEF Writing
    <2>3. ~Writing(call[c]) => Agree
      BY <2>1, <2>2 DEF IInv, Agreed
    <2> QED BY <1>4, <2>1, <2>3, MirrorAssumption, IdleCall DEF Agree, Calm, Writing, Shape, Knows, Trusted
  <1>9. GoneInv'
    <2> SUFFICES ASSUME gone' PROVE GoneInv'
      BY DEF GoneInv
    <2> QED BY IdleCall, <1>4, Company DEF IInv, GoneInv, Clash, Knows, Shape, Trusted
  <1>10. SettledInv'
    <2> SUFFICES ASSUME settled' PROVE Agree' /\ \A d \in Callers : call'[d].verb = "none"
      BY DEF SettledInv
    <2>1. ~settled
      BY <1>4 DEF IInv, SettledInv
    <2> QED BY <2>1, <1>4, Company, MirrorAssumption, IdleCall DEF Agree, Knows, Shape, Trusted
  <1>11. CertsInv'
    <2>1. call[c].at # "record" /\ issued' = issued /\ recorded' = recorded
      BY DEF Shape
    <2>2. cutShort' \in BOOLEAN
      BY <1>3 DEF TypeOK
    <2> QED BY <2>1, <2>2, <1>4, CertsStay
  <1> QED BY <1>3, <1>5, <1>6, <1>7, <1>8, <1>9, <1>10, <1>11 DEF IInv

\* ProvisionCert: the router issues a certificate.
LEMMA IssueCertKeeps ==
    ASSUME IInv, NEW c \in Callers, IssueCert(c)
    PROVE  IInv'
  <1>1. TypeOK /\ call[c] \in Calls /\ Shape(call[c]) /\ Knows(call[c])
    BY DEF IInv, TypeOK, CallsInv
  <1>2. PICK cert \in Certs \ issued :
          \/ /\ issued' = issued \cup {cert}
             /\ call' = [call EXCEPT ![c].at = "record", ![c].cert = cert]
             /\ UNCHANGED <<history, mishaps>>
          \/ /\ issued' \in {issued, issued \cup {cert}}
             /\ Fail(c, issued' # issued)
    BY DEF IssueCert
  <1>3. UNCHANGED <<kind, row, outside, born, router, recorded>>
    BY DEF IssueCert
  <1>4. kind = "domain" /\ call[c].verb = "ProvisionCert"
    BY <1>1, IdleCall DEF IssueCert, Shape, Calls, Verbs
  <1>5. /\ UNCHANGED <<crossed, unrouted, gone, settled>>
        /\ cutShort => cutShort'
        /\ mishaps' \in Nat /\ cutShort' \in BOOLEAN
    <2>1. CASE UNCHANGED <<history, mishaps>>
      BY <1>1, <2>1 DEF history, TypeOK
    <2>2. CASE Fail(c, issued' # issued)
      BY <1>1, <2>2, MirrorAssumption DEF Fail, Mishap, TypeOK
    <2> QED BY <1>2, <2>1, <2>2
  <1>6. /\ Alongside(c)
        /\ \/ /\ issued' = issued \cup {cert}
              /\ call'[c].at = "record" /\ call'[c].cert = cert
              /\ call'[c].verb = call[c].verb /\ call'[c].found = call[c].found
              /\ call'[c].alone = call[c].alone
           \/ call'[c] = Idle /\ (issued' # issued => cutShort')
    <2>1. CASE /\ issued' = issued \cup {cert}
               /\ call' = [call EXCEPT ![c].at = "record", ![c].cert = cert]
      <3>1. call'[c] = [call[c] EXCEPT !.at = "record", !.cert = cert]
        BY <1>1, <2>1 DEF TypeOK
      <3>2. call'[c] \in Calls
        BY <1>1, <3>1 DEF Calls
      <3> QED BY <1>1, <2>1, <3>1, <3>2 DEF TypeOK, Alongside, Calls
    <2>2. CASE issued' \in {issued, issued \cup {cert}} /\ Fail(c, issued' # issued)
      BY <1>1, <2>2, EndCalls DEF Fail
    <2> QED BY <1>2, <2>1, <2>2
  <1>7. issued \subseteq issued' /\ issued' \subseteq issued \cup {cert}
    BY <1>2
  <1> USE <1>3, <1>4, <1>5, <1>6, <1>7 DEF Alongside
  <1>8. TypeOK'
    BY <1>1 DEF TypeOK
  <1>9. Born'
    BY DEF IInv, Born
  <1>10. CallsInv'
    <2> SUFFICES ASSUME NEW d \in Callers PROVE Shape(call[d])' /\ Knows(call[d])'
      BY DEF CallsInv
    <2>1. CASE d = c
      BY <1>1, <2>1, IdleCall DEF Shape, Knows
    <2>2. CASE d # c
      <3>1. Shape(call[d]) /\ Knows(call[d]) /\ call'[d] = call[d]
        BY <2>2 DEF IInv, CallsInv
      <3>2. Shape(call[d])'
        BY <3>1 DEF Shape
      <3> QED BY <3>1, <3>2 DEF Knows, Trusted, Calm
    <2> QED BY <2>1, <2>2
  <1>11. Alone' /\ Apart'
    BY IdleCall DEF IInv, Alone, Apart, Clash
  <1>12. Agreed'
    BY IdleCall DEF IInv, Agreed, Agree, Calm, Writing, IssueCert
  <1>13. GoneInv'
    BY IdleCall DEF IInv, GoneInv
  <1>14. SettledInv'
    BY DEF IInv, SettledInv
  <1>15. CertsInv'
    BY DEF IInv, CertsInv, IssueCert
  <1> QED
    BY <1>8, <1>9, <1>10, <1>11, <1>12, <1>13, <1>14, <1>15 DEF IInv

\* ProvisionCert: the store records it.
LEMMA RecordCertKeeps ==
    ASSUME IInv, NEW c \in Callers, RecordCert(c)
    PROVE  IInv'
  <1>1. TypeOK /\ call[c] \in Calls /\ Shape(call[c]) /\ Knows(call[c])
    BY DEF IInv, TypeOK, CallsInv
  <1>2. call'[c] = Idle /\ Alongside(c)
    BY <1>1, EndCalls DEF RecordCert, Succeed, Refuse, Fail
  <1> USE <1>1, <1>2 DEF RecordCert, Went, Alongside, Succeed, Refuse, Fail, Mishap, history,
                       PerhapsOutside, tables
  <1>3. TypeOK'
    <2>1. mishaps' \in Nat
      BY MirrorAssumption DEF TypeOK
    <2>2. {cutShort', crossed', unrouted'} \subseteq BOOLEAN
      BY DEF TypeOK
    <2>3. {gone', settled'} \subseteq BOOLEAN
      BY DEF TypeOK
    <2>4. /\ kind' \in Kinds /\ row' \in Contents \cup {None}
          /\ outside' \in Contents \cup {None}
          /\ {born', router'} \subseteq BOOLEAN
      BY MirrorAssumption DEF TypeOK, Calls
    <2>5. issued' \subseteq Certs /\ recorded' \subseteq Certs
      BY DEF TypeOK, Knows
    <2> QED BY <2>1, <2>2, <2>3, <2>4, <2>5 DEF TypeOK
  <1>4. /\ call[c].verb # "none" /\ crossed' = crossed /\ kind' = kind
        /\ cutShort => cutShort'
        /\ Calm' => Calm
    <2>1. call[c].verb # "none" /\ crossed' = crossed /\ kind' = kind
      BY IdleCall DEF Shape
    <2>2. (cutShort => cutShort') /\ (unrouted => unrouted')
      BY DEF TypeOK
    <2> QED BY <2>1, <2>2 DEF Calm
  <1>5. Born'
    BY MirrorAssumption DEF IInv, Born, Shape, Calls
  <1>6. CallsInv'
    <2> SUFFICES ASSUME NEW d \in Callers PROVE Shape(call[d])' /\ Knows(call[d])'
      BY DEF CallsInv
    <2>1. CASE d = c
      BY <2>1, <1>4, MirrorAssumption, IdleCall DEF Shape, Knows, Trusted, Calls
    <2>2. CASE d # c
      <3>1. Shape(call[d]) /\ Knows(call[d]) /\ call'[d] = call[d] /\ call[d] \in Calls
        BY <2>2 DEF IInv, CallsInv, TypeOK
      <3>2. /\ call[d].verb # "none" => ~call[d].alone
            /\ ~crossed => ~Clash(call[c].verb, call[d].verb)
        BY <2>2, <1>4, Company
      <3>3. Shape(call[d])'
        BY <3>1, <1>4 DEF Shape
      <3>4. Knows(call[d])'
        BY <3>1, <3>2, <1>4, MirrorAssumption DEF Knows, Shape, Trusted, Clash
      <3> QED BY <3>1, <3>3, <3>4
    <2> QED BY <2>1, <2>2
  <1>7. Alone' /\ Apart'
    BY <1>4, IdleCall DEF IInv, Alone, Apart, Clash
  <1>8. Agreed'
    <2> SUFFICES ASSUME Calm', \A d \in Callers : ~Writing(call[d])' PROVE Agree'
      BY DEF Agreed
    <2>1. Calm /\ ~Writing(call[c])'
      BY <1>4
    <2>2. \A d \in Callers : d # c => ~Writing(call[d])
      BY DEF Writing
    <2>3. ~Writing(call[c]) => Agree
      BY <2>1, <2>2 DEF IInv, Agreed
    <2> QED BY <1>4, <2>1, <2>3, MirrorAssumption, IdleCall DEF Agree, Calm, Writing, Shape, Knows, Trusted
  <1>9. GoneInv'
    <2> SUFFICES ASSUME gone' PROVE GoneInv'
      BY DEF GoneInv
    <2> QED BY IdleCall, <1>4, Company DEF IInv, GoneInv, Clash, Knows, Shape, Trusted
  <1>10. SettledInv'
    <2> SUFFICES ASSUME settled' PROVE Agree' /\ \A d \in Callers : call'[d].verb = "none"
      BY DEF SettledInv
    <2>1. ~settled
      BY <1>4 DEF IInv, SettledInv
    <2> QED 
      <3>1. call[c].verb = "ProvisionCert"
        BY IdleCall DEF Shape, Calls, Verbs
      <3>2. ~settled'
        BY <2>1, <3>1
      <3> QED BY <3>2
  <1>11. CertsInv'
    <2>1. recorded' \subseteq issued' /\ (cutShort => cutShort')
      BY <1>4 DEF IInv, CertsInv, Knows
    <2>2. ~cutShort' => recorded' = recorded \cup {call[c].cert} /\ ~cutShort
      BY <1>4
    <2> QED BY <2>1, <2>2 DEF IInv, CertsInv
  <1> QED BY <1>3, <1>5, <1>6, <1>7, <1>8, <1>9, <1>10, <1>11 DEF IInv

\* A restart ends the calls and forgets the router.
LEMMA RebootKeeps ==
    ASSUME IInv, Reboot
    PROVE  IInv'
  <1>1. TypeOK /\ CallsInv
    BY DEF IInv
  <1>2. /\ call' = [c \in Callers |-> Idle] /\ router' = FALSE
        /\ UNCHANGED <<kind, row, outside, born, issued, recorded,
                       crossed, unrouted, gone, settled>>
        /\ mishaps' \in Nat
        /\ cutShort' = (cutShort \/ \E c \in Callers : Halfway(call[c]))
    BY <1>1, MirrorAssumption DEF Reboot, Mishap, TypeOK
  <1>3. \A c \in Callers : call'[c] = Idle
    BY <1>2
  <1>4. (cutShort => cutShort') /\ cutShort' \in BOOLEAN
    BY <1>1, <1>2 DEF TypeOK
  <1>5. ~cutShort' => ~cutShort /\ \A c \in Callers : ~Halfway(call[c])
    BY <1>2
  <1>6. TypeOK'
    BY <1>1, <1>2, <1>4, IdleCall DEF TypeOK
  <1>7. Born' /\ CallsInv' /\ Alone' /\ Apart'
    <2>1. Born'
      BY <1>2 DEF IInv, Born
    <2>2. CallsInv'
      BY <1>3, IdleCall DEF CallsInv, Shape, Knows
    <2>3. Alone' /\ Apart'
      BY <1>3, IdleCall DEF Alone, Apart, Clash
    <2> QED BY <2>1, <2>2, <2>3
  <1>8. Agreed'
    <2> SUFFICES ASSUME Calm' PROVE Agree'
      BY DEF Agreed
    <2>1. Calm /\ \A c \in Callers : ~Halfway(call[c])
      BY <1>2, <1>5 DEF Calm
    <2>2. \A c \in Callers : ~Writing(call[c])
      BY <2>1 DEF Halfway, Writing
    <2>3. Agree
      BY <2>1, <2>2 DEF IInv, Agreed
    <2> QED BY <1>2, <2>3 DEF Agree
  <1>9. GoneInv' /\ SettledInv'
    BY <1>2, <1>3, IdleCall DEF IInv, GoneInv, SettledInv, Agree
  <1>10. CertsInv'
    BY <1>2, <1>5 DEF IInv, CertsInv, Halfway
  <1> QED BY <1>6, <1>7, <1>8, <1>9, <1>10 DEF IInv

\* The application sets the router late.
LEMMA SetRouterKeeps ==
    ASSUME IInv, SetRouter
    PROVE  IInv'
  <1> USE DEF SetRouter, history
  <1>1. TypeOK' /\ Born'
    BY DEF IInv, TypeOK, Born
  <1>2. CallsInv'
    BY DEF IInv, CallsInv, Shape, Knows, Trusted, Calm
  <1>3. Alone' /\ Apart'
    BY DEF IInv, Alone, Apart
  <1>4. Agreed' /\ GoneInv' /\ SettledInv' /\ CertsInv'
    BY DEF IInv, Agreed, Agree, Calm, GoneInv, SettledInv, CertsInv
  <1> QED BY <1>1, <1>2, <1>3, <1>4 DEF IInv

\* A call that begins, whichever its verb.
LEMMA BeginKeeps ==
    ASSUME IInv, NEW c \in Callers, Begin(c)
    PROVE  IInv'
  <1>1. Blank \in Contents /\ mishaps \in Nat /\ MaxMishaps \in Nat
    BY MirrorAssumption DEF IInv, TypeOK
  <1>2. ASSUME NEW v \in Contents, BeginSet(c, v) PROVE IInv'
    <2>1. UNCHANGED tables /\ kind = "secret" /\ mishaps' \in Nat
      <3>1. UNCHANGED tables /\ kind = "secret" /\ (mishaps' = mishaps \/ Mishap)
        BY <1>2 DEF BeginSet
      <3> QED BY <1>1, <3>1 DEF Mishap
    <2>2. CASE Enter(c, "Set", "vault", v, row # None)
      <3>1. "Set" \in Verbs \ {"Add"} /\ (row # None) \in BOOLEAN
        BY DEF Verbs
      <3> QED BY <2>1, <2>2, <3>1, Begins
    <2>3. CASE Enter(c, "Set", "vault", v, FALSE)
      <3>1. "Set" \in Verbs \ {"Add"}
        BY DEF Verbs
      <3> QED BY <2>1, <2>3, <3>1, Begins
    <2> QED BY <1>2, <2>2, <2>3 DEF BeginSet
  <1>3. ASSUME NEW v \in Contents, AddRoute(c, v) PROVE IInv'
    BY <1>3, Inserts DEF AddRoute
  <1>4. ASSUME NEW v \in Contents, BeginUpdate(c, v) PROVE IInv'
    <2>1. "Update" \in Verbs \ {"Add"}
      BY DEF Verbs
    <2> QED BY <1>1, <1>4, <2>1, Begins DEF BeginUpdate
  <1>5. CASE BeginDelete(c)
    <2>1. "Delete" \in Verbs \ {"Add"}
      BY DEF Verbs
    <2> QED BY <1>1, <1>5, <2>1, Begins DEF BeginDelete
  <1>6. CASE AddDomain(c)
    BY <1>1, <1>6, Inserts DEF AddDomain
  <1>7. CASE BeginRemove(c)
    <2>1. "Remove" \in Verbs \ {"Add"}
      BY DEF Verbs
    <2> QED BY <1>1, <1>7, <2>1, Begins DEF BeginRemove
  <1>8. CASE BeginVerify(c)
    <2>1. "Verify" \in Verbs \ {"Add"}
      BY DEF Verbs
    <2> QED BY <1>1, <1>8, <2>1, Begins DEF BeginVerify
  <1>9. CASE BeginProvisionCert(c)
    <2>1. "ProvisionCert" \in Verbs \ {"Add"}
      BY DEF Verbs
    <2> QED BY <1>1, <1>9, <2>1, Begins DEF BeginProvisionCert
  <1> QED BY <1>2, <1>3, <1>4, <1>5, <1>6, <1>7, <1>8, <1>9 DEF Begin

-----------------------------------------------------------------------------
(* The theorems.                                                           *)

\* The invariant holds at the start.
LEMMA InitInv == Init => IInv
  <1> SUFFICES ASSUME Init PROVE IInv
    OBVIOUS
  <1> USE DEF Init
  <1>1. TypeOK
    BY IdleCall DEF TypeOK
  <1>2. \A c \in Callers : call[c] = Idle
    OBVIOUS
  <1>3. Born /\ CallsInv
    BY <1>2, IdleCall DEF Born, CallsInv, Shape, Knows
  <1>4. Alone /\ Apart
    BY <1>2, IdleCall DEF Alone, Apart, Clash
  <1>5. Agreed /\ GoneInv /\ SettledInv /\ CertsInv
    BY DEF Agreed, Agree, GoneInv, SettledInv, CertsInv
  <1> QED BY <1>1, <1>3, <1>4, <1>5 DEF IInv

\* And every step keeps it.
LEMMA NextInv == IInv /\ [Next]_vars => IInv'
  <1> SUFFICES ASSUME IInv, [Next]_vars PROVE IInv'
    OBVIOUS
  <1>1. ASSUME NEW c \in Callers, Begin(c) PROVE IInv'
    BY <1>1, BeginKeeps
  <1>2. ASSUME NEW c \in Callers, Advance(c) PROVE IInv'
    BY <1>2, StoreValueKeeps, WriteSecretKeeps, DropValueKeeps, DropSecretKeeps, UnroutedKeeps,
       RouterAddsKeeps, UpdateRowKeeps, RouterUpdatesKeeps, DropRowKeeps, RouterRemovesKeeps,
       VerifyRowKeeps, IssueCertKeeps, RecordCertKeeps DEF Advance
  <1>3. CASE SetRouter
    BY <1>3, SetRouterKeeps
  <1>4. CASE Reboot
    BY <1>4, RebootKeeps
  <1>5. CASE UNCHANGED vars
    BY <1>5 DEF vars, IInv, TypeOK, Born, CallsInv, Shape, Knows, Trusted, Calm, Alone, Apart,
       Agreed, Agree, Writing, GoneInv, SettledInv, CertsInv
  <1> QED BY <1>1, <1>2, <1>3, <1>4, <1>5 DEF Next

\* Every reachable state satisfies the invariant.
THEOREM Invariance == Spec => []IInv
  BY InitInv, NextInv, PTL DEF Spec

\* Row, counterpart, router and calls in flight keep their types.
THEOREM TypeCorrect == Spec => []TypeOK
  <1>1. IInv => TypeOK
    BY DEF IInv
  <1> QED BY <1>1, Invariance, PTL

\* With nothing in flight, row and counterpart agree and every certificate is
\* recorded, or one of the three causes is there: an end between two writes,
\* clashing calls, no router.
THEOREM DivergenceIsExplained == Spec => []DivergenceHasCause
  <1>1. IInv => DivergenceHasCause
    <2> SUFFICES ASSUME IInv, Busy = {}, ~cutShort, ~crossed, ~unrouted
                 PROVE  Agree /\ issued = recorded
      BY DEF DivergenceHasCause
    <2>1. \A c \in Callers : call[c] = Idle
      BY DEF Busy
    <2>2. Agree
      BY <2>1, IdleCall DEF IInv, Agreed, Calm, Writing
    <2>3. issued = recorded
      BY <2>1, IdleCall DEF IInv, CertsInv
    <2> QED BY <2>2, <2>3
  <1> QED BY <1>1, Invariance, PTL

\* What a Delete or Remove reported gone is served no more.
THEOREM RemovalSticks == Spec => []RemovalIsFinal
  <1>1. IInv => RemovalIsFinal
    BY DEF IInv, GoneInv, RemovalIsFinal
  <1> QED BY <1>1, Invariance, PTL

\* A call that was alone and succeeded mends whatever it found.
THEOREM AloneMends == Spec => []LoneCallMends
  <1>1. IInv => LoneCallMends
    BY DEF IInv, SettledInv, LoneCallMends
  <1> QED BY <1>1, Invariance, PTL

=============================================================================

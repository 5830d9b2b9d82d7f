--------------------------- MODULE WritePlansProofs ---------------------------
(* Theorems about the approval-gated writes, for any plans, charts, files,   *)
(* grants and faults.  Neither property is inductive: that a patch fits the  *)
(* file it replaces depends on what its call read, and on stamps that only   *)
(* grow (ReviewInv, CallInv); that a write is signed depends on what its     *)
(* call passed on the way (CallInv, WroteInv).                               *)
EXTENDS WritePlans, TLAPS

Pcs == {"authorize", "consume", "read", "check", "replace", "create", "render"}
Writing == {"read", "check", "replace", "create", "render"}
CallRecord == [id : WriteIds, chart : Charts, token : Grants,
               read : Texts \cup {NoText}, late : BOOLEAN, pc : Pcs]
Reviewed(id) == reviews[id] \notin {NoReview, Lost}

TypesInv ==
    /\ ApprovalsTypeOK /\ SecureFilesTypeOK
    /\ text = [i \in Inodes |-> text[i]] /\ reviews = [id \in WriteIds |-> reviews[id]]
    /\ call # NoCall => call \in CallRecord

\* As long as a reviewed file has its stamp, it has its text.
ReviewInv ==
    \A id \in WriteIds : Kind[id] = "patch" /\ Reviewed(id) =>
        /\ reviews[id].file \in Inodes /\ reviews[id].stamp \in Nat
        /\ reviews[id].stamp <= stamp[reviews[id].file]
        /\ stamp[reviews[id].file] = reviews[id].stamp => text[reviews[id].file] = reviews[id].digest

SignedFor(token, id, chart) ==
    /\ token \in burnt /\ token \in Grants /\ Signed(token)
    /\ issued[token].plan = [id |-> id, chart |-> chart]

\* What the call under way has passed, and what it has written.
CallInv == call # NoCall =>
    /\ call.pc # "authorize" => Reviewed(call.id)
    /\ call.pc \in {"read", "check", "replace"} <=> call.pc \in Writing /\ Kind[call.id] = "patch"
    /\ call.pc = "render" => Kind[call.id] = "visualization"
    /\ call.pc \in Writing => SignedFor(call.token, call.id, call.chart)
    /\ call.pc \in Writing \ {"render"} => \A w \in wrote : w.token # call.token
    /\ call.pc = "render" => \A w \in wrote : w.token = call.token => w.name = Target[call.id]
    /\ call.pc = "check" /\ StillThere(call.id) => call.read = Patched[reviews[call.id].digest]
    /\ call.pc = "replace" => /\ call.read = Patched[reviews[call.id].digest]
                              /\ call.late \/ StillThere(call.id)

WroteInv == \A w \in wrote : SignedFor(w.token, w.id, w.chart)

WriteInv == TypesInv /\ ReviewInv /\ CallInv /\ WroteInv /\ PatchesOfReviewed /\ WritesAreSigned

USE ApprovalsAssumption, SecureFilesAssumption, WritePlansAssumption

LEMMA WriteInit == ASSUME Init PROVE WriteInv
<1>1. ApprovalsTypeOK
  BY DEF Init, ApprovalsInit, ApprovalsTypeOK
<1>2. SecureFilesTypeOK
  BY DEF Init, SecureFilesInit, SecureFilesTypeOK
<1> QED
  BY <1>1, <1>2 DEF Init, WriteInv, TypesInv, ReviewInv, CallInv, WroteInv, PatchesOfReviewed,
     WritesAreSigned, Reviewed

\* Other programs: types stay, stamps grow, and a name that now points to
\* another file points to one whose stamp has grown.
LEMMA EditsGrow ==
  ASSUME SecureFilesTypeOK, OtherPrograms
  PROVE  /\ SecureFilesTypeOK'
         /\ \A i \in Inodes : stamp[i] <= stamp'[i]
         /\ \A n \in Names : names'[n] \in Inodes /\ names'[n] # names[n]
                => stamp[names'[n]] < stamp'[names'[n]]
<1> USE DEF SecureFilesTypeOK, Exists
<1>1. ASSUME NEW n \in Names, EditInPlace(n)
      PROVE  /\ SecureFilesTypeOK' /\ \A i \in Inodes : stamp[i] <= stamp'[i]
             /\ \A m \in Names : names'[m] \in Inodes /\ names'[m] # names[m]
                    => stamp[names'[m]] < stamp'[names'[m]]
  BY <1>1 DEF EditInPlace
<1>2. ASSUME NEW n \in Names, SaveOver(n)
      PROVE  /\ SecureFilesTypeOK' /\ \A i \in Inodes : stamp[i] <= stamp'[i]
             /\ \A m \in Names : names'[m] \in Inodes /\ names'[m] # names[m]
                    => stamp[names'[m]] < stamp'[names'[m]]
  BY <1>2 DEF SaveOver
<1>3. ASSUME NEW n \in Names, Remove(n)
      PROVE  /\ SecureFilesTypeOK' /\ \A i \in Inodes : stamp[i] <= stamp'[i]
             /\ \A m \in Names : names'[m] \in Inodes /\ names'[m] # names[m]
                    => stamp[names'[m]] < stamp'[names'[m]]
  BY <1>3 DEF Remove
<1>4. ASSUME NEW n \in Names, NEW o \in Names, RenameTo(n, o)
      PROVE  /\ SecureFilesTypeOK' /\ \A i \in Inodes : stamp[i] <= stamp'[i]
             /\ \A m \in Names : names'[m] \in Inodes /\ names'[m] # names[m]
                    => stamp[names'[m]] < stamp'[names'[m]]
  BY <1>4 DEF RenameTo
<1> QED
  BY <1>1, <1>2, <1>3, <1>4 DEF OtherPrograms

----------------------------------------------------------------------------
(* What a step keeps.                                                        *)

\* Reviews keep matching their files while stamps only grow and a text
\* changes only with its stamp.
LEMMA ReviewsStay ==
  ASSUME TypesInv, ReviewInv, UNCHANGED reviews,
         \A i \in Inodes : /\ stamp'[i] \in Nat /\ stamp[i] <= stamp'[i]
                           /\ stamp'[i] = stamp[i] => text'[i] = text[i]
  PROVE  ReviewInv'
<1> SUFFICES ASSUME NEW id \in WriteIds, Kind[id] = "patch", Reviewed(id)
             PROVE  /\ reviews[id].file \in Inodes /\ reviews[id].stamp \in Nat
                    /\ reviews[id].stamp <= stamp'[reviews[id].file]
                    /\ stamp'[reviews[id].file] = reviews[id].stamp
                           => text'[reviews[id].file] = reviews[id].digest
  BY DEF ReviewInv, Reviewed
<1>1. /\ reviews[id].file \in Inodes /\ reviews[id].stamp \in Nat
      /\ reviews[id].stamp <= stamp[reviews[id].file]
      /\ stamp[reviews[id].file] = reviews[id].stamp => text[reviews[id].file] = reviews[id].digest
  BY DEF ReviewInv
<1>2. stamp[reviews[id].file] \in Nat
  BY <1>1 DEF TypesInv, SecureFilesTypeOK
<1> QED
  BY <1>1, <1>2

\* A signature stays, and so does a burnt grant.
LedgerGrows == burnt \subseteq burnt' /\ \A g \in Grants : Signed(g) => issued'[g] = issued[g]

LEMMA SignedStays ==
  ASSUME LedgerGrows, NEW token, NEW id, NEW chart, SignedFor(token, id, chart)
  PROVE  SignedFor(token, id, chart)'
  BY DEF LedgerGrows, SignedFor, Signed

LEMMA WrittenStays ==
  ASSUME WroteInv, PatchesOfReviewed, WritesAreSigned, UNCHANGED wrote, LedgerGrows
  PROVE  WroteInv' /\ PatchesOfReviewed' /\ WritesAreSigned'
<1>1. WroteInv'
  BY SignedStays DEF WroteInv
<1>2. \A w \in wrote : w.token \in burnt' /\ issued'[w.token].plan = [id |-> w.id, chart |-> w.chart]
  BY <1>1 DEF WroteInv, SignedFor
<1> QED
  BY <1>1, <1>2 DEF PatchesOfReviewed, WritesAreSigned

\* Steps of a call that change no file.
LEMMA CallMoves ==
  ASSUME WriteInv,
         \/ Authorize \/ Consume \/ ReadSource \/ CheckAgain
         \/ \E id \in WriteIds, chart \in Charts, token \in Grants : Apply(id, chart, token)
  PROVE  WriteInv'
<1> USE DEF WriteInv
<1>1. UNCHANGED <<names, stamp, dirs, edits, renamed, reviews, text, wrote, now, issued>>
      /\ burnt \subseteq burnt' /\ burnt' \subseteq Grants
  <2> USE DEF TypesInv, ApprovalsTypeOK
  <2>1. call # NoCall => call.token \in Grants
    BY DEF TypesInv, CallRecord
  <2>2. CASE Consume
    <3>1. call # NoCall /\ (burnt' = burnt \/ burnt' = burnt \cup {call.token})
      BY <2>2 DEF Consume, Burn, At
    <3> QED
      BY <2>1, <2>2, <3>1 DEF Consume, Keep, fileVars
  <2>3. CASE Authorize \/ ReadSource \/ CheckAgain
    BY <2>3 DEF Authorize, ReadSource, CheckAgain, Keep, fileVars
  <2>4. CASE \E id \in WriteIds, chart \in Charts, token \in Grants : Apply(id, chart, token)
    BY <2>4 DEF Apply, fileVars, ledgerVars
  <2> QED
    BY <2>2, <2>3, <2>4
<1>2. ReviewInv'
  BY <1>1, ReviewsStay DEF TypesInv, SecureFilesTypeOK
<1>3. LedgerGrows
  BY <1>1 DEF LedgerGrows
<1>4. WroteInv' /\ PatchesOfReviewed' /\ WritesAreSigned'
  BY <1>1, <1>3, WrittenStays
<1>5. ApprovalsTypeOK' /\ SecureFilesTypeOK' /\ text' = [i \in Inodes |-> text'[i]]
      /\ reviews' = [id \in WriteIds |-> reviews'[id]]
  BY <1>1 DEF TypesInv, ApprovalsTypeOK, SecureFilesTypeOK
<1>6. (call' # NoCall => call' \in CallRecord) /\ CallInv'
  <2>1. CASE call' = NoCall
    BY <2>1 DEF CallInv
  <2>2. ASSUME NEW id \in WriteIds, NEW chart \in Charts, NEW token \in Grants, Apply(id, chart, token)
        PROVE  call' \in CallRecord /\ CallInv'
    BY <2>2 DEF Apply, CallRecord, Pcs, CallInv, Writing
  <2> SUFFICES ASSUME call # NoCall, call' # NoCall, Authorize \/ Consume \/ ReadSource \/ CheckAgain
               PROVE  call' \in CallRecord /\ CallInv'
    BY <2>1, <2>2 DEF Authorize, Consume, ReadSource, CheckAgain, At
  <2>3. call \in CallRecord
    BY DEF TypesInv
  <2>4. CASE Authorize
    <3>1. call.pc = "authorize" /\ call' = [call EXCEPT !.pc = "consume"] /\ Reviewed(call.id)
      BY <2>4 DEF Authorize, At, Goto, Answer, AsReviewed, Reviewed
    <3> QED
      BY <1>1, <2>3, <3>1 DEF CallRecord, Pcs, CallInv, Writing, Reviewed
  <2>5. CASE Consume
    <3>1. /\ call.pc = "consume" /\ call' = [call EXCEPT !.pc = FirstStep(call.id)]
          /\ Covers(call.token, call.id, call.chart) /\ call.token \notin burnt
          /\ burnt' = burnt \cup {call.token}
      BY <2>5 DEF Consume, At, Goto, Answer, Burn, Unspent
    <3>2. Reviewed(call.id)
      BY <3>1 DEF CallInv
    <3>3. SignedFor(call.token, call.id, call.chart)'
      BY <1>1, <2>3, <3>1 DEF SignedFor, Covers, Admits, Signed, CallRecord
    <3>4. \A w \in wrote : w.token # call.token
      BY <3>1 DEF WroteInv, SignedFor
    <3>5. FirstStep(call.id) \in {"read", "create"} /\ (FirstStep(call.id) = "read" <=> Kind[call.id] = "patch")
      BY DEF FirstStep
    <3> QED
      BY <1>1, <2>3, <3>1, <3>2, <3>3, <3>4, <3>5 DEF CallRecord, Pcs, CallInv, Writing, Reviewed
  <2>6. CASE ReadSource
    <3> DEFINE t == text[names[Source[call.id]]]
    <3>1. /\ call.pc = "read" /\ Exists(Source[call.id]) /\ t \in Found
          /\ call' = [call EXCEPT !.pc = "check", !.read = Patched[t]] /\ burnt' = burnt
      BY <2>6 DEF ReadSource, At, Answer
    <3>2. Patched[t] \in Texts
      BY <3>1
    <3>3. Kind[call.id] = "patch" /\ Reviewed(call.id)
      BY <3>1 DEF CallInv
    <3>4. StillThere(call.id) => t = reviews[call.id].digest
      BY <2>3, <3>3 DEF StillThere, ReviewInv, CallRecord
    <3> HIDE DEF t
    <3>5. call' \in CallRecord /\ call'.pc = "check" /\ call'.read = Patched[t]
          /\ call'.id = call.id /\ call'.token = call.token /\ call'.chart = call.chart
      BY <2>3, <3>1, <3>2 DEF CallRecord, Pcs
    <3>6. SignedFor(call.token, call.id, call.chart)' /\ \A w \in wrote : w.token # call.token
      BY <1>1, <3>1 DEF CallInv, SignedFor, Signed, Writing
    <3>7. StillThere(call.id)' => StillThere(call.id)
      BY <1>1, <3>5 DEF StillThere, Exists
    <3> QED
      BY <1>1, <3>3, <3>4, <3>5, <3>6, <3>7 DEF CallInv, Writing, Reviewed
  <2>7. CASE CheckAgain
    <3>1. call.pc = "check" /\ StillThere(call.id) /\ call' = [call EXCEPT !.pc = "replace"] /\ burnt' = burnt
      BY <2>7 DEF CheckAgain, At, Goto, Answer
    <3>2. call' \in CallRecord /\ call'.pc = "replace" /\ call'.read = call.read
          /\ call'.id = call.id /\ call'.token = call.token /\ call'.chart = call.chart
      BY <2>3, <3>1 DEF CallRecord, Pcs
    <3>3. SignedFor(call.token, call.id, call.chart)' /\ \A w \in wrote : w.token # call.token
      BY <1>1, <3>1 DEF CallInv, SignedFor, Signed, Writing
    <3>4. StillThere(call.id)'
      BY <1>1, <3>1, <3>2 DEF StillThere, Exists
    <3>5. Kind[call.id] = "patch" /\ Reviewed(call.id) /\ call.read = Patched[reviews[call.id].digest]
      BY <3>1 DEF CallInv
    <3> QED
      BY <1>1, <3>2, <3>3, <3>4, <3>5 DEF CallInv, Writing, Reviewed
  <2> QED
    BY <2>4, <2>5, <2>6, <2>7
<1> QED
  BY <1>2, <1>4, <1>5, <1>6 DEF TypesInv

\* Proposals and signatures, the end of the process, and no step at all.
LEMMA GateMoves ==
  ASSUME WriteInv,
         OperatorSigns \/ Crash \/ (\E id \in WriteIds : Propose(id)) \/ UNCHANGED vars
  PROVE  WriteInv'
<1> USE DEF WriteInv
<1>1. UNCHANGED <<names, stamp, dirs, edits, renamed, text, wrote, now, burnt>>
  BY DEF OperatorSigns, Crash, Propose, Sign, vars, fileVars, ledgerVars
<1>2. LedgerGrows /\ ApprovalsTypeOK'
  <2>1. CASE UNCHANGED issued
    BY <1>1, <2>1 DEF LedgerGrows, ApprovalsTypeOK, TypesInv
  <2>2. ASSUME NEW g \in Grants, NEW p \in Plans, Sign(g, p) PROVE LedgerGrows /\ ApprovalsTypeOK'
    <3>1. PICK at \in now .. (now + Skew + 1), ttl \in 1 .. MaxTtl :
              issued' = [issued EXCEPT ![g] = [plan |-> p, at |-> at, expires |-> at + ttl]]
      BY <2>2 DEF Sign
    <3>2. [plan |-> p, at |-> at, expires |-> at + ttl] \in Capability
      BY DEF Capability, TypesInv, ApprovalsTypeOK
    <3>3. issued' \in [Grants -> Capability \cup {NoGrant}]
      BY <3>1, <3>2 DEF TypesInv, ApprovalsTypeOK
    <3>4. \A h \in Grants : Signed(h) => issued'[h] = issued[h]
      BY <2>2, <3>1 DEF Sign, Signed, TypesInv, ApprovalsTypeOK
    <3> QED
      BY <1>1, <3>3, <3>4 DEF LedgerGrows, TypesInv, ApprovalsTypeOK
  <2> QED
    BY <2>1, <2>2 DEF OperatorSigns, Crash, Propose, vars, ledgerVars
<1>3. WroteInv' /\ PatchesOfReviewed' /\ WritesAreSigned'
  BY <1>1, <1>2, WrittenStays
<1>4. SecureFilesTypeOK' /\ text' = [i \in Inodes |-> text'[i]]
  BY <1>1 DEF TypesInv, SecureFilesTypeOK
<1>5. CASE OperatorSigns \/ UNCHANGED vars
  <2>1. UNCHANGED <<reviews, call>>
    BY <1>5 DEF OperatorSigns, callVars, vars
  <2>2. ReviewInv'
    BY <1>1, <2>1, ReviewsStay DEF TypesInv, SecureFilesTypeOK
  <2>3. call # NoCall /\ call.pc \in Writing => SignedFor(call.token, call.id, call.chart)'
    BY <1>2, <2>1, SignedStays DEF CallInv
  <2>4. \A id \in WriteIds : StillThere(id)' = StillThere(id)
    BY <1>1, <2>1 DEF StillThere, Exists
  <2>5. CallInv'
    BY <1>1, <2>1, <2>3, <2>4 DEF CallInv, TypesInv, CallRecord, Reviewed
  <2> QED
    BY <1>2, <1>3, <1>4, <2>1, <2>2, <2>5 DEF TypesInv
<1>6. CASE Crash
  <2>1. call' = NoCall /\ reviews' = [id \in WriteIds |-> IF reviews[id] = NoReview THEN NoReview ELSE Lost]
    BY <1>6 DEF Crash
  <2> QED
    BY <1>2, <1>3, <1>4, <2>1 DEF TypesInv, CallInv, ReviewInv, Reviewed
<1>7. ASSUME NEW id \in WriteIds, Propose(id) PROVE WriteInv'
  <2>1. PICK ok \in BOOLEAN : reviews' = [reviews EXCEPT ![id] = FileState(id, ok)]
    BY <1>7 DEF Propose
  <2>2. call = NoCall /\ call' = NoCall /\ Describable(id)
    BY <1>7 DEF Propose
  <2>3. reviews' = [i \in WriteIds |-> reviews'[i]]
    BY <2>1 DEF TypesInv
  <2>4. ReviewInv'
    <3> SUFFICES ASSUME NEW i \in WriteIds, Kind[i] = "patch", Reviewed(i)'
                 PROVE  /\ reviews'[i].file \in Inodes /\ reviews'[i].stamp \in Nat
                        /\ reviews'[i].stamp <= stamp[reviews'[i].file]
                        /\ stamp[reviews'[i].file] = reviews'[i].stamp
                               => text[reviews'[i].file] = reviews'[i].digest
      BY <1>1 DEF ReviewInv
    <3>1. CASE i # id
      BY <2>1, <3>1 DEF ReviewInv, TypesInv, Reviewed
    <3>2. CASE i = id
      <4>1. Source[i] \in Names /\ names[Source[i]] \in Inodes
        BY <2>2, <3>2 DEF Describable, Exists
      <4>2. reviews'[i] = FileState(i, ok)
        BY <2>1, <3>2 DEF TypesInv
      <4>3. /\ reviews'[i].file = names[Source[i]] /\ reviews'[i].stamp = stamp[names[Source[i]]]
            /\ reviews'[i].digest = text[names[Source[i]]]
        BY <4>2 DEF FileState
      <4>4. stamp[names[Source[i]]] \in Nat
        BY <4>1 DEF TypesInv, SecureFilesTypeOK
      <4> QED
        BY <4>1, <4>3, <4>4
    <3> QED
      BY <3>1, <3>2
  <2> QED
    BY <1>2, <1>3, <1>4, <2>2, <2>3, <2>4 DEF TypesInv, CallInv
<1> QED
  BY <1>5, <1>6, <1>7

\* Other programs, at any moment of a call.
LEMMA EditMoves == ASSUME WriteInv, OtherEdit PROVE WriteInv'
<1> USE DEF WriteInv
<1>1. OtherPrograms /\ UNCHANGED <<now, issued, burnt, reviews, wrote>>
  BY DEF OtherEdit, ledgerVars
<1>2. /\ SecureFilesTypeOK' /\ \A i \in Inodes : stamp[i] <= stamp'[i]
      /\ \A n \in Names : names'[n] \in Inodes /\ names'[n] # names[n]
             => stamp[names'[n]] < stamp'[names'[n]]
  BY <1>1, EditsGrow DEF TypesInv
<1>3. PICK t \in Texts : text' = [i \in Inodes |-> IF NewContent(i) THEN t ELSE text[i]]
  BY DEF OtherEdit
<1>4. \A i \in Inodes : stamp'[i] = stamp[i] => text'[i] = text[i]
  BY <1>3 DEF NewContent
<1>5. text' = [i \in Inodes |-> text'[i]]
  BY <1>3
<1>6. ReviewInv'
  BY <1>1, <1>2, <1>4, ReviewsStay DEF SecureFilesTypeOK
<1>7. WroteInv' /\ PatchesOfReviewed' /\ WritesAreSigned'
  BY <1>1, WrittenStays DEF LedgerGrows
<1>8. ApprovalsTypeOK'
  BY <1>1 DEF TypesInv, ApprovalsTypeOK
<1>9. (call' # NoCall => call' \in CallRecord) /\ CallInv'
  <2>1. CASE call = NoCall
    BY <2>1 DEF OtherEdit, At, CallInv
  <2> SUFFICES ASSUME call # NoCall PROVE call' \in CallRecord /\ CallInv'
    BY <2>1
  <2>2. call \in CallRecord
    BY DEF TypesInv
  <2>3. /\ call' \in CallRecord /\ call'.id = call.id /\ call'.chart = call.chart
        /\ call'.token = call.token /\ call'.pc = call.pc /\ call'.read = call.read
        /\ call.pc = "replace" => call'.late
    BY <2>2 DEF OtherEdit, At, CallRecord
  <2>4. call.pc = "check" => (StillThere(call.id)' => StillThere(call.id))
    <3> SUFFICES ASSUME call.pc = "check", StillThere(call.id)' PROVE StillThere(call.id)
      OBVIOUS
    <3> DEFINE n == Source[call.id]
               r == reviews[call.id]
    <3>1. n \in Names
      BY <2>2 DEF CallRecord
    <3>2. names'[n] = r.file /\ stamp'[names'[n]] = r.stamp /\ names'[n] \in Inodes
      BY <1>1, <2>3 DEF StillThere, Exists
    <3>3. r.stamp <= stamp[r.file]
      BY <2>2 DEF CallInv, ReviewInv, Writing, CallRecord
    <3>4. names'[n] = names[n] /\ stamp[r.file] = r.stamp
      <4>1. stamp[r.file] \in Nat /\ stamp'[r.file] \in Nat /\ stamp[r.file] <= stamp'[r.file]
        BY <1>2, <3>2 DEF TypesInv, SecureFilesTypeOK
      <4> HIDE DEF n, r
      <4> QED
        BY <1>2, <3>1, <3>2, <3>3, <4>1
    <3> QED
      BY <3>2, <3>4 DEF StillThere, Exists
  <2>5. call.pc \in Writing => SignedFor(call.token, call.id, call.chart)'
    BY <1>1, <2>3 DEF CallInv, SignedFor, Signed
  <2> QED
    BY <1>1, <2>2, <2>3, <2>4, <2>5 DEF CallInv, Reviewed, CallRecord
<1> QED
  BY <1>1, <1>2, <1>5, <1>6, <1>7, <1>8, <1>9 DEF TypesInv

----------------------------------------------------------------------------
(* The steps that write.                                                     *)

\* A file that was not there is made: types and reviews stay.
LEMMA MakesFile ==
  ASSUME TypesInv, ReviewInv, Free # {}, UNCHANGED reviews, NEW content,
         \A i \in Inodes : i # Fresh => stamp[i] <= stamp'[i] /\ stamp'[i] \in Nat,
         stamp'[Fresh] = 1, text' = [text EXCEPT ![Fresh] = content],
         \A i \in Inodes : text'[i] = text[i] \/ stamp'[i] # stamp[i]
  PROVE  ReviewInv' /\ Fresh \in Inodes /\ text'[Fresh] = content
         /\ text' = [i \in Inodes |-> text'[i]]
<1>1. Fresh \in Free
  BY DEF Fresh
<1>2. Fresh \in Inodes /\ stamp[Fresh] = 0
  BY <1>1 DEF Free
<1>3. text'[Fresh] = content /\ text' = [i \in Inodes |-> text'[i]]
  BY <1>2 DEF TypesInv
<1>4. ReviewInv'
  BY <1>2, ReviewsStay
<1> QED
  BY <1>2, <1>3, <1>4

\* A new entry of what was written, by a call that goes on or ends.
LEMMA WrittenGrows ==
  ASSUME WriteInv, call # NoCall, call.pc \in Writing,
         NEW w, wrote' = wrote \cup {w}, UNCHANGED <<issued, burnt>>,
         w.id = call.id, w.chart = call.chart, w.token = call.token,
         Kind[w.id] = "patch" => /\ w.text = Patched[w.reviewed.digest]
                                 /\ w.late \/ w.over = [file |-> w.reviewed.file, stamp |-> w.reviewed.stamp],
         w.text \in {Bytes(w.id, w.chart), Picture, Partial} \/ Kind[w.id] = "patch",
         Kind[w.id] # "patch" => w.over.file = NoInode,
         \A v \in wrote : ~(v.token = w.token /\ v.name = w.name)
  PROVE  WroteInv' /\ PatchesOfReviewed' /\ WritesAreSigned'
<1> USE DEF WriteInv
<1>1. SignedFor(w.token, w.id, w.chart)
  BY DEF CallInv
<1>2. WroteInv'
  BY <1>1 DEF WroteInv, SignedFor, Signed
<1>3. PatchesOfReviewed'
  BY DEF PatchesOfReviewed
<1>4. WritesAreSigned'
  <2>1. \A u \in wrote' :
          /\ u.token \in burnt' /\ issued'[u.token].plan = [id |-> u.id, chart |-> u.chart]
          /\ u.text \in {Bytes(u.id, u.chart), Picture, Partial} \/ Kind[u.id] = "patch"
          /\ Kind[u.id] # "patch" => u.over.file = NoInode
    BY <1>1 DEF WritesAreSigned, SignedFor
  <2>2. ASSUME NEW u \in wrote', NEW v \in wrote', v.token = u.token, v.name = u.name PROVE v = u
    <3>1. CASE u = w
      BY <2>2, <3>1
    <3>2. CASE v = w
      BY <2>2, <3>2
    <3>3. CASE u \in wrote /\ v \in wrote
      <4>1. \A x \in wrote : \A y \in wrote : y.token = x.token /\ y.name = x.name => y = x
        BY Zenon DEF WritesAreSigned
      <4> QED
        BY <2>2, <3>3, <4>1
    <3> QED
      BY <3>1, <3>2, <3>3
  <2> QED
    BY <2>1, <2>2 DEF WritesAreSigned
<1> QED
  BY <1>2, <1>3, <1>4

\* replace_file: the patched text takes the name.
LEMMA ReplaceMoves == ASSUME WriteInv, Replace PROVE WriteInv'
<1> USE DEF WriteInv
<1> DEFINE n == Source[call.id]
           w == [id |-> call.id, chart |-> call.chart, token |-> call.token, late |-> call.late,
                 name |-> n, over |-> [file |-> names[n], stamp |-> IF Exists(n) THEN stamp[names[n]] ELSE 0],
                 text |-> text'[names'[n]], reviewed |-> reviews[call.id]]
<1>1. /\ call # NoCall /\ call.pc = "replace" /\ Free # {} /\ call' = NoCall
      /\ names' = [names EXCEPT ![n] = Fresh]
      /\ stamp' = [j \in Inodes |-> IF j \in {Fresh, names[n]} THEN stamp[j] + 1 ELSE stamp[j]]
      /\ text' = [text EXCEPT ![Fresh] = call.read]
      /\ wrote' = wrote \cup {w}
      /\ UNCHANGED <<now, issued, burnt, dirs, edits, renamed, reviews>>
  BY DEF Replace, At, Keep, Answer, Wrote
<1>2. call \in CallRecord /\ n \in Names
  BY <1>1 DEF TypesInv, CallRecord
<1>3. Fresh \in Inodes /\ stamp[Fresh] = 0
  BY <1>1 DEF Fresh, Free
<1>4. ReviewInv' /\ text'[Fresh] = call.read /\ text' = [i \in Inodes |-> text'[i]]
  <2>1. \A i \in Inodes : stamp[i] \in Nat
    BY DEF TypesInv, SecureFilesTypeOK
  <2>2. stamp'[Fresh] = 1 /\ \A i \in Inodes : stamp[i] <= stamp'[i] /\ stamp'[i] \in Nat
    BY <1>1, <1>3, <2>1
  <2>3. \A i \in Inodes : text'[i] = text[i] \/ stamp'[i] # stamp[i]
    BY <1>1, <1>3, <2>2 DEF TypesInv
  <2> HIDE DEF n, w
  <2> QED
    BY <1>1, <2>2, <2>3, MakesFile
<1>5. SecureFilesTypeOK' /\ ApprovalsTypeOK'
  BY <1>1, <1>2, <1>3 DEF TypesInv, SecureFilesTypeOK, ApprovalsTypeOK
<1>6. text'[names'[n]] = call.read
  BY <1>1, <1>2, <1>4 DEF TypesInv, SecureFilesTypeOK
<1>7. /\ Kind[call.id] = "patch" /\ call.read = Patched[reviews[call.id].digest]
      /\ call.late \/ StillThere(call.id)
      /\ \A v \in wrote : v.token # call.token
  BY <1>1 DEF CallInv, Writing
<1>8. /\ w.id = call.id /\ w.chart = call.chart /\ w.token = call.token
      /\ w.text = Patched[w.reviewed.digest]
      /\ w.late \/ w.over = [file |-> w.reviewed.file, stamp |-> w.reviewed.stamp]
  BY <1>6, <1>7 DEF StillThere
<1>9. WroteInv' /\ PatchesOfReviewed' /\ WritesAreSigned'
  <2>1. /\ Kind[w.id] = "patch" /\ call.pc \in Writing
        /\ \A v \in wrote : ~(v.token = w.token /\ v.name = w.name)
    BY <1>1, <1>7, <1>8 DEF Writing
  <2> HIDE DEF w
  <2> QED
    BY <1>1, <1>8, <2>1, WrittenGrows
<1> QED
  BY <1>1, <1>4, <1>5, <1>9 DEF TypesInv, CallInv

\* create_file: an entry for a name that was free, or nothing.
LEMMA Creation ==
  ASSUME WriteInv, call # NoCall, call.pc \in {"create", "render"}, NEW n \in Names, NEW content,
         content \in {Bytes(call.id, call.chart), Picture},
         \A v \in wrote : ~(v.token = call.token /\ v.name = n),
         dirs' = dirs \cup {DirOf[n]}, Keep, UNCHANGED <<edits, renamed, burnt, reviews>>,
         \/ UNCHANGED <<names, stamp, text, wrote>>
         \/ /\ ~Exists(n) /\ Free # {} /\ Wrote(n, [file |-> names[n], stamp |-> 0])
            /\ names' = [names EXCEPT ![n] = Fresh] /\ stamp' = [stamp EXCEPT ![Fresh] = 1]
            /\ \E bytes \in {content, Partial} : text' = [text EXCEPT ![Fresh] = bytes]
  PROVE  /\ ApprovalsTypeOK' /\ SecureFilesTypeOK' /\ text' = [i \in Inodes |-> text'[i]]
         /\ ReviewInv' /\ WroteInv' /\ PatchesOfReviewed' /\ WritesAreSigned'
         /\ \A v \in wrote' : v \in wrote \/ (v.token = call.token /\ v.name = n)
<1> USE DEF WriteInv
<1> DEFINE w == [id |-> call.id, chart |-> call.chart, token |-> call.token, late |-> call.late,
                 name |-> n, over |-> [file |-> names[n], stamp |-> 0],
                 text |-> text'[names'[n]], reviewed |-> reviews[call.id]]
<1>1. dirs' \in SUBSET Dirs /\ UNCHANGED <<now, issued>>
  BY DEF Keep, TypesInv, SecureFilesTypeOK
<1>2. call \in CallRecord /\ call.pc \in Writing /\ Kind[call.id] # "patch"
  BY DEF TypesInv, CallRecord, CallInv, Writing
<1>3. ApprovalsTypeOK'
  BY <1>1 DEF TypesInv, ApprovalsTypeOK
<1>4. CASE UNCHANGED <<names, stamp, text, wrote>>
  <2>1. ReviewInv'
    BY <1>1, <1>4, ReviewsStay DEF TypesInv, SecureFilesTypeOK
  <2>2. WroteInv' /\ PatchesOfReviewed' /\ WritesAreSigned'
    BY <1>1, <1>4, WrittenStays DEF LedgerGrows
  <2>3. SecureFilesTypeOK' /\ text' = [i \in Inodes |-> text'[i]]
    BY <1>1, <1>4 DEF TypesInv, SecureFilesTypeOK
  <2> QED
    BY <1>1, <1>3, <1>4, <2>1, <2>2, <2>3
<1>5. ASSUME Free # {}, ~Exists(n), names' = [names EXCEPT ![n] = Fresh], stamp' = [stamp EXCEPT ![Fresh] = 1],
             NEW bytes \in {content, Partial}, text' = [text EXCEPT ![Fresh] = bytes], wrote' = wrote \cup {w}
      PROVE  /\ SecureFilesTypeOK' /\ text' = [i \in Inodes |-> text'[i]]
             /\ ReviewInv' /\ WroteInv' /\ PatchesOfReviewed' /\ WritesAreSigned'
             /\ \A v \in wrote' : v \in wrote \/ (v.token = call.token /\ v.name = n)
  <2>1. Fresh \in Inodes /\ stamp[Fresh] = 0
    BY <1>5 DEF Fresh, Free
  <2>2. ReviewInv' /\ text'[Fresh] = bytes /\ text' = [i \in Inodes |-> text'[i]]
    <3>1. stamp'[Fresh] = 1 /\ \A i \in Inodes : i # Fresh => stamp[i] <= stamp'[i] /\ stamp'[i] \in Nat
      BY <1>5, <2>1 DEF TypesInv, SecureFilesTypeOK
    <3>2. \A i \in Inodes : text'[i] = text[i] \/ stamp'[i] # stamp[i]
      BY <1>5, <2>1, <3>1 DEF TypesInv
    <3> HIDE DEF w
    <3> QED
      BY <1>5, <3>1, <3>2, MakesFile
  <2>3. SecureFilesTypeOK' /\ names'[n] = Fresh
    BY <1>1, <1>5, <2>1 DEF TypesInv, SecureFilesTypeOK
  <2>4. names[n] = NoInode
    BY <1>5 DEF Exists, TypesInv, SecureFilesTypeOK
  <2>5. /\ w.id = call.id /\ w.chart = call.chart /\ w.token = call.token /\ w.name = n
        /\ w.over.file = NoInode /\ w.text \in {Bytes(w.id, w.chart), Picture, Partial}
    BY <1>5, <2>2, <2>3, <2>4
  <2> HIDE DEF w
  <2>6. /\ Kind[w.id] # "patch"
        /\ \A v \in wrote : ~(v.token = w.token /\ v.name = w.name)
    BY <1>2, <2>5
  <2>7. WroteInv' /\ PatchesOfReviewed' /\ WritesAreSigned'
    BY <1>1, <1>2, <1>5, <2>5, <2>6, WrittenGrows
  <2> QED
    BY <1>5, <2>2, <2>3, <2>5, <2>7
<1> QED
  BY <1>3, <1>4, <1>5 DEF Wrote

LEMMA CreateMoves == ASSUME WriteInv, CreateTarget PROVE WriteInv'
<1> USE DEF WriteInv
<1> DEFINE n == Target[call.id]
<1>1. call # NoCall /\ call.pc = "create" /\ UNCHANGED <<burnt, reviews>> /\ Keep
  BY DEF CreateTarget, At
<1>2. call \in CallRecord /\ n \in Names
  BY <1>1 DEF TypesInv, CallRecord
<1>3. \A v \in wrote : v.token # call.token
  BY <1>1 DEF CallInv, Writing
<1>4. /\ dirs' = dirs \cup {DirOf[n]} /\ UNCHANGED <<edits, renamed>>
      /\ \/ UNCHANGED <<names, stamp, text, wrote>>
         \/ /\ ~Exists(n) /\ Free # {} /\ Wrote(n, [file |-> names[n], stamp |-> 0])
            /\ names' = [names EXCEPT ![n] = Fresh] /\ stamp' = [stamp EXCEPT ![Fresh] = 1]
            /\ \E bytes \in {Bytes(call.id, call.chart), Partial} : text' = [text EXCEPT ![Fresh] = bytes]
  BY DEF CreateTarget, CreateFile, MayCreate
<1>5. call' = NoCall \/ (Kind[call.id] = "visualization" /\ call' = [call EXCEPT !.pc = "render"])
  BY DEF CreateTarget, CreateFile, Answer, Goto
<1> HIDE DEF n
<1>6. /\ ApprovalsTypeOK' /\ SecureFilesTypeOK' /\ text' = [i \in Inodes |-> text'[i]]
      /\ ReviewInv' /\ WroteInv' /\ PatchesOfReviewed' /\ WritesAreSigned'
      /\ \A v \in wrote' : v \in wrote \/ (v.token = call.token /\ v.name = n)
  BY <1>1, <1>2, <1>3, <1>4, Creation
<1>7. CASE call' = NoCall
  BY <1>1, <1>6, <1>7 DEF TypesInv, CallInv
<1>8. CASE Kind[call.id] = "visualization" /\ call' = [call EXCEPT !.pc = "render"]
  <2>1. call' \in CallRecord /\ call'.pc = "render" /\ call'.id = call.id /\ call'.token = call.token
        /\ call'.chart = call.chart
    BY <1>2, <1>8 DEF CallRecord, Pcs
  <2>2. SignedFor(call.token, call.id, call.chart)' /\ Reviewed(call.id)
    BY <1>1, <2>1 DEF CallInv, SignedFor, Signed, Writing, Keep
  <2>3. \A v \in wrote' : v.token = call.token => v.name = n
    BY <1>3, <1>6
  <2> QED
    BY <1>1, <1>6, <1>8, <2>1, <2>2, <2>3 DEF TypesInv, CallInv, Writing, Reviewed, n
<1> QED
  BY <1>5, <1>7, <1>8

LEMMA RenderMoves == ASSUME WriteInv, Render PROVE WriteInv'
<1> USE DEF WriteInv
<1> DEFINE n == ChartOf[call.id]
<1>1. call # NoCall /\ call.pc = "render" /\ UNCHANGED <<burnt, reviews>> /\ Keep /\ call' = NoCall
  BY DEF Render, CreateFile, At, Answer
<1>2. n \in Names /\ \A v \in wrote : ~(v.token = call.token /\ v.name = n)
  <2>1. call \in CallRecord
    BY <1>1 DEF TypesInv
  <2>2. Kind[call.id] = "visualization" /\ call.id \in WriteIds
    BY <1>1, <2>1 DEF CallInv, CallRecord
  <2>3. n # Target[call.id] /\ n \in Names
    BY <2>2
  <2> QED
    BY <1>1, <2>3 DEF CallInv
<1>3. CASE UNCHANGED <<names, stamp, dirs, edits, renamed, text, wrote>>
  <2>1. ReviewInv'
    BY <1>1, <1>3, ReviewsStay DEF TypesInv, SecureFilesTypeOK
  <2>2. WroteInv' /\ PatchesOfReviewed' /\ WritesAreSigned'
    BY <1>1, <1>3, WrittenStays DEF LedgerGrows, Keep
  <2> QED
    BY <1>1, <1>3, <2>1, <2>2 DEF TypesInv, CallInv, Keep, ApprovalsTypeOK, SecureFilesTypeOK
<1>4. CASE CreateFile(ChartOf[call.id], Picture, Answer)
  <2>1. /\ dirs' = dirs \cup {DirOf[n]} /\ UNCHANGED <<edits, renamed>>
        /\ \/ UNCHANGED <<names, stamp, text, wrote>>
           \/ /\ ~Exists(n) /\ Free # {} /\ Wrote(n, [file |-> names[n], stamp |-> 0])
              /\ names' = [names EXCEPT ![n] = Fresh] /\ stamp' = [stamp EXCEPT ![Fresh] = 1]
              /\ \E bytes \in {Picture, Partial} : text' = [text EXCEPT ![Fresh] = bytes]
    BY <1>4 DEF CreateFile, MayCreate
  <2> HIDE DEF n
  <2>2. /\ ApprovalsTypeOK' /\ SecureFilesTypeOK' /\ text' = [i \in Inodes |-> text'[i]]
        /\ ReviewInv' /\ WroteInv' /\ PatchesOfReviewed' /\ WritesAreSigned'
    BY <1>1, <1>2, <2>1, Creation
  <2> QED
    BY <1>1, <2>2 DEF TypesInv, CallInv
<1> QED
  BY <1>3, <1>4 DEF Render, fileVars

----------------------------------------------------------------------------
LEMMA WriteStep == ASSUME WriteInv, [Next]_vars PROVE WriteInv'
  BY CallMoves, GateMoves, EditMoves, ReplaceMoves, CreateMoves, RenderMoves DEF Next, Calls

LEMMA WriteInvariant == Spec => []WriteInv
<1>1. Init => WriteInv
  BY WriteInit
<1>2. WriteInv /\ [Next]_vars => WriteInv'
  BY WriteStep
<1> QED
  BY <1>1, <1>2, PTL DEF Spec

\* A patch puts down the reviewed text with its one replacement in place of
\* the reviewed version, whatever other programs do at whatever moment, save
\* for an edit after the last look at the file (replace_file).
THEOREM PatchesFitReviews == Spec => []PatchesOfReviewed
<1>1. WriteInv => PatchesOfReviewed
  BY DEF WriteInv
<1> QED
  BY <1>1, WriteInvariant, PTL

\* Whatever is written was signed for, under a grant that served one call,
\* and nothing created replaces a file (apply_plan, create_file).
THEOREM NothingUnsignedIsWritten == Spec => []WritesAreSigned
<1>1. WriteInv => WritesAreSigned
  BY DEF WriteInv
<1> QED
  BY <1>1, WriteInvariant, PTL
=============================================================================

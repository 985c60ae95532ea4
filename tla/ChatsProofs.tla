----------------------------- MODULE ChatsProofs -----------------------------
(***************************************************************************)
(* The chats of the Node server: rows, edits and audits are sound under any *)
(* interleaving of requests and generations, proved for any number of       *)
(* chats, messages, generations and texts.                                  *)
(***************************************************************************)
EXTENDS Chats, SequenceTheorems, FiniteSetTheorems, TLAPS

GenRecords ==
    [pc : Pcs, chat : Nat \cup {None}, branch : Nat, target : Nat, captured : Nat,
     aborted : BOOLEAN]
AuditRecords == [gen : Gens, status : Statuses]
EditRecords == [message : Nat, revision : Nat, content : Nat]

RowsTyped ==
    /\ messages \in Seq(MessageRows \cup {None})
    /\ chats \in Seq(ChatRecords \cup {None})
    /\ lastText \in Nat /\ Greetings <= lastText
    /\ ever \in Seq(SUBSET Nat) /\ Len(ever) = Len(messages)
    /\ dropped \in Seq(SUBSET Nat) /\ Len(dropped) = Len(messages)
    /\ unseeded \subseteq DOMAIN messages

\* The texts that a row can show; and its variants: all positions but the active one.
Texts(row) == {row.content} \cup Range(row.revisions)
                \cup {row.variants[p] : p \in DOMAIN row.variants}
Hole(row) ==
    /\ row.active \in 0 .. row.variantCount - 1
    /\ DOMAIN row.variants = (0 .. row.variantCount - 1) \ {row.active}

\* A message has a chat and a branch there, no text is newer than the last one
\* written, and what it has shown it still has, or dropped.
MessageSound(m) ==
    LET row == messages[m] IN
    row # None =>
      /\ row.chat \in DOMAIN chats /\ chats[row.chat] # None
      /\ row.branch \in 1 .. chats[row.chat].branches
      /\ Texts(row) \subseteq 1 .. lastText
      /\ m \notin unseeded => Hole(row)
      /\ ever[m] \ dropped[m] \subseteq Texts(row)

\* A chat counts the messages of its active branch, which only a PATCH can move.
ChatSound(c) ==
    LET chat == chats[c] IN
    chat # None =>
      /\ chat.active \in (1 .. chat.branches) \cup {None}
      /\ c \notin switched => /\ chat.active # None
                              /\ chat.count = Count(messages, c, chat.active)

\* A generation writes to the branch that was active when it started.
Runs(g) == gens[g].pc \notin {"idle", "told", "ended"}
GenSound(g) ==
    LET gen == gens[g] IN
    /\ Runs(g) =>
         /\ gen.chat \in DOMAIN chats
         /\ chats[gen.chat] # None =>
              /\ gen.branch \in 1 .. chats[gen.chat].branches
              /\ gen.chat \notin switched => gen.branch = chats[gen.chat].active
         /\ gen.target # 0 => gen.target \in DOMAIN messages /\ gen.captured \in 1 .. lastText
    /\ g \in saved => gen.pc \in Over

\* A generation goes on, or its last event reaches the client.
Sending == {"streaming", "draining", "post"}
SameStage(old, new) ==
    \/ old.pc \in Sending /\ new.pc \in Sending /\ new.chat = old.chat
    \/ old.pc \in Over /\ new.pc \in Over

\* The audit of a chat: its generation has sent the prompt, in this chat.
AuditSound(c) ==
    LET audit == audits[c]
        gen == gens[audit.gen]
    IN  audit # None =>
          /\ chats[c] # None
          /\ gen.pc \in Sending \cup Over
          /\ gen.pc \notin Over => gen.chat = c
          /\ audit.status = "prepared" <=> gen.pc \notin Over
          /\ audit.status = "completed" <=> audit.gen \in saved

\* The revision a client has read: while it is current, so is the text.
EditorSound ==
    editor # None =>
      /\ editor.message \in DOMAIN messages
      /\ LET row == messages[editor.message] IN
         row # None => /\ editor.revision <= row.revision
                       /\ editor.revision = row.revision => editor.content = row.content

RowsInv ==
    /\ RowsTyped
    /\ \A m \in DOMAIN messages : MessageSound(m)
    /\ \A c \in DOMAIN chats : ChatSound(c)
GensInv == gens \in [Gens -> GenRecords] /\ \A g \in Gens : GenSound(g)
AuditsInv ==
    /\ audits \in Seq(AuditRecords \cup {None}) /\ Len(audits) = Len(chats)
    /\ \A c \in DOMAIN audits : AuditSound(c)
EditorInv == editor \in EditRecords \cup {None} /\ EditorSound /\ NoBlindEdit

ChatsInv == RowsInv /\ GensInv /\ AuditsInv /\ EditorInv

-----------------------------------------------------------------------------
(* Sets of numbers.                                                        *)

\* FiniteSetsExt's Max of a bounded set.
LEMMA MaxIs ==
  ASSUME NEW S \in SUBSET Nat, S # {}, NEW n \in Nat, \A x \in S : x <= n
  PROVE  Max(S) \in S /\ \A x \in S : x <= Max(S)
  <1> DEFINE bounds == {u \in Nat : \A x \in S : x <= u}
  <1>1. PICK u \in bounds : \A v \in bounds : ~(<<v, u>> \in OpToRel(<, Nat))
    <2>1. bounds \in SUBSET Nat /\ bounds # {}
      OBVIOUS
    <2> QED
      BY <2>1, NatLessThanWellFounded, WFMin
  <1>2. u \in S
    <2> SUFFICES ASSUME u \notin S PROVE FALSE
      OBVIOUS
    <2>1. \A x \in S : x \in Nat /\ x < u
      <3> TAKE x \in S
      <3> QED
        OBVIOUS
    <2>2. u - 1 \in bounds
      <3>1. PICK x \in S : x \in Nat /\ x < u
        BY <2>1
      <3>2. u \in Nat /\ u - 1 \in Nat
        BY <3>1
      <3>3. \A y \in S : y <= u - 1
        BY <2>1, <3>2
      <3> QED
        BY <3>2, <3>3
    <2>3. <<u - 1, u>> \in OpToRel(<, Nat)
      BY <2>2 DEF OpToRel
    <2> QED
      BY <1>1, <2>2, <2>3
  <1>3. \A x \in S : u >= x
    OBVIOUS
  <1> QED
    BY <1>2, <1>3 DEF Max

\* Snapshot copies in the order of the ids.
LEMMA InOrderIs ==
  ASSUME NEW ids \in SUBSET Nat, IsFiniteSet(ids)
  PROVE  /\ Cardinality(ids) \in Nat /\ DOMAIN InOrder(ids) = 1 .. Cardinality(ids)
         /\ \A i \in 1 .. Cardinality(ids) : InOrder(ids)[i] \in ids
         /\ \A i, j \in 1 .. Cardinality(ids) : i < j => InOrder(ids)[i] < InOrder(ids)[j]
         /\ InOrder(ids) \in Seq(ids)
  <1> DEFINE below(n) == {k \in ids : k <= n}
             size == Cardinality(ids)
             rank == [n \in ids |-> Cardinality(below(n))]
  <1>1. size \in Nat
    BY FS_CardinalityType
  <1>2. \A n \in ids : IsFiniteSet(below(n)) /\ rank[n] \in 1 .. size
    <2> TAKE n \in ids
    <2>1. below(n) \in SUBSET ids /\ n \in below(n)
      OBVIOUS
    <2>2. IsFiniteSet(below(n)) /\ Cardinality(below(n)) <= size
      BY <2>1, FS_Subset
    <2>3. Cardinality(below(n)) \in Nat /\ Cardinality(below(n)) # 0
      BY <2>1, <2>2, FS_CardinalityType, FS_EmptySet
    <2> QED
      BY <1>1, <2>2, <2>3
  <1>3. \A a, b \in ids : a < b => rank[a] < rank[b]
    <2> SUFFICES ASSUME NEW a \in ids, NEW b \in ids, a < b PROVE rank[a] < rank[b]
      OBVIOUS
    <2>1. below(a) \in SUBSET below(b) /\ b \in below(b) /\ b \notin below(a)
      <3>1. a \in Nat /\ b \in Nat /\ \A k \in ids : k \in Nat
        OBVIOUS
      <3>2. \A k \in ids : k <= a => k <= b
        BY <3>1
      <3>3. below(a) \in SUBSET below(b)
        BY <3>2
      <3>4. b <= b /\ ~(b <= a)
        BY <3>1
      <3> QED
        BY <3>3, <3>4
    <2>2. /\ Cardinality(below(a)) <= Cardinality(below(b))
          /\ Cardinality(below(b)) = Cardinality(below(a)) => below(b) = below(a)
      BY <1>2, <2>1, FS_Subset
    <2>3. Cardinality(below(a)) # Cardinality(below(b))
      BY <2>1, <2>2
    <2>4. rank[a] \in Int /\ rank[b] \in Int
      BY <1>1, <1>2
    <2> QED
      BY <2>2, <2>3, <2>4
  <1>4. \A i \in 1 .. size : \E n \in ids : rank[n] = i
    <2>1. rank \in Injection(ids, 1 .. size)
      <3>1. rank \in [ids -> 1 .. size]
        BY <1>2
      <3>2. \A a, b \in ids : rank[a] = rank[b] => a = b
        <4> SUFFICES ASSUME NEW a \in ids, NEW b \in ids, rank[a] = rank[b], a # b PROVE FALSE
          OBVIOUS
        <4>1. a < b \/ b < a
          OBVIOUS
        <4>2. rank[a] \in Int
          BY <1>1, <1>2
        <4> HIDE DEF rank
        <4> QED
          BY <1>3, <4>1, <4>2
      <3> QED
        BY <3>1, <3>2 DEF Injection, IsInjective
    <2>2. IsFiniteSet(1 .. size) /\ Cardinality(1 .. size) = size
      BY <1>1, FS_Interval
    <2>3. rank \in Surjection(ids, 1 .. size)
      BY <2>1, <2>2, FS_Injection
    <2> QED
      BY <2>3 DEF Surjection
  <1>5. \A i \in 1 .. size : InOrder(ids)[i] \in ids /\ rank[InOrder(ids)[i]] = i
    <2> TAKE i \in 1 .. size
    <2>1. InOrder(ids)[i] = CHOOSE n \in ids : Cardinality(below(n)) = i
      BY DEF InOrder
    <2>2. \E n \in ids : Cardinality(below(n)) = i
      BY <1>4
    <2> QED
      BY <2>1, <2>2
  <1>6. DOMAIN InOrder(ids) = 1 .. size
    BY DEF InOrder
  <1>7. \A i, j \in 1 .. size : i < j => InOrder(ids)[i] < InOrder(ids)[j]
    <2> HIDE DEF rank
    <2> SUFFICES ASSUME NEW i \in 1 .. size, NEW j \in 1 .. size, i < j,
                        ~(InOrder(ids)[i] < InOrder(ids)[j])
                 PROVE  FALSE
      OBVIOUS
    <2> DEFINE a == InOrder(ids)[i]
               b == InOrder(ids)[j]
    <2>1. a \in Nat /\ b \in Nat /\ a \in ids /\ b \in ids /\ rank[a] = i /\ rank[b] = j
      BY <1>5
    <2> HIDE DEF a, b
    <2>2. ~(a < b)
      BY DEF a, b
    <2>3. a = b \/ b < a
      BY <2>1, <2>2
    <2>4. b < a => j < i
      BY <1>3, <2>1
    <2> QED
      BY <1>1, <2>1, <2>3, <2>4
  <1>8. InOrder(ids) \in Seq(ids)
    <2>1. InOrder(ids) \in [1 .. size -> ids]
      BY <1>5, <1>6 DEF InOrder
    <2> QED
      BY <1>1, <2>1, SeqDef
  <1> QED
    BY <1>1, <1>5, <1>6, <1>7, <1>8

-----------------------------------------------------------------------------
(* Rows.                                                                   *)

LEMMA PositionsAre == Positions \in SUBSET Nat /\ 0 \in Positions
  BY ChatBounds DEF Positions

LEMMA RowIs ==
  ASSUME NEW r \in MessageRows
  PROVE  /\ r.chat \in Nat /\ r.branch \in Nat /\ r.content \in Nat /\ r.revision \in Nat
         /\ r.variantCount \in Nat /\ r.active \in Nat \cup {None} /\ r.revisions \in Seq(Nat)
         /\ r.active \in Positions \cup {None}
         /\ DOMAIN r.variants \in SUBSET Positions /\ DOMAIN r.variants \in SUBSET Nat
         /\ r.variants \in [DOMAIN r.variants -> Nat]
         /\ OldActive(r) \in Positions /\ OldActive(r) \in Nat
  <1>0. Positions \in SUBSET Nat /\ 0 \in Positions
    BY PositionsAre
  <1>1. r.variants \in Variants
    BY DEF MessageRows
  <1>2. PICK D \in SUBSET Positions : r.variants \in [D -> Nat]
    BY <1>1 DEF Variants
  <1>3. DOMAIN r.variants = D
    BY <1>2
  <1>4. OldActive(r) \in Positions
    BY <1>0 DEF OldActive, MessageRows
  <1>5. r.active \in Positions \cup {None}
    BY DEF MessageRows
  <1> QED
    BY <1>0, <1>2, <1>3, <1>4, <1>5 DEF MessageRows

LEMMA VariantsIs ==
  ASSUME NEW D \in SUBSET Positions, NEW f \in [D -> Nat]
  PROVE  f \in Variants
  BY DEF Variants

LEMMA RangeIs ==
  ASSUME NEW s \in Seq(Nat), NEW x \in Nat
  PROVE  /\ Append(s, x) \in Seq(Nat) /\ Range(s) \in SUBSET Nat
         /\ Range(Append(s, x)) = Range(s) \cup {x}
  <1>1. /\ Append(s, x) \in Seq(Nat) /\ Len(Append(s, x)) = Len(s) + 1
        /\ \A i \in 1 .. Len(s) : Append(s, x)[i] = s[i]
        /\ Append(s, x)[Len(s) + 1] = x
    BY AppendProperties
  <1>2. /\ Len(s) \in Nat /\ DOMAIN s = 1 .. Len(s) /\ s \in [1 .. Len(s) -> Nat]
        /\ DOMAIN Append(s, x) = 1 .. Len(s) + 1
    BY <1>1, LenProperties
  <1>3. Range(Append(s, x)) \subseteq Range(s) \cup {x}
    BY <1>1, <1>2 DEF Range
  <1>4. \A y \in Range(s) : y \in Range(Append(s, x))
    <2> SUFFICES ASSUME NEW i \in 1 .. Len(s) PROVE s[i] \in Range(Append(s, x))
      BY <1>2 DEF Range
    <2>1. i \in DOMAIN Append(s, x) /\ Append(s, x)[i] = s[i]
      BY <1>1, <1>2
    <2> QED
      BY <2>1 DEF Range
  <1>5. x \in Range(Append(s, x))
    <2>1. Len(s) + 1 \in DOMAIN Append(s, x)
      BY <1>2
    <2> QED
      BY <1>1, <2>1 DEF Range
  <1>6. Range(s) \in SUBSET Nat
    BY <1>2 DEF Range
  <1> QED
    BY <1>1, <1>3, <1>4, <1>5, <1>6

\* What a write may do to a row: it stays in its chat and branch, its revision moves
\* on, and it has the texts it had, but for those lost on purpose.
Moves(row, new, losing, gained) ==
    /\ new \in MessageRows /\ new.chat = row.chat /\ new.branch = row.branch
    /\ new.revision = row.revision + 1 \/ new = row
    /\ Hole(row) => Hole(new)
    /\ Texts(row) \ losing \subseteq Texts(new)
    /\ Texts(new) \subseteq Texts(row) \cup gained

LEMMA PatchedIs ==
  ASSUME NEW row \in MessageRows, NEW text \in Nat, NEW tracked \in BOOLEAN
  PROVE  Moves(row, Patched(row, text, tracked), IF tracked THEN {} ELSE {row.content}, {text})
  <1> DEFINE revisions == IF tracked /\ text # row.content
                          THEN Append(row.revisions, row.content) ELSE row.revisions
             n == row.revision + 1
             new == [row EXCEPT !.content = text, !.revision = n, !.revisions = revisions]
             losing == IF tracked THEN {} ELSE {row.content}
  <1>1. /\ row.content \in Nat /\ row.revisions \in Seq(Nat) /\ n \in Nat
        /\ row.variants \in Variants
    BY RowIs DEF MessageRows
  <1>2. revisions \in Seq(Nat) /\ n = row.revision + 1
    BY <1>1, RangeIs
  <1>3. /\ Range(row.revisions) \subseteq Range(revisions)
        /\ Range(revisions) \subseteq Range(row.revisions) \cup {row.content}
        /\ row.content \in Range(revisions) \cup losing \cup {text}
    BY <1>1, RangeIs
  <1>4. Patched(row, text, tracked) = new
    BY DEF Patched, MessageRows
  <1> HIDE DEF revisions, n, losing
  <1>5. /\ new \in MessageRows /\ new.chat = row.chat /\ new.branch = row.branch
        /\ new.revision = n /\ new.content = text /\ new.revisions = revisions
        /\ new.variants = row.variants /\ new.active = row.active
        /\ new.variantCount = row.variantCount
    BY <1>1, <1>2 DEF MessageRows
  <1> HIDE DEF new
  <1>6. Hole(row) => Hole(new)
    BY <1>5 DEF Hole
  <1>7. Texts(row) \ losing \subseteq Texts(new)
    BY <1>3, <1>5 DEF Texts
  <1>8. Texts(new) \subseteq Texts(row) \cup {text}
    BY <1>3, <1>5 DEF Texts
  <1> QED
    BY <1>2, <1>4, <1>5, <1>6, <1>7, <1>8 DEF Moves, losing

LEMMA EditIs ==
  ASSUME NEW row \in MessageRows, NEW text \in Nat
  PROVE  /\ Moves(row, Patched(row, text, TRUE), {}, {text})
         /\ Moves(row, Patched(row, text, FALSE), {row.content}, {text})
  <1>1. TRUE \in BOOLEAN /\ FALSE \in BOOLEAN
    OBVIOUS
  <1>2. Moves(row, Patched(row, text, TRUE), IF TRUE THEN {} ELSE {row.content}, {text})
    BY <1>1, PatchedIs
  <1>3. Moves(row, Patched(row, text, FALSE), IF FALSE THEN {} ELSE {row.content}, {text})
    BY <1>1, PatchedIs
  <1> QED
    BY <1>2, <1>3

LEMMA RestoredIs ==
  ASSUME NEW row \in MessageRows, NEW i \in DOMAIN row.revisions
  PROVE  Moves(row, Restored(row, i), {}, {}) /\ row.revisions[i] \in Texts(row)
  <1>1. row.revisions[i] \in Range(row.revisions)
    BY DEF Range
  <1>2. row.revisions[i] \in Nat
    <2>1. row.revisions \in Seq(Nat)
      BY RowIs
    <2> QED
      BY <1>1, <2>1, RangeIs
  <1>3. Moves(row, Patched(row, row.revisions[i], TRUE), {}, {row.revisions[i]})
    BY <1>2, PatchedIs
  <1>4. row.revisions[i] \in Texts(row)
    BY <1>1 DEF Texts
  <1>5. CASE row.revisions[i] = row.content
    BY <1>4, <1>5 DEF Restored, Moves
  <1>6. CASE row.revisions[i] # row.content
    BY <1>3, <1>4, <1>6 DEF Restored, Moves
  <1> QED
    BY <1>4, <1>5, <1>6

LEMMA ArchivedIs ==
  ASSUME NEW row \in MessageRows, NEW text \in Nat, ~Collides(row)
  PROVE  LET archived == Archived(row, text) IN
         /\ archived \in Variants
         /\ DOMAIN archived = DOMAIN row.variants \cup {OldActive(row)}
         /\ archived[OldActive(row)] = text
         /\ \A p \in DOMAIN row.variants : archived[p] = row.variants[p]
         /\ \A p \in DOMAIN archived : archived[p] \in Nat
  <1> DEFINE D == DOMAIN row.variants \cup {OldActive(row)}
  <1>1. D \in SUBSET Positions /\ row.variants \in [DOMAIN row.variants -> Nat]
    BY RowIs
  <1>2. Archived(row, text) \in [D -> Nat]
    BY <1>1 DEF Archived
  <1>3. Archived(row, text) \in Variants
    BY <1>1, <1>2, VariantsIs
  <1> QED
    BY <1>2, <1>3 DEF Archived, Collides

LEMMA SwipedIs ==
  ASSUME NEW row \in MessageRows, ~Collides(row), NEW p \in DOMAIN row.variants
  PROVE  Moves(row, Swiped(row, p), {}, {})
  <1> DEFINE old == OldActive(row)
             archived == Archived(row, row.content)
             D == (DOMAIN row.variants \cup {old}) \ {p}
             variants == [q \in D |-> archived[q]]
             shown == row.variants[p]
             n == row.revision + 1
             new == [row EXCEPT !.content = shown, !.active = p, !.revision = n,
                                !.variants = variants]
  <1>1. /\ row.content \in Nat /\ n \in Nat /\ DOMAIN row.variants \in SUBSET Positions
        /\ shown \in Nat /\ p \in Positions /\ p \in Nat /\ old \in Positions /\ old \in Nat /\ old # p /\ row.active \in Nat \cup {None}
        /\ row.variantCount \in Nat /\ n = row.revision + 1
    BY RowIs DEF Collides
  <1>2. /\ archived[old] = row.content /\ DOMAIN archived = DOMAIN row.variants \cup {old}
        /\ \A q \in DOMAIN row.variants : archived[q] = row.variants[q]
        /\ \A q \in DOMAIN archived : archived[q] \in Nat
    BY <1>1, ArchivedIs
  <1>3. Swiped(row, p) = new
    BY DEF Swiped, MessageRows
  <1>4. D \in SUBSET Positions /\ old \in D /\ \A q \in DOMAIN row.variants \ {p} : q \in D
    BY <1>1
  <1> HIDE DEF archived
  <1>5. variants \in [D -> Nat] /\ variants \in Variants /\ DOMAIN variants = D
    BY <1>2, <1>4, VariantsIs
  <1>6. /\ variants[old] = row.content
        /\ \A q \in DOMAIN row.variants \ {p} : variants[q] = row.variants[q]
        /\ \A q \in D : variants[q] \in {row.content} \cup {row.variants[k] : k \in DOMAIN row.variants}
    BY <1>1, <1>2, <1>4
  <1> HIDE DEF variants, n, shown, old
  <1>7. /\ new \in MessageRows /\ new.chat = row.chat /\ new.branch = row.branch
        /\ new.revision = n /\ new.content = shown /\ new.revisions = row.revisions
        /\ new.variants = variants /\ new.active = p
        /\ new.variantCount = row.variantCount
    BY <1>1, <1>5 DEF MessageRows
  <1> HIDE DEF new
  <1>8. ASSUME Hole(row) PROVE Hole(new)
    <2>1. old = row.active
      BY <1>1, <1>8, NoneAssumption DEF old, OldActive, Hole
    <2>2. DOMAIN new.variants = (DOMAIN row.variants \cup {row.active}) \ {p}
      BY <1>5, <1>7, <2>1
    <2>3. p \in 0 .. row.variantCount - 1
      BY <1>8 DEF Hole
    <2> QED
      BY <1>7, <1>8, <2>2, <2>3 DEF Hole
  <1>9. ASSUME NEW t \in Texts(row) PROVE t \in Texts(new)
    <2>1. CASE t = row.content
      BY <1>4, <1>5, <1>6, <1>7, <2>1 DEF Texts
    <2>2. CASE t \in Range(row.revisions)
      BY <1>7, <2>2 DEF Texts
    <2>3. CASE \E q \in DOMAIN row.variants : t = row.variants[q]
      <3>1. PICK q \in DOMAIN row.variants : t = row.variants[q]
        BY <2>3
      <3>2. CASE q = p
        BY <1>7, <3>1, <3>2 DEF Texts, shown
      <3>3. CASE q # p
        BY <1>4, <1>5, <1>6, <1>7, <3>1, <3>3 DEF Texts
      <3> QED
        BY <3>2, <3>3
    <2> QED
      BY <2>1, <2>2, <2>3 DEF Texts
  <1>10. Texts(new) \subseteq Texts(row)
    BY <1>5, <1>6, <1>7 DEF Texts, shown
  <1> QED
    BY <1>1, <1>3, <1>7, <1>8, <1>9, <1>10 DEF Moves

LEMMA ReplacedIs ==
  ASSUME NEW row \in MessageRows, ~Collides(row), row.variantCount \in Positions,
         NEW captured \in Nat, NEW text \in Nat
  PROVE  Moves(row, Replaced(row, captured, text), {row.content} \ {captured}, {captured, text})
  <1> DEFINE old == OldActive(row)
             variants == Archived(row, captured)
             n == row.revision + 1
             count == row.variantCount + 1
             position == row.variantCount
             new == [row EXCEPT !.content = text, !.greeting = FALSE, !.variants = variants,
                                !.variantCount = count, !.active = position, !.revision = n]
  <1>1. /\ n \in Nat /\ count \in Nat /\ position \in Nat /\ position \in Positions /\ n = row.revision + 1
        /\ row.active \in Nat \cup {None} /\ count = position + 1 /\ position = row.variantCount
    BY RowIs
  <1>2. /\ variants \in Variants /\ variants[old] = captured
        /\ DOMAIN variants = DOMAIN row.variants \cup {old}
        /\ \A q \in DOMAIN row.variants : variants[q] = row.variants[q]
    BY ArchivedIs
  <1>3. Replaced(row, captured, text) = new
    BY DEF Replaced, MessageRows
  <1> HIDE DEF variants, n, count, position, old
  <1>4. /\ new \in MessageRows /\ new.chat = row.chat /\ new.branch = row.branch
        /\ new.revision = n /\ new.content = text /\ new.revisions = row.revisions
        /\ new.variants = variants /\ new.active = position
        /\ new.variantCount = count
    BY <1>1, <1>2 DEF MessageRows
  <1> HIDE DEF new
  <1>5. ASSUME Hole(row) PROVE Hole(new)
    <2>1. old = row.active /\ old \in 0 .. position - 1
      BY <1>1, <1>5, NoneAssumption DEF old, OldActive, Hole
    <2>2. DOMAIN variants = 0 .. position - 1
      BY <1>1, <1>2, <1>5, <2>1 DEF Hole
    <2> QED
      BY <1>1, <1>4, <2>2 DEF Hole
  <1>6. ASSUME NEW t \in Texts(row), t \notin {row.content} \ {captured} PROVE t \in Texts(new)
    <2>1. CASE t = row.content
      BY <1>2, <1>4, <1>6, <2>1 DEF Texts
    <2>2. CASE t \in Range(row.revisions)
      BY <1>4, <2>2 DEF Texts
    <2>3. CASE \E q \in DOMAIN row.variants : t = row.variants[q]
      BY <1>2, <1>4, <2>3 DEF Texts
    <2> QED
      BY <2>1, <2>2, <2>3 DEF Texts
  <1>7. Texts(new) \subseteq Texts(row) \cup {captured, text}
    BY <1>2, <1>4 DEF Texts
  <1> QED
    BY <1>1, <1>3, <1>4, <1>5, <1>6, <1>7 DEF Moves

\* The rows that a message starts as.
LEMMA NoVariants == << >> \in Variants /\ DOMAIN << >> = {} /\ <<>> \in Seq(Nat) /\ Range(<<>>) = {}
  <1>1. <<>> \in Seq(Nat) /\ Len(<<>>) = 0
    BY EmptySeq
  <1>2. DOMAIN <<>> = 1 .. 0 /\ <<>> \in [1 .. 0 -> Nat]
    BY <1>1, LenProperties
  <1>3. 1 .. 0 = {} /\ 1 .. 0 \in SUBSET Positions
    OBVIOUS
  <1> QED
    BY <1>1, <1>2, <1>3, VariantsIs DEF Range

Roles == {"user", "assistant"}

LEMMA NewRowIs ==
  ASSUME NEW c \in Nat, NEW b \in Nat, NEW role \in Roles,
         NEW content \in Nat, NEW key \in Keys \cup {None}
  PROVE  LET row == Row(c, b, role, content, key) IN
         /\ row \in MessageRows /\ row.chat = c /\ row.branch = b /\ row.content = content
         /\ Texts(row) = {content} /\ Hole(row)
  <1>1. Row(c, b, role, content, key) \in MessageRows
    BY NoVariants, PositionsAre DEF Row, MessageRows, Roles
  <1> QED
    BY <1>1, NoVariants DEF Row, Texts, Hole

LEMMA GreetingRowIs ==
  ASSUME NEW c \in Nat, NEW text \in Nat
  PROVE  LET row == GreetingRow(c, text) IN
         /\ row \in MessageRows /\ row.chat = c /\ row.branch = 1 /\ row.content = text
         /\ Texts(row) = {text}
  <1> DEFINE base == Row(c, 1, "assistant", text, None)
             row == [base EXCEPT !.greeting = TRUE, !.variantCount = 0, !.active = None]
  <1>1. /\ base \in MessageRows /\ base.chat = c /\ base.branch = 1 /\ base.content = text
        /\ Texts(base) = {text}
    BY NewRowIs DEF Roles
  <1>2. GreetingRow(c, text) = row
    BY DEF GreetingRow
  <1> HIDE DEF base
  <1>3. /\ row \in MessageRows /\ row.chat = c /\ row.branch = 1 /\ row.content = text
        /\ row.revisions = base.revisions /\ row.variants = base.variants
    BY <1>1 DEF MessageRows
  <1> HIDE DEF row
  <1> QED
    BY <1>1, <1>2, <1>3 DEF Texts

LEMMA CopiedIs ==
  ASSUME NEW row \in MessageRows, NEW c \in Nat
  PROVE  LET copy == Copied(row, c) IN
         /\ copy \in MessageRows /\ copy.chat = c /\ copy.branch = 1 /\ copy.content = row.content
         /\ Texts(copy) = Texts(row)
         /\ Hole(row) => Hole(copy)
  <1>1. /\ Copied(row, c) \in MessageRows /\ Copied(row, c).chat = c
        /\ Copied(row, c).branch = 1 /\ Copied(row, c).content = row.content
        /\ Copied(row, c).variants = row.variants /\ Copied(row, c).revisions = row.revisions
        /\ Copied(row, c).active = row.active
        /\ Copied(row, c).variantCount = row.variantCount
    BY DEF Copied, MessageRows
  <1> QED
    BY <1>1 DEF Texts, Hole

\* A checkpoint links its source message, which counts as a write.
LEMMA LinkedIs ==
  ASSUME NEW row \in MessageRows
  PROVE  Moves(row, [row EXCEPT !.revision = @ + 1], {}, {})
         /\ [row EXCEPT !.revision = @ + 1].content = row.content
  <1> DEFINE n == row.revision + 1
             new == [row EXCEPT !.revision = n]
  <1>1. n \in Nat /\ n = row.revision + 1
    BY RowIs
  <1> HIDE DEF n
  <1>2. /\ new \in MessageRows /\ new.chat = row.chat /\ new.branch = row.branch
        /\ new.revision = n /\ new.content = row.content /\ new.revisions = row.revisions
        /\ new.variants = row.variants /\ new.active = row.active
        /\ new.variantCount = row.variantCount
    BY <1>1 DEF MessageRows
  <1>3. [row EXCEPT !.revision = @ + 1] = new
    BY DEF n
  <1> HIDE DEF new
  <1> QED
    BY <1>1, <1>2, <1>3 DEF Moves, Texts, Hole

-----------------------------------------------------------------------------
(* Tables.                                                                 *)

LEMMA TablesAre ==
  ASSUME RowsTyped
  PROVE  /\ Len(messages) \in Nat /\ DOMAIN messages = 1 .. Len(messages)
         /\ Len(chats) \in Nat /\ DOMAIN chats = 1 .. Len(chats)
         /\ DOMAIN ever = DOMAIN messages /\ DOMAIN dropped = DOMAIN messages
         /\ \A m \in DOMAIN messages : /\ messages[m] \in MessageRows \cup {None}
                                       /\ ever[m] \subseteq Nat /\ dropped[m] \subseteq Nat
         /\ \A c \in DOMAIN chats : chats[c] \in ChatRecords \cup {None}
  <1>1. /\ Len(messages) \in Nat /\ DOMAIN messages = 1 .. Len(messages)
        /\ messages \in [1 .. Len(messages) -> MessageRows \cup {None}]
    BY LenProperties DEF RowsTyped
  <1>2. /\ Len(chats) \in Nat /\ DOMAIN chats = 1 .. Len(chats)
        /\ chats \in [1 .. Len(chats) -> ChatRecords \cup {None}]
    BY LenProperties DEF RowsTyped
  <1>3. DOMAIN ever = DOMAIN messages /\ ever \in [1 .. Len(messages) -> SUBSET Nat]
    BY <1>1, LenProperties DEF RowsTyped
  <1>4. DOMAIN dropped = DOMAIN messages /\ dropped \in [1 .. Len(messages) -> SUBSET Nat]
    BY <1>1, LenProperties DEF RowsTyped
  <1> QED
    BY <1>1, <1>2, <1>3, <1>4

\* Rows of one branch, and their number.
LEMMA CountIs ==
  ASSUME NEW ms \in Seq(MessageRows \cup {None}), NEW c, NEW b
  PROVE  /\ OfBranch(ms, c, b) \in SUBSET Nat /\ IsFiniteSet(OfBranch(ms, c, b))
         /\ OfBranch(ms, c, b) \subseteq DOMAIN ms
         /\ Count(ms, c, b) \in Nat
         /\ \A m \in OfBranch(ms, c, b) : m <= Len(ms)
  <1>1. DOMAIN ms = 1 .. Len(ms) /\ Len(ms) \in Nat
    BY LenProperties
  <1>2. OfBranch(ms, c, b) \in SUBSET (1 .. Len(ms))
    BY <1>1 DEF OfBranch, Live
  <1>3. IsFiniteSet(1 .. Len(ms))
    BY <1>1, FS_Interval
  <1>4. IsFiniteSet(OfBranch(ms, c, b))
    BY <1>2, <1>3, FS_Subset
  <1> QED
    BY <1>1, <1>2, <1>4, FS_CardinalityType DEF Count

\* One table behind another.
Joined(c, a, b) == c = a \o b

LEMMA ConcatIs ==
  ASSUME NEW S, NEW a \in Seq(S), NEW b \in Seq(S), NEW c, Joined(c, a, b)
  PROVE  /\ c \in Seq(S) /\ Len(a) \in Nat /\ Len(b) \in Nat /\ Len(c) = Len(a) + Len(b)
         /\ DOMAIN c = 1 .. Len(a) + Len(b) /\ DOMAIN a = 1 .. Len(a) /\ DOMAIN b = 1 .. Len(b)
         /\ \A m \in 1 .. Len(a) : c[m] = a[m]
         /\ \A i \in 1 .. Len(b) : c[Len(a) + i] = b[i]
  <1>1. /\ Len(a) \in Nat /\ Len(b) \in Nat
        /\ DOMAIN a = 1 .. Len(a) /\ DOMAIN b = 1 .. Len(b)
    BY LenProperties
  <1>2. /\ c \in Seq(S) /\ Len(c) = Len(a) + Len(b)
        /\ \A i \in 1 .. Len(a) + Len(b) : c[i] = IF i <= Len(a) THEN a[i] ELSE b[i - Len(a)]
    BY ConcatProperties DEF Joined
  <1>3. DOMAIN c = 1 .. Len(a) + Len(b)
    BY <1>2, LenProperties
  <1>4. \A m \in 1 .. Len(a) : c[m] = a[m]
    BY <1>1, <1>2
  <1>5. \A i \in 1 .. Len(b) : c[Len(a) + i] = b[i]
    <2> TAKE i \in 1 .. Len(b)
    <2>1. Len(a) + i \in 1 .. Len(a) + Len(b) /\ ~(Len(a) + i <= Len(a)) /\ (Len(a) + i) - Len(a) = i
      BY <1>1
    <2> QED
      BY <1>2, <2>1
  <1> QED
    BY <1>1, <1>2, <1>3, <1>4, <1>5

\* Messages are added behind the others.
Inserted(base, rows) ==
    /\ messages' = base \o rows
    /\ ever' = ever \o [i \in DOMAIN rows |-> {rows[i].content}]
    /\ dropped' = dropped \o [i \in DOMAIN rows |-> {}]

LEMMA Grows ==
  ASSUME RowsTyped, NEW base \in Seq(MessageRows \cup {None}), Len(base) = Len(messages),
         NEW rows \in Seq(MessageRows), Inserted(base, rows)
  PROVE  /\ messages' \in Seq(MessageRows \cup {None})
         /\ Len(rows) \in Nat /\ Len(messages) \in Nat
         /\ Len(messages') = Len(messages) + Len(rows)
         /\ DOMAIN messages' = 1 .. Len(messages) + Len(rows)
         /\ DOMAIN messages \subseteq DOMAIN messages'
         /\ ever' \in Seq(SUBSET Nat) /\ Len(ever') = Len(messages')
         /\ dropped' \in Seq(SUBSET Nat) /\ Len(dropped') = Len(messages')
         /\ \A m \in DOMAIN messages :
              messages'[m] = base[m] /\ ever'[m] = ever[m] /\ dropped'[m] = dropped[m]
         /\ \A i \in 1 .. Len(rows) :
              /\ messages'[Len(messages) + i] = rows[i]
              /\ ever'[Len(messages) + i] = {rows[i].content}
              /\ dropped'[Len(messages) + i] = {}
  <1> DEFINE n == Len(messages)
             k == Len(rows)
             shown == [i \in DOMAIN rows |-> {rows[i].content}]
             none == [i \in DOMAIN rows |-> {}]
  <1>1. n \in Nat /\ DOMAIN messages = 1 .. n
    BY TablesAre
  <1>2. k \in Nat /\ DOMAIN rows = 1 .. k /\ rows \in [1 .. k -> MessageRows]
        /\ rows \in Seq(MessageRows \cup {None})
    BY LenProperties, SeqMonotonic
  <1>3. shown \in Seq(SUBSET Nat) /\ Len(shown) = k
    <2>1. shown \in [1 .. k -> SUBSET Nat]
      BY <1>2 DEF MessageRows
    <2>2. shown \in Seq(SUBSET Nat)
      BY <1>2, <2>1, SeqDef
    <2>3. DOMAIN shown = 1 .. Len(shown) /\ Len(shown) \in Nat
      BY <2>2, LenProperties
    <2> QED
      BY <1>2, <2>1, <2>2, <2>3
  <1>4. none \in Seq(SUBSET Nat) /\ Len(none) = k
    <2>1. none \in [1 .. k -> SUBSET Nat]
      BY <1>2
    <2>2. none \in Seq(SUBSET Nat)
      BY <1>2, <2>1, SeqDef
    <2>3. DOMAIN none = 1 .. Len(none) /\ Len(none) \in Nat
      BY <2>2, LenProperties
    <2> QED
      BY <1>2, <2>1, <2>2, <2>3
  <1> HIDE DEF shown, none
  <1> DEFINE R == MessageRows \cup {None}
             T == SUBSET Nat
  <1>5. base \in Seq(R) /\ rows \in Seq(R) /\ Len(base) = n
    BY <1>2
  <1>6. /\ Joined(ever', ever, shown) /\ Joined(dropped', dropped, none)
        /\ Joined(messages', base, rows)
    BY DEF shown, none, Joined, Inserted
  <1>7. /\ ever \in Seq(T) /\ Len(ever) = n /\ dropped \in Seq(T) /\ Len(dropped) = n
        /\ shown \in Seq(T) /\ none \in Seq(T) /\ Len(shown) = k /\ Len(none) = k
    BY <1>3, <1>4 DEF RowsTyped
  <1> HIDE DEF R, T, n
  <1>8. /\ messages' \in Seq(R) /\ Len(messages') = n + k
        /\ DOMAIN messages' = 1 .. n + k
        /\ \A m \in 1 .. n : messages'[m] = base[m]
        /\ \A i \in 1 .. k : messages'[n + i] = rows[i]
    <2>1. messages' \in Seq(R) /\ Len(messages') = n + k
      BY <1>5, <1>6, ConcatIs
    <2>2. \A m \in 1 .. n : messages'[m] = base[m]
      BY <1>5, <1>6, ConcatIs
    <2>0. Joined(messages', base, rows)
      BY <1>6
    <2>5. \A i \in 1 .. Len(rows) : messages'[Len(base) + i] = rows[i]
      BY <1>5, <2>0, ConcatIs
    <2>3. \A i \in 1 .. k : messages'[n + i] = rows[i]
      BY <1>5, <2>5
    <2>4. DOMAIN messages' = 1 .. n + k
      BY <1>5, <1>6, ConcatIs
    <2> QED
      BY <2>1, <2>2, <2>3, <2>4
  <1> HIDE DEF k
  <1>9. /\ ever' \in Seq(T) /\ Len(ever') = n + k
        /\ \A m \in 1 .. n : ever'[m] = ever[m]
        /\ \A i \in 1 .. k : ever'[n + i] = shown[i]
    <2>0. Joined(ever', ever, shown) /\ ever \in Seq(T) /\ shown \in Seq(T)
      BY <1>6, <1>7
    <2>1. ever' \in Seq(T)
      BY <2>0, ConcatIs
    <2>4. Len(ever') = n + k
      BY <1>6, <1>7, ConcatIs
    <2>2. \A m \in 1 .. n : ever'[m] = ever[m]
      BY <1>6, <1>7, ConcatIs
    <2>5. \A i \in 1 .. Len(shown) : ever'[Len(ever) + i] = shown[i]
      BY <2>0, ConcatIs
    <2>3. \A i \in 1 .. k : ever'[n + i] = shown[i]
      BY <1>7, <2>5
    <2> QED
      BY <2>1, <2>2, <2>3, <2>4
  <1>0. /\ dropped' \in Seq(T) /\ Len(dropped') = n + k
        /\ \A m \in 1 .. n : dropped'[m] = dropped[m]
        /\ \A i \in 1 .. k : dropped'[n + i] = none[i]
    <2>0. Joined(dropped', dropped, none) /\ dropped \in Seq(T) /\ none \in Seq(T)
      BY <1>6, <1>7
    <2>1. dropped' \in Seq(T)
      BY <2>0, ConcatIs
    <2>4. Len(dropped') = n + k
      BY <1>6, <1>7, ConcatIs
    <2>2. \A m \in 1 .. n : dropped'[m] = dropped[m]
      BY <1>6, <1>7, ConcatIs
    <2>5. \A i \in 1 .. Len(none) : dropped'[Len(dropped) + i] = none[i]
      BY <2>0, ConcatIs
    <2>3. \A i \in 1 .. k : dropped'[n + i] = none[i]
      BY <1>7, <2>5
    <2> QED
      BY <2>1, <2>2, <2>3, <2>4
  <1>10. \A i \in 1 .. k : shown[i] = {rows[i].content} /\ none[i] = {}
    BY <1>2 DEF shown, none, k
  <1>11. 1 .. n \subseteq 1 .. n + k
    BY <1>1, <1>2
  <1> QED
    BY <1>1, <1>2, <1>8, <1>9, <1>0, <1>10, <1>11 DEF n, k, R, T

-----------------------------------------------------------------------------
(* What every step keeps.                                                  *)

\* A message goes for good or moves on, and the history follows it.
MessageKept(m) ==
    messages'[m] # None =>
      /\ messages[m] # None
      /\ \E losing \in SUBSET Nat, gained \in SUBSET (1 .. lastText') :
           /\ Moves(messages[m], messages'[m], losing, gained)
           /\ ever'[m] \subseteq ever[m] \cup {messages'[m].content}
           /\ dropped[m] \cup losing \subseteq dropped'[m]

\* A chat goes for good or keeps its branches; only a PATCH moves the active one.
ChatKept(c) ==
    chats'[c] # None =>
      /\ chats[c] # None /\ chats'[c].branches >= chats[c].branches
      /\ c \notin switched' => c \notin switched /\ chats'[c].active = chats[c].active

MessagesKept ==
    /\ DOMAIN messages \subseteq DOMAIN messages' /\ lastText <= lastText'
    /\ \A m \in DOMAIN messages : MessageKept(m) /\ (m \in unseeded => m \in unseeded')
ChatsKept ==
    /\ DOMAIN chats \subseteq DOMAIN chats'
    /\ \A c \in DOMAIN chats : ChatKept(c)

\* A message that is left alone.
LEMMA MessageSame ==
  ASSUME RowsTyped, NEW m \in DOMAIN messages, messages'[m] = messages[m],
         ever'[m] = ever[m], dropped'[m] = dropped[m]
  PROVE  MessageKept(m)
  <1> SUFFICES ASSUME messages'[m] # None
               PROVE  \E losing \in SUBSET Nat, gained \in SUBSET (1 .. lastText') :
                        /\ Moves(messages[m], messages'[m], losing, gained)
                        /\ ever'[m] \subseteq ever[m] \cup {messages'[m].content}
                        /\ dropped[m] \cup losing \subseteq dropped'[m]
    BY DEF MessageKept
  <1>1. messages[m] \in MessageRows
    BY TablesAre
  <1>2. Moves(messages[m], messages'[m], {}, {})
    BY <1>1 DEF Moves
  <1>3. {} \in SUBSET Nat /\ {} \in SUBSET (1 .. lastText')
    OBVIOUS
  <1> QED
    BY <1>2, <1>3

LEMMA KeptIsSound ==
  ASSUME RowsInv, RowsTyped', MessagesKept, ChatsKept, NEW m \in DOMAIN messages,
         messages'[m] # None => chats'[messages[m].chat] # None
  PROVE  MessageSound(m)'
  <1> SUFFICES ASSUME messages'[m] # None PROVE MessageSound(m)'
    BY DEF MessageSound
  <1> DEFINE row == messages[m]
             new == messages'[m]
  <1>1. PICK losing \in SUBSET Nat, gained \in SUBSET (1 .. lastText') :
          /\ Moves(row, new, losing, gained)
          /\ ever'[m] \subseteq ever[m] \cup {new.content}
          /\ dropped[m] \cup losing \subseteq dropped'[m]
    BY DEF MessagesKept, MessageKept
  <1>2. row # None /\ row \in MessageRows
    BY TablesAre DEF RowsInv, MessagesKept, MessageKept
  <1>3. /\ row.chat \in DOMAIN chats /\ chats[row.chat] # None
        /\ row.branch \in 1 .. chats[row.chat].branches
        /\ Texts(row) \subseteq 1 .. lastText
        /\ m \notin unseeded => Hole(row)
        /\ ever[m] \ dropped[m] \subseteq Texts(row)
    BY <1>2 DEF RowsInv, MessageSound
  <1>4. /\ row.chat \in DOMAIN chats' /\ chats'[row.chat] # None
        /\ chats'[row.chat].branches >= chats[row.chat].branches
    BY <1>3 DEF ChatsKept, ChatKept
  <1>5. chats[row.chat].branches \in Nat /\ chats'[row.chat].branches \in Nat
    <2>1. chats[row.chat] \in ChatRecords
      BY <1>3, TablesAre DEF RowsInv
    <2>2. chats'[row.chat] \in ChatRecords
      <3>1. chats' \in [1 .. Len(chats') -> ChatRecords \cup {None}] /\ DOMAIN chats' = 1 .. Len(chats')
        BY LenProperties DEF RowsTyped
      <3> QED
        BY <1>4, <3>1
    <2> QED
      BY <2>1, <2>2 DEF ChatRecords
  <1>6. new.chat = row.chat /\ new.branch = row.branch
    BY <1>1 DEF Moves
  <1>7. new.branch \in 1 .. chats'[new.chat].branches
    BY <1>3, <1>4, <1>5, <1>6
  <1>8. lastText \in Nat /\ lastText' \in Nat /\ lastText <= lastText'
    BY DEF RowsInv, RowsTyped, MessagesKept
  <1>9. Texts(new) \subseteq 1 .. lastText'
    <2>1. Texts(new) \subseteq Texts(row) \cup gained
      BY <1>1 DEF Moves
    <2>2. 1 .. lastText \subseteq 1 .. lastText'
      BY <1>8
    <2> HIDE DEF row, new
    <2> QED
      BY <1>3, <2>1, <2>2
  <1>10. m \notin unseeded' => Hole(new)
    BY <1>1, <1>3 DEF Moves, MessagesKept
  <1>11. ever'[m] \ dropped'[m] \subseteq Texts(new)
    <2>1. new.content \in Texts(new)
      BY DEF Texts
    <2> QED
      BY <1>1, <1>3, <2>1 DEF Moves
  <1> HIDE DEF row, new
  <1>12. messages'[m] = new
    BY DEF new
  <1> QED
    BY <1>4, <1>6, <1>7, <1>9, <1>10, <1>11, <1>12 DEF MessageSound, Texts, Hole

\* A chat that is left alone, with the messages of its active branch.
LEMMA ChatSame ==
  ASSUME NEW c \in DOMAIN chats, ChatSound(c), chats'[c] = chats[c],
         c \in switched => c \in switched',
         OfBranch(messages, c, chats[c].active)' = OfBranch(messages, c, chats[c].active)
  PROVE  ChatSound(c)'
  BY DEF ChatSound, Count

\* The rows of a branch, when the others come and go.
LEMMA BranchSame ==
  ASSUME NEW c, NEW b, DOMAIN messages \subseteq DOMAIN messages',
         \A m \in DOMAIN messages :
           /\ (messages[m] # None /\ messages[m].chat = c)
                <=> (messages'[m] # None /\ messages'[m].chat = c)
           /\ messages'[m] # None => messages[m] # None /\ messages'[m].branch = messages[m].branch,
         \A m \in DOMAIN messages' \ DOMAIN messages :
           messages'[m] # None => messages'[m].chat # c
  PROVE  OfBranch(messages', c, b) = OfBranch(messages, c, b)
  BY DEF OfBranch, Live

LEMMA GenStays ==
  ASSUME RowsInv, RowsTyped', MessagesKept, ChatsKept, NEW g \in Gens, GenSound(g),
         gens'[g].pc = gens[g].pc \/ (Runs(g) /\ Runs(g)'), gens'[g].chat = gens[g].chat,
         gens'[g].branch = gens[g].branch, gens'[g].target = gens[g].target,
         gens'[g].captured = gens[g].captured, g \in saved' => g \in saved
  PROVE  GenSound(g)'
  <1>1. g \in saved' => gens'[g].pc \in Over
    BY DEF GenSound, Runs, Over
  <1>2. ASSUME Runs(g)'
        PROVE  /\ gens'[g].chat \in DOMAIN chats'
               /\ chats'[gens'[g].chat] # None =>
                    /\ gens'[g].branch \in 1 .. chats'[gens'[g].chat].branches
                    /\ gens'[g].chat \notin switched' => gens'[g].branch = chats'[gens'[g].chat].active
               /\ gens'[g].target # 0 => /\ gens'[g].target \in DOMAIN messages'
                                         /\ gens'[g].captured \in 1 .. lastText'
    <2>1. Runs(g)
      BY <1>2 DEF Runs
    <2> DEFINE c == gens[g].chat
    <2>2. c \in DOMAIN chats /\ c \in DOMAIN chats'
      BY <2>1 DEF GenSound, ChatsKept
    <2>3. chats'[c] # None => chats[c] # None /\ chats'[c].branches >= chats[c].branches
      BY <2>2 DEF ChatsKept, ChatKept
    <2>4. chats'[c] # None => /\ gens[g].branch \in 1 .. chats'[c].branches
                              /\ c \notin switched' => gens[g].branch = chats'[c].active
      <3> SUFFICES ASSUME chats'[c] # None
                   PROVE  /\ gens[g].branch \in 1 .. chats'[c].branches
                          /\ c \notin switched' => gens[g].branch = chats'[c].active
        OBVIOUS
      <3>1. chats[c] \in ChatRecords
        BY <2>2, <2>3, TablesAre DEF RowsInv
      <3>2. chats'[c] \in ChatRecords
        <4>1. chats' \in [1 .. Len(chats') -> ChatRecords \cup {None}] /\ DOMAIN chats' = 1 .. Len(chats')
          BY LenProperties DEF RowsTyped
        <4> QED
          BY <2>2, <4>1
      <3>3. chats[c].branches \in Nat /\ chats'[c].branches \in Nat
        BY <3>1, <3>2 DEF ChatRecords
      <3>4. /\ gens[g].branch \in 1 .. chats[c].branches
            /\ c \notin switched => gens[g].branch = chats[c].active
        BY <2>1, <2>3 DEF GenSound
      <3>5. c \notin switched' => c \notin switched /\ chats'[c].active = chats[c].active
        BY <2>2 DEF ChatsKept, ChatKept
      <3> HIDE DEF c
      <3> QED
        BY <2>3, <3>3, <3>4, <3>5
    <2>5. lastText \in Nat /\ lastText' \in Nat /\ lastText <= lastText'
      BY DEF RowsInv, RowsTyped, MessagesKept
    <2>6. gens[g].target # 0 => gens[g].target \in DOMAIN messages' /\ gens[g].captured \in 1 .. lastText'
      BY <2>1, <2>5 DEF GenSound, MessagesKept
    <2> QED
      BY <2>2, <2>4, <2>6
  <1> QED
    BY <1>1, <1>2 DEF GenSound

LEMMA AuditStays ==
  ASSUME NEW c \in DOMAIN audits, AuditSound(c), audits'[c] = audits[c],
         audits[c] # None =>
           LET g == audits[c].gen IN
           /\ chats'[c] # None
           /\ gens'[g] = gens[g] \/ SameStage(gens[g], gens'[g])
           /\ g \in saved <=> g \in saved'
  PROVE  AuditSound(c)'
  BY DEF AuditSound, SameStage, Sending, Over

LEMMA EditorStays ==
  ASSUME RowsInv, RowsTyped', EditorInv, MessagesKept, editor' = editor \/ editor' = None,
         UNCHANGED blind
  PROVE  EditorInv'
  <1>1. NoBlindEdit' /\ editor' \in EditRecords \cup {None}
    BY DEF EditorInv, NoBlindEdit
  <1>2. CASE editor' = None
    BY <1>1, <1>2 DEF EditorInv, EditorSound
  <1>3. CASE editor' = editor /\ editor # None
    <2> DEFINE m == editor.message
    <2>1. m \in DOMAIN messages /\ m \in DOMAIN messages'
      BY <1>3 DEF EditorInv, EditorSound, MessagesKept
    <2>2. ASSUME messages'[m] # None
          PROVE  /\ editor.revision <= messages'[m].revision
                 /\ editor.revision = messages'[m].revision => editor.content = messages'[m].content
      <3>1. messages[m] # None
        BY <2>1, <2>2 DEF MessagesKept, MessageKept
      <3>2. /\ editor.revision <= messages[m].revision
            /\ editor.revision = messages[m].revision => editor.content = messages[m].content
        BY <1>3, <3>1 DEF EditorInv, EditorSound
      <3>3. PICK losing \in SUBSET Nat, gained \in SUBSET (1 .. lastText') :
              Moves(messages[m], messages'[m], losing, gained)
        BY <2>1, <2>2 DEF MessagesKept, MessageKept
      <3>4. messages'[m].revision = messages[m].revision + 1 \/ messages'[m] = messages[m]
        BY <3>3 DEF Moves
      <3>5. messages[m].revision \in Nat /\ editor.revision \in Nat
        <4>1. messages[m] \in MessageRows /\ editor \in EditRecords
          BY <1>3, <2>1, <3>1, TablesAre DEF RowsInv, EditorInv
        <4> QED
          BY <4>1 DEF MessageRows, EditRecords
      <3> QED
        BY <3>2, <3>4, <3>5
    <2> QED
      BY <1>1, <1>3, <2>1, <2>2 DEF EditorInv, EditorSound
  <1> QED
    BY <1>2, <1>3

-----------------------------------------------------------------------------
(* Steps that write rows.                                                  *)

\* A table in which one row is another.
LEMMA ExceptIs ==
  ASSUME NEW S, NEW s \in Seq(S), NEW t, NEW m \in DOMAIN s, NEW x \in S, t = [s EXCEPT ![m] = x]
  PROVE  /\ t \in Seq(S) /\ Len(t) = Len(s) /\ DOMAIN t = DOMAIN s
         /\ t[m] = x /\ \A k \in DOMAIN s \ {m} : t[k] = s[k]
  <1>1. DOMAIN s = 1 .. Len(s)
    BY LenProperties
  <1> QED
    BY <1>1, ExceptSeq

LEMMA RewriteIs ==
  ASSUME RowsTyped, NEW m \in DOMAIN messages, NEW new \in MessageRows,
         NEW losing \in SUBSET Nat, Rewrite(m, new, losing)
  PROVE  /\ messages' \in Seq(MessageRows \cup {None}) /\ Len(messages') = Len(messages)
         /\ DOMAIN messages' = DOMAIN messages
         /\ ever' \in Seq(SUBSET Nat) /\ Len(ever') = Len(messages')
         /\ dropped' \in Seq(SUBSET Nat) /\ Len(dropped') = Len(messages')
         /\ messages'[m] = new /\ ever'[m] = ever[m] \cup {new.content}
         /\ dropped'[m] = dropped[m] \cup losing
         /\ \A k \in DOMAIN messages \ {m} :
              messages'[k] = messages[k] /\ ever'[k] = ever[k] /\ dropped'[k] = dropped[k]
  <1> DEFINE shown == ever[m] \cup {new.content}
             lost == dropped[m] \cup losing
  <1>1. /\ m \in DOMAIN ever /\ m \in DOMAIN dropped
        /\ DOMAIN ever = DOMAIN messages /\ DOMAIN dropped = DOMAIN messages
        /\ shown \in SUBSET Nat /\ lost \in SUBSET Nat
    <2>1. new.content \in Nat
      BY RowIs
    <2> QED
      BY <2>1, TablesAre
  <1>2. /\ messages' = [messages EXCEPT ![m] = new]
        /\ ever' = [ever EXCEPT ![m] = shown] /\ dropped' = [dropped EXCEPT ![m] = lost]
    BY DEF Rewrite
  <1> HIDE DEF shown, lost
  <1>3. /\ messages' \in Seq(MessageRows \cup {None}) /\ Len(messages') = Len(messages)
        /\ DOMAIN messages' = DOMAIN messages
        /\ messages'[m] = new /\ \A k \in DOMAIN messages \ {m} : messages'[k] = messages[k]
    BY <1>2, ExceptIs DEF RowsTyped
  <1>4. /\ ever' \in Seq(SUBSET Nat) /\ Len(ever') = Len(ever)
        /\ ever'[m] = shown /\ \A k \in DOMAIN ever \ {m} : ever'[k] = ever[k]
    BY <1>1, <1>2, ExceptIs DEF RowsTyped
  <1>5. /\ dropped' \in Seq(SUBSET Nat) /\ Len(dropped') = Len(dropped)
        /\ dropped'[m] = lost /\ \A k \in DOMAIN dropped \ {m} : dropped'[k] = dropped[k]
    BY <1>1, <1>2, ExceptIs DEF RowsTyped
  <1>6. Len(ever) = Len(messages) /\ Len(dropped) = Len(messages)
    BY DEF RowsTyped
  <1> QED
    BY <1>1, <1>3, <1>4, <1>5, <1>6 DEF shown, lost

LEMMA RewriteKeeps ==
  ASSUME RowsInv, NEW m \in DOMAIN messages, messages[m] # None, NEW new,
         NEW losing \in SUBSET Nat, NEW gained \in SUBSET (1 .. lastText'),
         Moves(messages[m], new, losing, gained), Rewrite(m, new, losing),
         lastText' \in Nat, lastText <= lastText', UNCHANGED <<chats, unseeded, switched>>
  PROVE  RowsInv' /\ MessagesKept /\ ChatsKept
  <1>1. new \in MessageRows /\ new.chat = messages[m].chat /\ new.branch = messages[m].branch
    BY DEF Moves
  <1>2. RowsTyped
    BY DEF RowsInv
  <1>3. /\ messages' \in Seq(MessageRows \cup {None}) /\ Len(messages') = Len(messages)
        /\ DOMAIN messages' = DOMAIN messages
        /\ ever' \in Seq(SUBSET Nat) /\ Len(ever') = Len(messages')
        /\ dropped' \in Seq(SUBSET Nat) /\ Len(dropped') = Len(messages')
        /\ messages'[m] = new /\ ever'[m] = ever[m] \cup {new.content}
        /\ dropped'[m] = dropped[m] \cup losing
        /\ \A k \in DOMAIN messages \ {m} :
             messages'[k] = messages[k] /\ ever'[k] = ever[k] /\ dropped'[k] = dropped[k]
    BY <1>1, <1>2, RewriteIs
  <1>4. RowsTyped'
    <2>1. chats' \in Seq(ChatRecords \cup {None})
      BY <1>2 DEF RowsTyped
    <2>2. Greetings <= lastText'
      BY <1>2, ChatBounds DEF RowsTyped
    <2>3. unseeded' \subseteq DOMAIN messages'
      BY <1>2, <1>3 DEF RowsTyped
    <2> QED
      BY <1>3, <2>1, <2>2, <2>3 DEF RowsTyped
  <1>5. ChatsKept
    <2>1. ASSUME NEW c \in DOMAIN chats, chats[c] # None PROVE chats[c].branches >= chats[c].branches
      <3>1. chats[c] \in ChatRecords
        BY <1>2, <2>1, TablesAre
      <3> QED
        BY <3>1 DEF ChatRecords
    <2> QED
      BY <2>1 DEF ChatsKept, ChatKept
  <1>6. MessageKept(m)
    BY <1>3 DEF MessageKept
  <1>7. \A k \in DOMAIN messages \ {m} : MessageKept(k)
    BY <1>2, <1>3, MessageSame
  <1>8. MessagesKept
    BY <1>3, <1>6, <1>7 DEF MessagesKept
  <1>9. \A k \in DOMAIN messages' : MessageSound(k)'
    <2> TAKE k \in DOMAIN messages'
    <2>1. k \in DOMAIN messages
      BY <1>3
    <2>2. messages'[k] # None => chats'[messages[k].chat] # None
      BY <2>1, <1>8 DEF MessagesKept, MessageKept, RowsInv, MessageSound
    <2> QED
      BY <1>4, <1>5, <1>8, <2>1, <2>2, KeptIsSound
  <1>10. \A c \in DOMAIN chats' : ChatSound(c)'
    <2> TAKE c \in DOMAIN chats'
    <2>1. messages[m] # None /\ new # None
      BY <1>1, NoneAssumption
    <2>2. OfBranch(messages', c, chats[c].active) = OfBranch(messages, c, chats[c].active)
      BY <1>1, <1>3, <2>1 DEF OfBranch, Live
    <2>3. ChatSound(c)
      BY DEF RowsInv
    <2> QED
      BY <2>2, <2>3, ChatSame
  <1> QED
    BY <1>4, <1>5, <1>8, <1>9, <1>10 DEF RowsInv

LEMMA StillKeeps ==
  ASSUME RowsInv, UNCHANGED <<messages, ever, dropped, lastText, unseeded, chats, switched>>
  PROVE  RowsInv' /\ MessagesKept /\ ChatsKept
  <1>1. RowsTyped /\ RowsTyped'
    BY DEF RowsInv, RowsTyped
  <1>2. lastText <= lastText'
    BY <1>1 DEF RowsTyped
  <1>3. MessagesKept
    BY <1>1, <1>2, MessageSame DEF MessagesKept
  <1>4. ChatsKept
    <2>1. ASSUME NEW c \in DOMAIN chats, chats[c] # None PROVE chats[c].branches >= chats[c].branches
      <3>1. chats[c] \in ChatRecords
        BY <1>1, <2>1, TablesAre
      <3> QED
        BY <3>1 DEF ChatRecords
    <2> QED
      BY <2>1 DEF ChatsKept, ChatKept
  <1>5. \A m \in DOMAIN messages' : MessageSound(m)'
    BY DEF RowsInv, MessageSound, Texts, Hole
  <1>6. \A c \in DOMAIN chats' : ChatSound(c)'
    BY DEF RowsInv, ChatSound, Count, OfBranch, Live
  <1> QED
    BY <1>1, <1>3, <1>4, <1>5, <1>6 DEF RowsInv

\* Audits go with their chat.
AuditsKept ==
    /\ audits' \in Seq(AuditRecords \cup {None}) /\ Len(audits') = Len(chats')
    /\ \A c \in DOMAIN audits' :
         audits'[c] = None \/ /\ c \in DOMAIN audits /\ audits'[c] = audits[c]
                              /\ chats'[c] # None

\* Steps outside the generations.
LEMMA RestKeeps ==
  ASSUME ChatsInv, RowsInv', MessagesKept, ChatsKept, AuditsKept,
         UNCHANGED <<gens, saved, blind>>, editor' = editor \/ editor' = None
  PROVE  ChatsInv'
  <1>1. RowsInv /\ RowsTyped' /\ GensInv /\ AuditsInv /\ EditorInv
    BY DEF ChatsInv, RowsInv
  <1>2. EditorInv'
    BY <1>1, EditorStays
  <1>3. GensInv'
    <2>1. \A g \in Gens : GenSound(g)'
      BY <1>1, GenStays DEF GensInv
    <2> QED
      BY <1>1, <2>1 DEF GensInv
  <1>4. AuditsInv'
    <2>1. ASSUME NEW c \in DOMAIN audits' PROVE AuditSound(c)'
      <3>1. CASE audits'[c] = None
        BY <3>1 DEF AuditSound
      <3>2. CASE audits'[c] # None
        <4>1. c \in DOMAIN audits /\ audits'[c] = audits[c] /\ chats'[c] # None
          BY <2>1, <3>2 DEF AuditsKept
        <4>2. AuditSound(c)
          BY <1>1, <4>1 DEF AuditsInv
        <4> QED
          BY <4>1, <4>2, AuditStays
      <3> QED
        BY <3>1, <3>2
    <2> QED
      BY <2>1 DEF AuditsInv, AuditsKept
  <1> QED
    BY <1>2, <1>3, <1>4 DEF ChatsInv

\* Audits and chats are left alone.
LEMMA AuditsSame ==
  ASSUME ChatsInv, UNCHANGED <<audits, chats>>
  PROVE  AuditsKept
  BY DEF ChatsInv, AuditsInv, AuditsKept, AuditSound

LEMMA TextsAre ==
  ASSUME RowsInv, NEW m \in DOMAIN messages, messages[m] # None
  PROVE  /\ messages[m] \in MessageRows /\ messages[m].content \in 1 .. lastText
         /\ Texts(messages[m]) \subseteq 1 .. lastText /\ lastText \in Nat
  <1>1. messages[m] \in MessageRows /\ lastText \in Nat
    BY TablesAre DEF RowsInv, RowsTyped
  <1>2. Texts(messages[m]) \subseteq 1 .. lastText
    BY DEF RowsInv, MessageSound
  <1>3. messages[m].content \in Texts(messages[m])
    BY DEF Texts
  <1> QED
    BY <1>1, <1>2, <1>3

LEMMA EditUnconditionallyKeeps ==
  ASSUME ChatsInv, NEW m \in DOMAIN messages, EditUnconditionally(m)
  PROVE  ChatsInv'
  <1>1. /\ RowsInv /\ messages[m] # None
        /\ UNCHANGED <<chats, gens, audits, editor, unseeded, switched, blind, saved>>
    BY DEF ChatsInv, EditUnconditionally
  <1>2. messages[m] \in MessageRows /\ messages[m].content \in 1 .. lastText /\ lastText \in Nat
    BY <1>1, TextsAre
  <1>3. PICK text \in 1 .. lastText' :
          /\ Rewrite(m, Patched(messages[m], text, TRUE), {})
          /\ lastText' \in Nat /\ lastText <= lastText'
    <2>1. CASE Fresh /\ Rewrite(m, Patched(messages[m], lastText + 1, TRUE), {})
      <3>1. lastText + 1 \in 1 .. lastText' /\ lastText' \in Nat /\ lastText <= lastText'
        BY <1>2, <2>1 DEF Fresh
      <3> QED
        BY <2>1, <3>1
    <2>2. CASE /\ Rewrite(m, Patched(messages[m], messages[m].content, TRUE), {})
               /\ UNCHANGED lastText
      <3>1. messages[m].content \in 1 .. lastText' /\ lastText' \in Nat /\ lastText <= lastText'
        BY <1>2, <2>2
      <3> QED
        BY <2>2, <3>1
    <2> QED
      BY <2>1, <2>2 DEF EditUnconditionally
  <1>4. Moves(messages[m], Patched(messages[m], text, TRUE), {}, {text})
    <2>1. text \in Nat
      BY <1>3
    <2> QED
      BY <1>2, <2>1, EditIs
  <1>5. RowsInv' /\ MessagesKept /\ ChatsKept
    BY <1>1, <1>3, <1>4, RewriteKeeps
  <1> QED
    BY <1>1, <1>5, AuditsSame, RestKeeps

LEMMA SwipeGreetingKeeps ==
  ASSUME ChatsInv, NEW m \in DOMAIN messages, SwipeGreeting(m)
  PROVE  ChatsInv'
  <1>1. /\ RowsInv /\ messages[m] # None
        /\ UNCHANGED <<chats, gens, audits, editor, lastText, unseeded, switched, blind, saved>>
    BY DEF ChatsInv, SwipeGreeting
  <1>2. messages[m] \in MessageRows /\ messages[m].content \in 1 .. lastText /\ lastText \in Nat
    BY <1>1, TextsAre
  <1>3. PICK text \in 1 .. Greetings :
          Rewrite(m, Patched(messages[m], text, FALSE), {messages[m].content})
    BY DEF SwipeGreeting
  <1>4. /\ text \in 1 .. lastText' /\ text \in Nat /\ lastText' \in Nat /\ lastText <= lastText'
        /\ {messages[m].content} \in SUBSET Nat /\ {text} \in SUBSET (1 .. lastText')
    BY <1>1, <1>2, ChatBounds DEF RowsInv, RowsTyped
  <1>5. Moves(messages[m], Patched(messages[m], text, FALSE), {messages[m].content}, {text})
    BY <1>2, <1>4, EditIs
  <1>6. RowsInv' /\ MessagesKept /\ ChatsKept
    BY <1>1, <1>2, <1>3, <1>4, <1>5, RewriteKeeps
  <1> QED
    BY <1>1, <1>6, AuditsSame, RestKeeps

LEMMA RestoreRevisionKeeps ==
  ASSUME ChatsInv, NEW m \in DOMAIN messages, RestoreRevision(m)
  PROVE  ChatsInv'
  <1>1. /\ RowsInv /\ messages[m] # None
        /\ UNCHANGED <<chats, gens, audits, editor, lastText, unseeded, switched, blind, saved>>
    BY DEF ChatsInv, RestoreRevision
  <1>2. messages[m] \in MessageRows /\ lastText \in Nat
    BY <1>1, TextsAre
  <1>3. PICK i \in DOMAIN messages[m].revisions : Rewrite(m, Restored(messages[m], i), {})
    BY DEF RestoreRevision
  <1>4. Moves(messages[m], Restored(messages[m], i), {}, {})
    BY <1>2, RestoredIs
  <1>5. lastText' \in Nat /\ lastText <= lastText'
    BY <1>1, <1>2
  <1>6. RowsInv' /\ MessagesKept /\ ChatsKept
    BY <1>1, <1>3, <1>4, <1>5, RewriteKeeps
  <1> QED
    BY <1>1, <1>6, AuditsSame, RestKeeps

LEMMA SwipeVariantKeeps ==
  ASSUME ChatsInv, NEW m \in DOMAIN messages, SwipeVariant(m)
  PROVE  ChatsInv'
  <1>1. /\ RowsInv /\ messages[m] # None /\ ~Collides(messages[m])
        /\ UNCHANGED <<chats, gens, audits, editor, lastText, unseeded, switched, blind, saved>>
    BY DEF ChatsInv, SwipeVariant
  <1>2. messages[m] \in MessageRows /\ lastText \in Nat
    BY <1>1, TextsAre
  <1>3. PICK p \in DOMAIN messages[m].variants : Rewrite(m, Swiped(messages[m], p), {})
    BY DEF SwipeVariant
  <1>4. Moves(messages[m], Swiped(messages[m], p), {}, {})
    BY <1>1, <1>2, SwipedIs
  <1>5. lastText' \in Nat /\ lastText <= lastText'
    BY <1>1, <1>2
  <1>6. RowsInv' /\ MessagesKept /\ ChatsKept
    BY <1>1, <1>3, <1>4, <1>5, RewriteKeeps
  <1> QED
    BY <1>1, <1>6, AuditsSame, RestKeeps

LEMMA EditAsReadKeeps ==
  ASSUME ChatsInv, EditAsRead
  PROVE  ChatsInv'
  <1> DEFINE m == editor.message
             current == messages[m] # None
                          /\ (messages[m] # None => messages[m].revision = editor.revision)
  <1>1. /\ RowsInv /\ editor # None /\ editor' = None /\ m \in DOMAIN messages
        /\ UNCHANGED <<chats, gens, audits, unseeded, switched, saved>>
    BY DEF ChatsInv, EditAsRead, EditorInv, EditorSound
  <1>2. CASE current
    <2>1. /\ Fresh /\ Rewrite(m, Patched(messages[m], lastText + 1, TRUE), {})
          /\ blind' = IF messages[m].content # editor.content THEN blind \cup {m} ELSE blind
      BY <1>2 DEF EditAsRead
    <2>2. messages[m] \in MessageRows /\ lastText \in Nat
      BY <1>1, <1>2, TextsAre
    <2>3. lastText + 1 \in 1 .. lastText' /\ lastText' \in Nat /\ lastText <= lastText'
      BY <2>1, <2>2 DEF Fresh
    <2>4. Moves(messages[m], Patched(messages[m], lastText + 1, TRUE), {}, {lastText + 1})
      <3>1. lastText + 1 \in Nat
        BY <2>2
      <3> QED
        BY <2>2, <3>1, EditIs
    <2>5. blind' = blind
      BY <1>1, <1>2, <2>1 DEF ChatsInv, EditorInv, EditorSound
    <2>6. RowsInv' /\ MessagesKept /\ ChatsKept
      BY <1>1, <1>2, <2>1, <2>3, <2>4, RewriteKeeps
    <2> QED
      BY <1>1, <2>5, <2>6, AuditsSame, RestKeeps
  <1>3. CASE ~current
    <2>1. UNCHANGED <<messages, lastText, ever, dropped, blind>>
      BY <1>3 DEF EditAsRead
    <2>2. RowsInv' /\ MessagesKept /\ ChatsKept
      BY <1>1, <2>1, StillKeeps
    <2> QED
      BY <1>1, <2>1, <2>2, AuditsSame, RestKeeps
  <1> QED
    BY <1>2, <1>3

-----------------------------------------------------------------------------
(* Steps that write chats.                                                 *)

LEMMA ChatIs ==
  ASSUME RowsInv, NEW c \in DOMAIN chats, chats[c] # None
  PROVE  /\ chats[c] \in ChatRecords
         /\ chats[c].deleted \in BOOLEAN /\ chats[c].branches \in Nat
         /\ chats[c].active \in Nat \cup {None} /\ chats[c].count \in Nat
         /\ chats[c].active \in (1 .. chats[c].branches) \cup {None}
         /\ c \notin switched => /\ chats[c].active # None
                                 /\ chats[c].count = Count(messages, c, chats[c].active)
  <1>1. chats[c] \in ChatRecords
    BY TablesAre DEF RowsInv
  <1> QED
    BY <1>1 DEF ChatRecords, RowsInv, ChatSound

ChatWritten(c, chat) == chats' = [chats EXCEPT ![c] = chat]

\* What a step may do to a chat: it counts again unless the branch was moved.
ChatMoves(c, chat) ==
    /\ chat \in ChatRecords /\ chat.branches >= chats[c].branches
    /\ chat.active \in (1 .. chat.branches) \cup {None}
    /\ c \notin switched' => /\ c \notin switched /\ chat.active = chats[c].active
                             /\ chat.count = Count(messages', c, chat.active)

LEMMA ChatWrittenIs ==
  ASSUME RowsTyped, NEW c \in DOMAIN chats, NEW chat \in ChatRecords \cup {None},
         ChatWritten(c, chat)
  PROVE  /\ chats' \in Seq(ChatRecords \cup {None}) /\ Len(chats') = Len(chats)
         /\ DOMAIN chats' = DOMAIN chats /\ chats'[c] = chat
         /\ \A d \in DOMAIN chats \ {c} : chats'[d] = chats[d]
  BY ExceptIs DEF RowsTyped, ChatWritten

LEMMA ChatUpdateKeeps ==
  ASSUME RowsInv, RowsTyped', MessagesKept, NEW c \in DOMAIN chats, chats[c] # None, NEW chat,
         ChatWritten(c, chat), ChatMoves(c, chat), switched \subseteq switched',
         \A d \in DOMAIN chats \ {c} : OfBranch(messages', d, chats[d].active)
                                         = OfBranch(messages, d, chats[d].active),
         \A m \in DOMAIN messages' \ DOMAIN messages : MessageSound(m)'
  PROVE  RowsInv' /\ ChatsKept
  <1>1. /\ DOMAIN chats' = DOMAIN chats /\ chats'[c] = chat /\ chat # None
        /\ \A d \in DOMAIN chats \ {c} : chats'[d] = chats[d]
    <2>1. chat \in ChatRecords
      BY DEF ChatMoves
    <2> QED
      BY <2>1, ChatWrittenIs, NoneAssumption DEF RowsInv
  <1>2. \A d \in DOMAIN chats : chats[d] # None => chats[d].branches \in Nat
    BY ChatIs
  <1>3. ChatKept(c)
    BY <1>1 DEF ChatKept, ChatMoves
  <1>4. \A d \in DOMAIN chats \ {c} : ChatKept(d)
    <2> TAKE d \in DOMAIN chats \ {c}
    <2>1. chats'[d] = chats[d] /\ (d \in switched => d \in switched')
      BY <1>1
    <2>2. chats[d] # None => chats[d].branches >= chats[d].branches
      BY <1>2
    <2> QED
      BY <2>1, <2>2 DEF ChatKept
  <1>5. ChatsKept
    BY <1>1, <1>3, <1>4 DEF ChatsKept
  <1>6. ASSUME NEW m \in DOMAIN messages' PROVE MessageSound(m)'
    <2>1. CASE m \in DOMAIN messages
      <3>1. messages'[m] # None => chats'[messages[m].chat] # None
        <4>1. ASSUME messages'[m] # None
              PROVE  messages[m].chat \in DOMAIN chats /\ chats[messages[m].chat] # None
          BY <2>1, <4>1 DEF MessagesKept, MessageKept, RowsInv, MessageSound
        <4> QED
          BY <1>1, <4>1
      <3> QED
        BY <1>5, <2>1, <3>1, KeptIsSound
    <2>2. CASE m \notin DOMAIN messages
      BY <1>6, <2>2
    <2> QED
      BY <2>1, <2>2
  <1>7. ASSUME NEW d \in DOMAIN chats' PROVE ChatSound(d)'
    <2>1. CASE d = c
      <3>1. /\ chats'[c].active \in (1 .. chats'[c].branches) \cup {None}
            /\ c \notin switched' => /\ chats'[c].active # None
                                     /\ chats'[c].count = Count(messages', c, chats'[c].active)
        BY <1>1, ChatIs DEF ChatMoves
      <3> QED
        BY <2>1, <3>1 DEF ChatSound
    <2>2. CASE d # c
      <3>1. d \in DOMAIN chats \ {c} /\ ChatSound(d) /\ chats'[d] = chats[d]
        BY <1>1, <1>7, <2>2 DEF RowsInv
      <3>2. OfBranch(messages', d, chats[d].active) = OfBranch(messages, d, chats[d].active)
        BY <3>1
      <3>3. OfBranch(messages, d, chats[d].active)' = OfBranch(messages, d, chats[d].active)
        BY <3>1, <3>2
      <3> QED
        BY <3>1, <3>3, ChatSame
    <2> QED
      BY <2>1, <2>2
  <1> QED
    BY <1>5, <1>6, <1>7 DEF RowsInv

\* Rows stay as they are.
LEMMA RowsSame ==
  ASSUME RowsInv, UNCHANGED <<messages, ever, dropped, lastText, unseeded>>,
         chats' \in Seq(ChatRecords \cup {None})
  PROVE  /\ RowsTyped' /\ MessagesKept /\ DOMAIN messages' \ DOMAIN messages = {}
         /\ \A c, b : OfBranch(messages', c, b) = OfBranch(messages, c, b)
         /\ \A c, b : Count(messages', c, b) = Count(messages, c, b)
  <1>1. RowsTyped /\ RowsTyped'
    BY DEF RowsInv, RowsTyped
  <1>2. lastText <= lastText'
    BY <1>1 DEF RowsTyped
  <1>3. MessagesKept
    BY <1>1, <1>2, MessageSame DEF MessagesKept
  <1> QED
    BY <1>1, <1>3 DEF OfBranch, Live, Count

\* The audits when no chat comes or goes.
LEMMA AuditsKeep ==
  ASSUME ChatsInv, Len(chats') = Len(chats), UNCHANGED audits,
         \A c \in DOMAIN chats : chats[c] # None => chats'[c] # None
  PROVE  AuditsKept
  <1>1. DOMAIN audits = DOMAIN chats
    BY LenProperties DEF ChatsInv, AuditsInv, RowsInv, RowsTyped
  <1> QED
    BY <1>1 DEF ChatsInv, AuditsInv, AuditsKept, AuditSound

LEMMA PatchActiveBranchKeeps ==
  ASSUME ChatsInv, NEW c \in DOMAIN chats, PatchActiveBranch(c)
  PROVE  ChatsInv'
  <1>1. /\ RowsInv /\ chats[c] # None /\ switched' = switched \cup {c}
        /\ UNCHANGED <<messages, gens, audits, editor, lastText, ever, dropped, unseeded, blind, saved>>
    BY DEF ChatsInv, PatchActiveBranch, Exists
  <1>2. PICK b \in (1 .. chats[c].branches) \cup {None} : chats' = [chats EXCEPT ![c].active = b]
    BY DEF PatchActiveBranch
  <1> DEFINE chat == [chats[c] EXCEPT !.active = b]
  <1>3. chats[c] \in ChatRecords /\ chats[c].branches \in Nat
    BY <1>1, ChatIs
  <1>4. ChatWritten(c, chat)
    BY <1>2 DEF ChatWritten
  <1>5. /\ chat \in ChatRecords /\ chat.branches = chats[c].branches /\ chat.active = b
    BY <1>2, <1>3 DEF ChatRecords
  <1> HIDE DEF chat
  <1>6. ChatMoves(c, chat)
    BY <1>1, <1>2, <1>3, <1>5 DEF ChatMoves
  <1>7. /\ chats' \in Seq(ChatRecords \cup {None}) /\ Len(chats') = Len(chats)
        /\ \A d \in DOMAIN chats : chats[d] # None => chats'[d] # None
    BY <1>1, <1>4, <1>5, ChatWrittenIs, NoneAssumption DEF RowsInv
  <1>8. RowsInv' /\ MessagesKept /\ ChatsKept
    BY <1>1, <1>4, <1>6, <1>7, RowsSame, ChatUpdateKeeps
  <1> QED
    BY <1>1, <1>7, <1>8, AuditsKeep, RestKeeps

LEMMA TrashKeeps ==
  ASSUME ChatsInv, NEW c \in DOMAIN chats, Trash(c)
  PROVE  ChatsInv'
  <1> DEFINE chat == [chats[c] EXCEPT !.deleted = ~chats[c].deleted]
  <1>1. /\ RowsInv /\ chats[c] # None
        /\ UNCHANGED <<messages, gens, audits, editor, lastText, ever, dropped, unseeded, switched,
                       blind, saved>>
    BY DEF ChatsInv, Trash, Exists, history
  <1>2. ChatWritten(c, chat)
    BY DEF Trash, ChatWritten
  <1>3. /\ chats[c] \in ChatRecords /\ chats[c].branches \in Nat
        /\ chats[c].active \in (1 .. chats[c].branches) \cup {None}
        /\ c \notin switched => chats[c].count = Count(messages, c, chats[c].active)
    BY <1>1, ChatIs
  <1>4. /\ chat \in ChatRecords /\ chat.branches = chats[c].branches
        /\ chat.active = chats[c].active /\ chat.count = chats[c].count
    BY <1>3 DEF ChatRecords
  <1> HIDE DEF chat
  <1>5. Count(messages', c, chat.active) = Count(messages, c, chat.active)
    BY <1>1
  <1>6. ChatMoves(c, chat)
    BY <1>1, <1>3, <1>4, <1>5 DEF ChatMoves
  <1>7. /\ chats' \in Seq(ChatRecords \cup {None}) /\ Len(chats') = Len(chats)
        /\ \A d \in DOMAIN chats : chats[d] # None => chats'[d] # None
    BY <1>1, <1>2, <1>4, ChatWrittenIs, NoneAssumption DEF RowsInv
  <1>8. RowsInv' /\ MessagesKept /\ ChatsKept
    BY <1>1, <1>2, <1>6, <1>7, RowsSame, ChatUpdateKeeps
  <1> QED
    BY <1>1, <1>7, <1>8, AuditsKeep, RestKeeps

LEMMA ReadForEditKeeps ==
  ASSUME ChatsInv, NEW m \in DOMAIN messages, ReadForEdit(m)
  PROVE  ChatsInv'
  <1>1. /\ RowsInv /\ GensInv /\ AuditsInv /\ NoBlindEdit /\ messages[m] # None
        /\ UNCHANGED <<chats, messages, gens, audits, lastText, ever, dropped, unseeded, switched,
                       blind, saved>>
    BY DEF ChatsInv, EditorInv, ReadForEdit, history
  <1>2. RowsInv' /\ MessagesKept /\ ChatsKept
    BY <1>1, StillKeeps
  <1>3. messages[m] \in MessageRows /\ messages[m].revision \in Nat /\ messages[m].content \in Nat
    <2>1. messages[m] \in MessageRows
      BY <1>1, TextsAre
    <2> QED
      BY <2>1, RowIs
  <1>4. m \in Nat
    BY <1>1, TablesAre DEF RowsInv
  <1>5. editor' = [message |-> m, revision |-> messages[m].revision, content |-> messages[m].content]
    BY DEF ReadForEdit
  <1>6. EditorInv'
    <2>1. editor' \in EditRecords
      BY <1>3, <1>4, <1>5 DEF EditRecords
    <2>2. /\ editor'.message = m /\ editor'.revision = messages[m].revision
          /\ editor'.content = messages[m].content
      BY <1>5
    <2>3. messages' = messages /\ NoBlindEdit'
      BY <1>1 DEF NoBlindEdit
    <2>4. editor'.message \in DOMAIN messages'
      BY <2>2, <2>3
    <2>5. LET row == messages'[editor'.message] IN
          row # None => /\ editor'.revision <= row.revision
                        /\ editor'.revision = row.revision => editor'.content = row.content
      BY <1>3, <2>2, <2>3
    <2> QED
      BY <2>1, <2>3, <2>4, <2>5 DEF EditorInv, EditorSound
  <1>7. GensInv'
    BY <1>1 DEF GensInv, GenSound, Runs
  <1>8. AuditsInv'
    BY <1>1 DEF AuditsInv, AuditSound
  <1> QED
    BY <1>2, <1>6, <1>7, <1>8 DEF ChatsInv

LEMMA CountedIs ==
  ASSUME NEW chat \in ChatRecords, NEW n \in Nat
  PROVE  LET counted == [chat EXCEPT !.count = n] IN
         /\ counted \in ChatRecords /\ counted.branches = chat.branches
         /\ counted.active = chat.active /\ counted.count = n
  BY DEF ChatRecords

LEMMA WithBranchIs ==
  ASSUME RowsInv, NEW c \in DOMAIN chats, chats[c] # None
  PROVE  LET chat == WithBranch(chats[c]) IN
         /\ chat \in ChatRecords /\ chat.branches >= chats[c].branches
         /\ chat.branches \in Nat /\ chat.active \in Nat
         /\ chat.active \in 1 .. chat.branches
         /\ c \notin switched => chat = chats[c]
  <1>1. /\ chats[c] \in ChatRecords /\ chats[c].branches \in Nat
        /\ chats[c].active \in (1 .. chats[c].branches) \cup {None}
        /\ c \notin switched => chats[c].active # None
    BY ChatIs
  <1>2. CASE chats[c].active # None
    BY <1>1, <1>2 DEF WithBranch
  <1>3. CASE chats[c].active = None
    <2> DEFINE n == chats[c].branches + 1
               chat == [chats[c] EXCEPT !.active = n, !.branches = n]
    <2>1. n \in Nat /\ n >= chats[c].branches /\ n \in 1 .. n
      BY <1>1
    <2>2. WithBranch(chats[c]) = chat
      BY <1>3 DEF WithBranch
    <2> HIDE DEF n
    <2>3. chat \in ChatRecords /\ chat.active = n /\ chat.branches = n
      BY <1>1, <2>1 DEF ChatRecords
    <2> HIDE DEF chat
    <2> QED
      BY <1>1, <1>3, <2>1, <2>2, <2>3
  <1> QED
    BY <1>2, <1>3

LEMMA DeleteMessageKeeps ==
  ASSUME ChatsInv, NEW m \in DOMAIN messages, DeleteMessage(m)
  PROVE  ChatsInv'
  <1>1. /\ RowsInv /\ RowsTyped /\ messages[m] # None
        /\ UNCHANGED <<gens, audits, editor, lastText, ever, dropped, unseeded, switched,
                       blind, saved>>
    BY DEF ChatsInv, RowsInv, DeleteMessage, history
  <1> DEFINE c == messages[m].chat
             n == Count(messages', c, chats[c].active)
             chat == IF chats[c].active = None THEN chats[c] ELSE [chats[c] EXCEPT !.count = n]
  <1>2. c \in DOMAIN chats /\ chats[c] # None
    BY <1>1 DEF RowsInv, MessageSound
  <1>3. /\ messages' \in Seq(MessageRows \cup {None}) /\ Len(messages') = Len(messages)
        /\ DOMAIN messages' = DOMAIN messages
        /\ messages'[m] = None /\ \A k \in DOMAIN messages \ {m} : messages'[k] = messages[k]
    BY <1>1, ExceptIs DEF DeleteMessage, RowsTyped
  <1>4. n \in Nat
    BY <1>3, CountIs
  <1>5. /\ chats[c] \in ChatRecords /\ chats[c].branches \in Nat
        /\ chats[c].active \in (1 .. chats[c].branches) \cup {None}
        /\ c \notin switched => chats[c].active # None
    BY <1>1, <1>2, ChatIs
  <1>6. ChatWritten(c, chat)
    <2>1. CASE chats[c].active = None
      <3>1. chats' = chats
        BY <2>1 DEF DeleteMessage
      <3>2. [chats EXCEPT ![c] = chats[c]] = chats
        <4>1. chats \in [1 .. Len(chats) -> ChatRecords \cup {None}]
          BY <1>1, LenProperties DEF RowsTyped
        <4> HIDE DEF c
        <4> QED
          BY <1>2, <4>1
      <3> QED
        BY <2>1, <3>1, <3>2 DEF ChatWritten
    <2>2. CASE chats[c].active # None
      BY <2>2 DEF DeleteMessage, SetCount, ChatWritten
    <2> QED
      BY <2>1, <2>2
  <1>7. /\ chat \in ChatRecords /\ chat.branches = chats[c].branches
        /\ chat.active = chats[c].active
        /\ chats[c].active # None => chat.count = Count(messages', c, chat.active)
    <2> HIDE DEF n
    <2>1. /\ [chats[c] EXCEPT !.count = n] \in ChatRecords
          /\ [chats[c] EXCEPT !.count = n].branches = chats[c].branches
          /\ [chats[c] EXCEPT !.count = n].active = chats[c].active
          /\ [chats[c] EXCEPT !.count = n].count = n
      BY <1>4, <1>5, CountedIs
    <2> QED
      BY <1>5, <2>1 DEF n
  <1> HIDE DEF chat
  <1>8. ChatMoves(c, chat)
    BY <1>1, <1>5, <1>7 DEF ChatMoves
  <1>9. /\ chats' \in Seq(ChatRecords \cup {None}) /\ Len(chats') = Len(chats)
        /\ \A d \in DOMAIN chats : chats[d] # None => chats'[d] # None
    BY <1>1, <1>2, <1>6, <1>7, ChatWrittenIs, NoneAssumption
  <1>10. RowsTyped'
    BY <1>1, <1>3, <1>9 DEF RowsTyped
  <1>11. MessagesKept
    <2>1. \A k \in DOMAIN messages \ {m} : MessageKept(k)
      BY <1>1, <1>3, MessageSame
    <2>2. MessageKept(m)
      BY <1>3 DEF MessageKept
    <2>3. lastText <= lastText'
      BY <1>1 DEF RowsTyped
    <2> QED
      BY <1>1, <1>3, <2>1, <2>2, <2>3 DEF MessagesKept
  <1>12. \A d \in DOMAIN chats \ {c} : OfBranch(messages', d, chats[d].active)
                                         = OfBranch(messages, d, chats[d].active)
    BY <1>3 DEF OfBranch, Live
  <1>13. RowsInv' /\ ChatsKept
    BY <1>1, <1>2, <1>3, <1>6, <1>8, <1>10, <1>11, <1>12, ChatUpdateKeeps
  <1> QED
    BY <1>1, <1>9, <1>11, <1>13, AuditsKeep, RestKeeps

\* A purged chat takes its messages and its audit with it.
LEMMA PurgeKeeps ==
  ASSUME ChatsInv, NEW c \in DOMAIN chats, Purge(c)
  PROVE  ChatsInv'
  <1>1. /\ RowsInv /\ RowsTyped /\ AuditsInv /\ chats[c] # None /\ switched' = switched \ {c}
        /\ UNCHANGED <<gens, editor, lastText, ever, dropped, unseeded, blind, saved>>
    BY DEF ChatsInv, RowsInv, Purge, Exists
  <1>2. /\ chats' \in Seq(ChatRecords \cup {None}) /\ Len(chats') = Len(chats)
        /\ DOMAIN chats' = DOMAIN chats /\ chats'[c] = None
        /\ \A d \in DOMAIN chats \ {c} : chats'[d] = chats[d]
    <2>1. ChatWritten(c, None)
      BY DEF Purge, ChatWritten
    <2> QED
      BY <1>1, <2>1, ChatWrittenIs
  <1>3. /\ messages' \in Seq(MessageRows \cup {None}) /\ Len(messages') = Len(messages)
        /\ DOMAIN messages' = DOMAIN messages
        /\ \A m \in DOMAIN messages :
             messages'[m] = IF messages[m] # None /\ messages[m].chat = c THEN None ELSE messages[m]
    <2>1. Len(messages) \in Nat /\ DOMAIN messages = 1 .. Len(messages)
          /\ \A m \in DOMAIN messages : messages[m] \in MessageRows \cup {None}
      BY <1>1, TablesAre
    <2>2. messages' = [m \in DOMAIN messages |->
                         IF messages[m] # None /\ messages[m].chat = c THEN None ELSE messages[m]]
      BY DEF Purge
    <2>3. messages' \in [1 .. Len(messages) -> MessageRows \cup {None}]
      BY <2>1, <2>2
    <2>4. messages' \in Seq(MessageRows \cup {None})
      BY <2>1, <2>3, SeqDef
    <2>5. DOMAIN messages' = 1 .. Len(messages') /\ Len(messages') \in Nat
      BY <2>4, LenProperties
    <2>6. DOMAIN messages' = DOMAIN messages
      BY <2>1, <2>3
    <2>7. \A m \in DOMAIN messages :
            messages'[m] = IF messages[m] # None /\ messages[m].chat = c THEN None ELSE messages[m]
      BY <2>2
    <2>8. Len(messages') = Len(messages)
      <3> DEFINE a == Len(messages)
                 b == Len(messages')
      <3>1. a \in Nat /\ b \in Nat /\ 1 .. a = 1 .. b
        BY <2>1, <2>5, <2>6
      <3> HIDE DEF a, b
      <3>2. a = b
        BY <3>1
      <3> QED
        BY <3>2 DEF a, b
    <2> QED
      BY <2>4, <2>6, <2>7, <2>8
  <1>4. /\ audits' \in Seq(AuditRecords \cup {None}) /\ Len(audits') = Len(audits)
        /\ DOMAIN audits' = DOMAIN audits /\ DOMAIN audits = DOMAIN chats
        /\ audits'[c] = None /\ \A d \in DOMAIN audits \ {c} : audits'[d] = audits[d]
    <2>1. DOMAIN audits = DOMAIN chats
      BY <1>1, LenProperties DEF AuditsInv, RowsTyped
    <2>2. audits' = [audits EXCEPT ![c] = None]
      BY DEF Purge
    <2> QED
      BY <1>1, <2>1, <2>2, ExceptIs DEF AuditsInv
  <1>5. RowsTyped'
    BY <1>1, <1>2, <1>3 DEF RowsTyped
  <1>6. MessagesKept
    <2>1. ASSUME NEW m \in DOMAIN messages PROVE MessageKept(m)
      <3>1. CASE messages'[m] = None
        BY <3>1 DEF MessageKept
      <3>2. CASE messages'[m] # None
        <4>1. messages'[m] = messages[m] /\ ever'[m] = ever[m] /\ dropped'[m] = dropped[m]
          BY <1>1, <1>3, <3>2
        <4> QED
          BY <1>1, <4>1, MessageSame
      <3> QED
        BY <3>1, <3>2
    <2>2. lastText <= lastText'
      BY <1>1 DEF RowsTyped
    <2> QED
      BY <1>1, <1>3, <2>1, <2>2 DEF MessagesKept
  <1>7. ChatsKept
    <2>1. \A d \in DOMAIN chats : chats[d] # None => chats[d].branches \in Nat
      BY <1>1, ChatIs
    <2> QED
      BY <1>1, <1>2, <2>1 DEF ChatsKept, ChatKept
  <1>8. ASSUME NEW m \in DOMAIN messages' PROVE MessageSound(m)'
    <2>1. m \in DOMAIN messages
      BY <1>3, <1>8
    <2>2. messages'[m] # None => chats'[messages[m].chat] # None
      <3>1. ASSUME messages'[m] # None
            PROVE  /\ messages[m].chat # c /\ messages[m].chat \in DOMAIN chats
                   /\ chats[messages[m].chat] # None
        BY <1>1, <1>3, <2>1, <3>1 DEF RowsInv, MessageSound
      <3> QED
        BY <1>2, <3>1
    <2> QED
      BY <1>1, <1>5, <1>6, <1>7, <2>1, <2>2, KeptIsSound
  <1>9. ASSUME NEW d \in DOMAIN chats' PROVE ChatSound(d)'
    <2>1. CASE d = c
      BY <1>2, <2>1 DEF ChatSound
    <2>2. CASE d # c
      <3>1. d \in DOMAIN chats /\ ChatSound(d) /\ chats'[d] = chats[d]
            /\ (d \in switched => d \in switched')
        BY <1>1, <1>2, <1>9, <2>2 DEF RowsInv
      <3>2. OfBranch(messages', d, chats[d].active) = OfBranch(messages, d, chats[d].active)
        BY <1>3, <2>2 DEF OfBranch, Live
      <3>3. OfBranch(messages, d, chats[d].active)' = OfBranch(messages, d, chats[d].active)
        BY <3>1, <3>2
      <3> QED
        BY <3>1, <3>3, ChatSame
    <2> QED
      BY <2>1, <2>2
  <1>10. RowsInv'
    BY <1>5, <1>8, <1>9 DEF RowsInv
  <1>11. AuditsKept
    <2>1. \A d \in DOMAIN audits \ {c} : audits[d] # None => chats'[d] # None
      BY <1>1, <1>2, <1>4 DEF AuditsInv, AuditSound
    <2> QED
      BY <1>1, <1>2, <1>4, <2>1 DEF AuditsKept, AuditsInv
  <1> QED
    BY <1>1, <1>6, <1>7, <1>10, <1>11, RestKeeps

\* One more message.
LEMMA InsertIs ==
  ASSUME RowsInv, NEW row \in MessageRows, Insert(<<row>>), lastText' \in Nat,
         lastText <= lastText', chats' \in Seq(ChatRecords \cup {None}),
         unseeded' \in {unseeded, unseeded \cup {Len(messages) + 1}}
  PROVE  LET n == Len(messages) + 1 IN
         /\ RowsTyped' /\ MessagesKept
         /\ n \in Nat /\ n \notin DOMAIN messages /\ DOMAIN messages' = DOMAIN messages \cup {n}
         /\ \A m \in DOMAIN messages : messages'[m] = messages[m]
         /\ messages'[n] = row /\ ever'[n] = {row.content} /\ dropped'[n] = {}
         /\ messages' = Append(messages, row)
         /\ \A c, b : c # row.chat => OfBranch(messages', c, b) = OfBranch(messages, c, b)
  <1> DEFINE n == Len(messages) + 1
  <1>1. RowsTyped /\ messages \in Seq(MessageRows \cup {None})
    BY DEF RowsInv, RowsTyped
  <1>2. <<row>> \in Seq(MessageRows) /\ Len(<<row>>) = 1 /\ <<row>>[1] = row
    OBVIOUS
  <1>3. Inserted(messages, <<row>>)
    BY DEF Insert, Inserted
  <1>4. /\ messages' \in Seq(MessageRows \cup {None})
        /\ Len(messages) \in Nat /\ Len(messages') = Len(messages) + Len(<<row>>)
        /\ DOMAIN messages' = 1 .. Len(messages) + Len(<<row>>)
        /\ DOMAIN messages \subseteq DOMAIN messages'
        /\ ever' \in Seq(SUBSET Nat) /\ Len(ever') = Len(messages')
        /\ dropped' \in Seq(SUBSET Nat) /\ Len(dropped') = Len(messages')
        /\ \A m \in DOMAIN messages :
             messages'[m] = messages[m] /\ ever'[m] = ever[m] /\ dropped'[m] = dropped[m]
        /\ \A i \in 1 .. Len(<<row>>) :
             /\ messages'[Len(messages) + i] = <<row>>[i]
             /\ ever'[Len(messages) + i] = {<<row>>[i].content}
             /\ dropped'[Len(messages) + i] = {}
    BY <1>1, <1>2, <1>3, Grows
  <1>5. DOMAIN messages = 1 .. Len(messages)
    BY <1>1, TablesAre
  <1>6. n \in Nat /\ n \notin DOMAIN messages /\ DOMAIN messages' = DOMAIN messages \cup {n}
    BY <1>2, <1>4, <1>5
  <1>7. messages'[n] = row /\ ever'[n] = {row.content} /\ dropped'[n] = {}
    BY <1>2, <1>4
  <1>8. messages' = Append(messages, row)
    <2>1. Append(messages, row) = messages \o <<row>>
      BY <1>1, AppendIsConcat
    <2> QED
      BY <2>1 DEF Insert
  <1>9. RowsTyped'
    BY <1>1, <1>4, <1>6, ChatBounds DEF RowsTyped
  <1>10. MessagesKept
    <2>1. \A m \in DOMAIN messages : MessageKept(m)
      BY <1>1, <1>4, MessageSame
    <2> QED
      BY <1>4, <2>1 DEF MessagesKept
  <1>11. \A c, b : c # row.chat => OfBranch(messages', c, b) = OfBranch(messages, c, b)
    BY <1>4, <1>6, <1>7 DEF OfBranch, Live
  <1> HIDE DEF n
  <1>12. /\ n \in Nat /\ n \notin DOMAIN messages /\ DOMAIN messages' = DOMAIN messages \cup {n}
         /\ \A m \in DOMAIN messages : messages'[m] = messages[m]
         /\ messages'[n] = row /\ ever'[n] = {row.content} /\ dropped'[n] = {}
    BY <1>4, <1>6, <1>7
  <1> QED
    BY <1>8, <1>9, <1>10, <1>11, <1>12 DEF n

\* A new message has shown what it shows.
LEMMA NewIsSound ==
  ASSUME NEW m \in DOMAIN messages', NEW row \in MessageRows, messages'[m] = row,
         row.chat \in DOMAIN chats', chats'[row.chat] # None,
         row.branch \in 1 .. chats'[row.chat].branches, Texts(row) \subseteq 1 .. lastText',
         m \notin unseeded' => Hole(row), ever'[m] \subseteq Texts(row)
  PROVE  MessageSound(m)'
  <1>1. ever'[m] \ dropped'[m] \subseteq Texts(row)
    OBVIOUS
  <1> QED
    BY <1>1 DEF MessageSound, Texts, Hole

\* The chat of a request that writes is counted again.
LEMMA RecountMoves ==
  ASSUME RowsInv, NEW c \in DOMAIN chats, chats[c] # None,
         messages' \in Seq(MessageRows \cup {None}),
         SetCount(c, WithBranch(chats[c]), messages'), UNCHANGED switched
  PROVE  \E chat \in ChatRecords :
            /\ ChatWritten(c, chat) /\ ChatMoves(c, chat)
            /\ chat.branches = WithBranch(chats[c]).branches
            /\ chat.active = WithBranch(chats[c]).active
            /\ chats' \in Seq(ChatRecords \cup {None}) /\ Len(chats') = Len(chats)
            /\ DOMAIN chats' = DOMAIN chats /\ chats'[c] = chat /\ chat # None
            /\ \A d \in DOMAIN chats : chats[d] # None => chats'[d] # None
  <1> DEFINE chat == WithBranch(chats[c])
             n == Count(messages', c, chat.active)
             counted == [chat EXCEPT !.count = n]
  <1>1. /\ chat \in ChatRecords /\ chat.branches >= chats[c].branches
        /\ chat.active \in 1 .. chat.branches
        /\ c \notin switched => chat = chats[c]
    BY WithBranchIs
  <1>2. n \in Nat
    BY CountIs
  <1>3. /\ counted \in ChatRecords /\ counted.branches = chat.branches
        /\ counted.active = chat.active /\ counted.count = n
    <2> HIDE DEF n, chat
    <2> QED
      BY <1>1, <1>2, CountedIs
  <1>4. ChatWritten(c, counted)
    BY DEF SetCount, ChatWritten
  <1> HIDE DEF counted
  <1>5. ChatMoves(c, counted)
    <2> HIDE DEF chat
    <2> QED
      BY <1>1, <1>3 DEF ChatMoves, n
  <1>6. /\ chats' \in Seq(ChatRecords \cup {None}) /\ Len(chats') = Len(chats)
        /\ DOMAIN chats' = DOMAIN chats /\ chats'[c] = counted /\ counted # None
        /\ \A d \in DOMAIN chats \ {c} : chats'[d] = chats[d]
    BY <1>3, <1>4, ChatWrittenIs, NoneAssumption DEF RowsInv
  <1> QED
    BY <1>3, <1>4, <1>5, <1>6

\* A message of a request: one row, and its chat is counted again.
LEMMA InsertCounted ==
  ASSUME RowsInv, NEW c \in DOMAIN chats, chats[c] # None, NEW role \in {"user", "assistant"},
         NEW key \in Keys \cup {None}, NEW row, Fresh, Insert(<<row>>),
         row = Row(c, WithBranch(chats[c]).active, role, lastText + 1, key),
         SetCount(c, WithBranch(chats[c]), Append(messages, row)), UNCHANGED <<unseeded, switched>>
  PROVE  /\ RowsInv' /\ MessagesKept /\ ChatsKept
         /\ Len(chats') = Len(chats) /\ \A d \in DOMAIN chats : chats[d] # None => chats'[d] # None
         /\ c \in DOMAIN chats' /\ chats'[c].branches = WithBranch(chats[c]).branches
         /\ chats'[c].active = WithBranch(chats[c]).active
  <1> DEFINE chat == WithBranch(chats[c])
  <1>0. PICK n : n = Len(messages) + 1
    OBVIOUS
  <1>1. RowsTyped /\ UNCHANGED <<unseeded, switched>>
    BY DEF RowsInv
  <1>2. chat.branches \in Nat /\ chat.active \in 1 .. chat.branches /\ chat.active \in Nat
    BY <1>1, WithBranchIs
  <1>3. lastText \in Nat /\ c \in Nat
    BY <1>1, TablesAre DEF RowsTyped
  <1>4. /\ row \in MessageRows /\ row.chat = c /\ row.branch = chat.active
        /\ row.content = lastText + 1 /\ Texts(row) = {lastText + 1} /\ Hole(row)
    <2> DEFINE text == lastText + 1
               branch == chat.active
    <2>1. text \in Nat /\ branch \in Nat
      BY <1>2, <1>3
    <2>2. row = Row(c, branch, role, text, key)
      OBVIOUS
    <2> HIDE DEF chat, text, branch
    <2>3. /\ row \in MessageRows /\ row.chat = c /\ row.branch = branch
          /\ row.content = text /\ Texts(row) = {text} /\ Hole(row)
      <3> DEFINE kind == role
      <3>1. kind \in Roles
        BY DEF Roles
      <3> HIDE DEF kind
      <3>2. LET new == Row(c, branch, kind, text, key) IN
            /\ new \in MessageRows /\ new.chat = c /\ new.branch = branch
            /\ new.content = text /\ Texts(new) = {text} /\ Hole(new)
        BY <1>3, <2>1, <3>1, NewRowIs
      <3> QED
        BY <2>2, <3>2 DEF kind
    <2> QED
      BY <2>3 DEF text, branch
  <1>5. lastText' \in Nat /\ lastText <= lastText' /\ lastText + 1 \in 1 .. lastText'
    BY <1>3 DEF Fresh
  <1>6. messages' = Append(messages, row)
    <2>1. messages \in Seq(MessageRows \cup {None}) /\ row \in MessageRows \cup {None}
      BY <1>1, <1>4 DEF RowsTyped
    <2> QED
      BY <2>1, AppendIsConcat DEF Insert
  <1>7. messages' \in Seq(MessageRows \cup {None})
    BY <1>1, <1>4, <1>6, AppendProperties DEF RowsTyped
  <1>8. SetCount(c, chat, messages')
    BY <1>6
  <1>9. PICK counted \in ChatRecords :
          /\ ChatWritten(c, counted) /\ ChatMoves(c, counted)
          /\ counted.branches = chat.branches /\ counted.active = chat.active
          /\ chats' \in Seq(ChatRecords \cup {None}) /\ Len(chats') = Len(chats)
          /\ DOMAIN chats' = DOMAIN chats /\ chats'[c] = counted /\ counted # None
          /\ \A d \in DOMAIN chats : chats[d] # None => chats'[d] # None
    BY <1>1, <1>7, <1>8, RecountMoves
  <1>10. /\ RowsTyped' /\ MessagesKept
        /\ n \in Nat /\ DOMAIN messages' = DOMAIN messages \cup {n}
        /\ messages'[n] = row /\ ever'[n] = {row.content}
        /\ \A d, b : d # row.chat => OfBranch(messages', d, b) = OfBranch(messages, d, b)
    BY <1>0, <1>1, <1>4, <1>5, <1>9, InsertIs
  <1>11. MessageSound(n)'
    <2>1. /\ row.chat \in DOMAIN chats' /\ chats'[row.chat] # None
          /\ row.branch \in 1 .. chats'[row.chat].branches /\ Texts(row) \subseteq 1 .. lastText'
          /\ ever'[n] \subseteq Texts(row) /\ n \in DOMAIN messages'
      BY <1>2, <1>4, <1>5, <1>9, <1>10
    <2> QED
      BY <1>4, <1>10, <2>1, NewIsSound
  <1>12. RowsInv' /\ ChatsKept
    <2>1. \A d \in DOMAIN chats \ {c} : OfBranch(messages', d, chats[d].active)
                                          = OfBranch(messages, d, chats[d].active)
      BY <1>4, <1>10
    <2>2. \A m \in DOMAIN messages' \ DOMAIN messages : MessageSound(m)'
      BY <1>10, <1>11
    <2>3. switched \subseteq switched'
      BY <1>1
    <2> QED
      BY <1>1, <1>9, <1>10, <2>1, <2>2, <2>3, ChatUpdateKeeps
  <1> QED
    BY <1>9, <1>10, <1>12

LEMMA PostMessageKeeps ==
  ASSUME ChatsInv, NEW c \in DOMAIN chats, NEW role \in {"user", "assistant"},
         NEW key \in Keys \cup {None}, PostMessage(c, role, key)
  PROVE  ChatsInv'
  <1> DEFINE chat == WithBranch(chats[c])
             row == Row(c, chat.active, role, lastText + 1, key)
  <1>1. /\ RowsInv /\ RowsTyped /\ chats[c] # None
        /\ UNCHANGED <<gens, audits, editor, unseeded, switched, blind, saved>>
    BY DEF ChatsInv, RowsInv, PostMessage, Exists
  <1>2. \/ SetCount(c, chat, messages) /\ UNCHANGED <<messages, lastText, ever, dropped>>
        \/ Fresh /\ Insert(<<row>>) /\ SetCount(c, chat, Append(messages, row))
    BY DEF PostMessage
  <1>3. CASE SetCount(c, chat, messages) /\ UNCHANGED <<messages, lastText, ever, dropped>>
    <2>1. messages' = messages /\ messages' \in Seq(MessageRows \cup {None})
          /\ SetCount(c, chat, messages')
      BY <1>1, <1>3 DEF RowsTyped
    <2>2. PICK counted \in ChatRecords :
            /\ ChatWritten(c, counted) /\ ChatMoves(c, counted)
            /\ chats' \in Seq(ChatRecords \cup {None}) /\ Len(chats') = Len(chats)
            /\ \A d \in DOMAIN chats : chats[d] # None => chats'[d] # None
      BY <1>1, <2>1, RecountMoves
    <2>3. RowsInv' /\ MessagesKept /\ ChatsKept
      BY <1>1, <1>3, <2>2, RowsSame, ChatUpdateKeeps
    <2> QED
      BY <1>1, <2>2, <2>3, AuditsKeep, RestKeeps
  <1>4. CASE Fresh /\ Insert(<<row>>) /\ SetCount(c, chat, Append(messages, row))
    <2>1. /\ RowsInv' /\ MessagesKept /\ ChatsKept
          /\ Len(chats') = Len(chats) /\ \A d \in DOMAIN chats : chats[d] # None => chats'[d] # None
      <3> HIDE DEF row
      <3>1. row = Row(c, WithBranch(chats[c]).active, role, lastText + 1, key)
        BY DEF row
      <3> QED
        BY <1>1, <1>4, <3>1, InsertCounted
    <2> QED
      BY <1>1, <2>1, AuditsKeep, RestKeeps
  <1> QED
    BY <1>2, <1>3, <1>4

-----------------------------------------------------------------------------
(* Steps that add a chat.                                                  *)

ChatAdded(n) == chats' = Append(chats, NewChat(n))

LEMMA NewChatIs ==
  ASSUME NEW n \in Nat
  PROVE  /\ NewChat(n) \in ChatRecords /\ NewChat(n) # None /\ NewChat(n).active = 1
         /\ NewChat(n).branches = 1 /\ NewChat(n).count = n
  <1>1. NewChat(n) \in ChatRecords
    BY DEF NewChat, ChatRecords
  <1> QED
    BY <1>1, NoneAssumption DEF NewChat

\* A table with a row more.
LEMMA AppendIs ==
  ASSUME NEW S, NEW s \in Seq(S), NEW x \in S
  PROVE  /\ Append(s, x) \in Seq(S) /\ Len(s) \in Nat /\ Len(Append(s, x)) = Len(s) + 1
         /\ DOMAIN Append(s, x) = DOMAIN s \cup {Len(s) + 1} /\ Len(s) + 1 \notin DOMAIN s
         /\ Append(s, x)[Len(s) + 1] = x /\ \A i \in DOMAIN s : Append(s, x)[i] = s[i]
  <1>1. /\ Append(s, x) \in Seq(S) /\ Len(Append(s, x)) = Len(s) + 1
        /\ \A i \in 1 .. Len(s) : Append(s, x)[i] = s[i]
        /\ Append(s, x)[Len(s) + 1] = x
    BY AppendProperties
  <1>2. Len(s) \in Nat /\ DOMAIN s = 1 .. Len(s)
    BY LenProperties
  <1>3. DOMAIN Append(s, x) = 1 .. Len(s) + 1
    BY <1>1, LenProperties
  <1>4. 1 .. Len(s) + 1 = (1 .. Len(s)) \cup {Len(s) + 1} /\ Len(s) + 1 \notin 1 .. Len(s)
    BY <1>2
  <1> QED
    BY <1>1, <1>2, <1>3, <1>4

LEMMA ChatAddedIs ==
  ASSUME RowsTyped, NEW n \in Nat, ChatAdded(n)
  PROVE  /\ chats' \in Seq(ChatRecords \cup {None}) /\ Len(chats') = Len(chats) + 1
         /\ Len(chats) \in Nat /\ Len(chats) + 1 \notin DOMAIN chats
         /\ DOMAIN chats' = DOMAIN chats \cup {Len(chats) + 1}
         /\ chats'[Len(chats) + 1] = NewChat(n)
         /\ \A d \in DOMAIN chats : chats'[d] = chats[d]
  <1>1. NewChat(n) \in ChatRecords \cup {None} /\ chats \in Seq(ChatRecords \cup {None})
    BY NewChatIs DEF RowsTyped
  <1> QED
    BY <1>1, AppendIs DEF ChatAdded

LEMMA ChatAddedKeeps ==
  ASSUME RowsInv, RowsTyped', MessagesKept, NEW n \in Nat, NEW new, new = Len(chats) + 1,
         ChatAdded(n), UNCHANGED switched,
         \A d \in DOMAIN chats : OfBranch(messages', d, chats[d].active)
                                   = OfBranch(messages, d, chats[d].active),
         Count(messages', new, 1) = n,
         \A m \in DOMAIN messages' \ DOMAIN messages : MessageSound(m)'
  PROVE  RowsInv' /\ ChatsKept
  <1>1. /\ DOMAIN chats' = DOMAIN chats \cup {new} /\ new \notin DOMAIN chats
        /\ chats'[new] = NewChat(n) /\ \A d \in DOMAIN chats : chats'[d] = chats[d]
    BY ChatAddedIs DEF RowsInv
  <1>2. \A d \in DOMAIN chats : chats[d] # None => chats[d].branches \in Nat
    BY ChatIs
  <1>3. ChatsKept
    BY <1>1, <1>2 DEF ChatsKept, ChatKept
  <1>4. ASSUME NEW m \in DOMAIN messages' PROVE MessageSound(m)'
    <2>1. CASE m \in DOMAIN messages
      <3>1. messages'[m] # None => chats'[messages[m].chat] # None
        <4>1. ASSUME messages'[m] # None
              PROVE  messages[m].chat \in DOMAIN chats /\ chats[messages[m].chat] # None
          BY <2>1, <4>1 DEF MessagesKept, MessageKept, RowsInv, MessageSound
        <4> QED
          BY <1>1, <4>1
      <3> QED
        BY <1>3, <2>1, <3>1, KeptIsSound
    <2>2. CASE m \notin DOMAIN messages
      BY <1>4, <2>2
    <2> QED
      BY <2>1, <2>2
  <1>5. ASSUME NEW d \in DOMAIN chats' PROVE ChatSound(d)'
    <2>1. CASE d = new
      <3>1. /\ chats'[d].active = 1 /\ chats'[d].branches = 1 /\ chats'[d].count = n
            /\ 1 \in 1 .. 1 /\ 1 # None
        BY <1>1, <2>1, NewChatIs, NoneAssumption
      <3>2. Count(messages', d, 1) = n
        BY <2>1
      <3> QED
        BY <3>1, <3>2 DEF ChatSound
    <2>2. CASE d # new
      <3>1. d \in DOMAIN chats /\ ChatSound(d) /\ chats'[d] = chats[d]
        BY <1>1, <1>5, <2>2 DEF RowsInv
      <3>2. OfBranch(messages, d, chats[d].active)' = OfBranch(messages, d, chats[d].active)
        BY <3>1
      <3> QED
        BY <3>1, <3>2, ChatSame
    <2> QED
      BY <2>1, <2>2
  <1> QED
    BY <1>3, <1>4, <1>5 DEF RowsInv

LEMMA AuditAdded ==
  ASSUME ChatsInv, NEW n \in Nat, ChatAdded(n), audits' = Append(audits, None)
  PROVE  AuditsKept
  <1>1. /\ audits \in Seq(AuditRecords \cup {None}) /\ Len(audits) = Len(chats)
        /\ RowsTyped /\ None \in AuditRecords \cup {None}
    BY DEF ChatsInv, RowsInv, AuditsInv
  <1>2. /\ chats' \in Seq(ChatRecords \cup {None}) /\ Len(chats') = Len(chats) + 1
        /\ DOMAIN chats = DOMAIN audits /\ \A d \in DOMAIN chats : chats'[d] = chats[d]
    BY <1>1, ChatAddedIs, LenProperties DEF RowsTyped
  <1>3. /\ audits' \in Seq(AuditRecords \cup {None}) /\ Len(audits') = Len(audits) + 1
        /\ DOMAIN audits' = DOMAIN audits \cup {Len(audits) + 1}
        /\ audits'[Len(audits) + 1] = None /\ \A i \in DOMAIN audits : audits'[i] = audits[i]
    BY <1>1, AppendIs
  <1>4. \A c \in DOMAIN audits : audits[c] # None => chats[c] # None
    BY DEF ChatsInv, AuditsInv, AuditSound
  <1> QED
    BY <1>1, <1>2, <1>3, <1>4 DEF AuditsKept

LEMMA CreateChatKeeps ==
  ASSUME ChatsInv, NEW reuse \in BOOLEAN, CreateChat(reuse)
  PROVE  ChatsInv'
  <1>0. PICK n, new : n = Len(messages) + 1 /\ new = Len(chats) + 1
    OBVIOUS
  <1>1. /\ RowsInv /\ RowsTyped /\ ChatAdded(1) /\ audits' = Append(audits, None)
        /\ unseeded' = unseeded \cup {n}
        /\ UNCHANGED <<gens, editor, lastText, switched, blind, saved>>
    BY <1>0 DEF ChatsInv, RowsInv, CreateChat, ChatAdded
  <1>2. PICK text \in 1 .. Greetings : Insert(<<GreetingRow(new, text)>>)
    BY <1>0 DEF CreateChat
  <1> DEFINE row == GreetingRow(new, text)
  <1>3. /\ lastText \in Nat /\ lastText' \in Nat /\ lastText <= lastText'
        /\ text \in 1 .. lastText' /\ text \in Nat
    BY <1>1, <1>2, ChatBounds DEF RowsTyped
  <1>4. /\ chats' \in Seq(ChatRecords \cup {None}) /\ new \in Nat /\ new \notin DOMAIN chats
        /\ new \in DOMAIN chats' /\ chats'[new] = NewChat(1)
    BY <1>0, <1>1, ChatAddedIs
  <1>5. /\ row \in MessageRows /\ row.chat = new /\ row.branch = 1
        /\ row.content = text /\ Texts(row) = {text}
    BY <1>3, <1>4, GreetingRowIs
  <1> HIDE DEF row
  <1>6. Insert(<<row>>)
    BY <1>2 DEF row
  <1>7. /\ RowsTyped' /\ MessagesKept
        /\ n \in Nat /\ n \notin DOMAIN messages /\ DOMAIN messages' = DOMAIN messages \cup {n}
        /\ \A m \in DOMAIN messages : messages'[m] = messages[m]
        /\ messages'[n] = row /\ ever'[n] = {row.content}
        /\ \A c, b : c # row.chat => OfBranch(messages', c, b) = OfBranch(messages, c, b)
    BY <1>0, <1>1, <1>3, <1>4, <1>5, <1>6, InsertIs
  <1>8. MessageSound(n)'
    <2>1. /\ row.chat \in DOMAIN chats' /\ chats'[row.chat] # None
          /\ row.branch \in 1 .. chats'[row.chat].branches /\ Texts(row) \subseteq 1 .. lastText'
          /\ ever'[n] \subseteq Texts(row) /\ n \in DOMAIN messages' /\ n \in unseeded'
      BY <1>1, <1>3, <1>4, <1>5, <1>7, NewChatIs
    <2> QED
      BY <1>5, <1>7, <2>1, NewIsSound
  <1>9. Count(messages', new, 1) = 1
    <2>1. \A m \in DOMAIN messages : messages[m] # None => messages[m].chat # new
      BY <1>1, <1>4 DEF RowsInv, MessageSound
    <2>2. row # None
      BY <1>5, NoneAssumption
    <2>3. OfBranch(messages', new, 1) = {n}
      BY <1>5, <1>7, <2>1, <2>2 DEF OfBranch, Live
    <2> QED
      BY <2>3, FS_Singleton DEF Count
  <1>10. RowsInv' /\ ChatsKept
    <2>1. \A d \in DOMAIN chats : OfBranch(messages', d, chats[d].active)
                                    = OfBranch(messages, d, chats[d].active)
      BY <1>4, <1>5, <1>7
    <2>2. \A m \in DOMAIN messages' \ DOMAIN messages : MessageSound(m)'
      BY <1>7, <1>8
    <2> QED
      BY <1>0, <1>1, <1>7, <1>9, <2>1, <2>2, ChatAddedKeeps
  <1>11. AuditsKept
    BY <1>1, AuditAdded
  <1> QED
    BY <1>1, <1>7, <1>10, <1>11, RestKeeps

LEMMA SnapshotKeeps ==
  ASSUME ChatsInv, NEW m \in DOMAIN messages, NEW checkpoint \in BOOLEAN, Snapshot(m, checkpoint)
  PROVE  ChatsInv'
  <1>0. PICK c, b, ids, prefix, new, size, base, copies :
          /\ c = messages[m].chat /\ b = messages[m].branch
          /\ ids = {n \in OfBranch(messages, c, b) : n <= m} /\ prefix = InOrder(ids)
          /\ new = Len(chats) + 1 /\ size = Len(messages)
          /\ base = IF checkpoint THEN [messages EXCEPT ![m].revision = @ + 1] ELSE messages
          /\ copies = [i \in DOMAIN prefix |-> Copied(messages[prefix[i]], new)]
    OBVIOUS
  <1>1. /\ RowsInv /\ RowsTyped /\ messages[m] # None
        /\ UNCHANGED <<gens, editor, lastText, switched, blind, saved>>
        /\ ChatAdded(Len(copies)) /\ audits' = Append(audits, None) /\ Inserted(base, copies)
        /\ unseeded' = unseeded \cup {size + i : i \in {j \in DOMAIN prefix : prefix[j] \in unseeded}}
    BY <1>0 DEF ChatsInv, RowsInv, Snapshot, ChatAdded, Inserted
  <1>2. /\ IsFiniteSet(ids) /\ ids \in SUBSET Nat /\ ids \subseteq OfBranch(messages, c, b)
    <2>1. /\ OfBranch(messages, c, b) \in SUBSET Nat /\ IsFiniteSet(OfBranch(messages, c, b))
      BY <1>1, CountIs DEF RowsTyped
    <2> QED
      BY <1>0, <2>1, FS_Subset
  <1>3. PICK k \in Nat : DOMAIN prefix = 1 .. k /\ \A i \in 1 .. k : prefix[i] \in ids
    BY <1>0, <1>2, InOrderIs
  <1>4. \A i \in 1 .. k : /\ prefix[i] \in DOMAIN messages /\ messages[prefix[i]] # None
                          /\ messages[prefix[i]] \in MessageRows
    BY <1>1, <1>2, <1>3, TextsAre DEF OfBranch, Live
  <1>5. size \in Nat /\ DOMAIN messages = 1 .. size /\ new \in Nat /\ new \notin DOMAIN chats
    BY <1>0, <1>1, TablesAre
  <1>6. copies \in Seq(MessageRows) /\ Len(copies) = k
    <2>1. copies \in [1 .. k -> MessageRows]
      BY <1>0, <1>3, <1>4, <1>5, CopiedIs
    <2>2. copies \in Seq(MessageRows)
      BY <2>1, SeqDef
    <2>3. DOMAIN copies = 1 .. Len(copies) /\ Len(copies) \in Nat
      BY <2>2, LenProperties
    <2> QED
      BY <2>1, <2>2, <2>3
  <1>7. /\ base \in Seq(MessageRows \cup {None}) /\ Len(base) = Len(messages)
        /\ Moves(messages[m], base[m], {}, {}) /\ base[m].content = messages[m].content
        /\ \A x \in DOMAIN messages \ {m} : base[x] = messages[x]
    <2>1. messages[m] \in MessageRows
      BY <1>1, TextsAre
    <2>2. CASE ~checkpoint
      BY <1>0, <1>1, <2>1, <2>2 DEF RowsTyped, Moves
    <2>3. CASE checkpoint
      <3> DEFINE row == [messages[m] EXCEPT !.revision = @ + 1]
      <3>1. Moves(messages[m], row, {}, {}) /\ row.content = messages[m].content
        BY <2>1, LinkedIs
      <3>2. base = [messages EXCEPT ![m] = row]
        BY <1>0, <2>3
      <3> HIDE DEF row
      <3>3. row \in MessageRows \cup {None} /\ messages \in Seq(MessageRows \cup {None})
        BY <1>1, <3>1 DEF Moves, RowsTyped
      <3> QED
        BY <3>1, <3>2, <3>3, ExceptIs
    <2> QED
      BY <2>2, <2>3
  <1>8. /\ messages' \in Seq(MessageRows \cup {None})
        /\ Len(messages') = size + k /\ DOMAIN messages' = 1 .. size + k
        /\ DOMAIN messages \subseteq DOMAIN messages'
        /\ ever' \in Seq(SUBSET Nat) /\ Len(ever') = Len(messages')
        /\ dropped' \in Seq(SUBSET Nat) /\ Len(dropped') = Len(messages')
        /\ \A x \in DOMAIN messages :
             messages'[x] = base[x] /\ ever'[x] = ever[x] /\ dropped'[x] = dropped[x]
        /\ \A i \in 1 .. k : /\ messages'[size + i] = copies[i]
                             /\ ever'[size + i] = {copies[i].content}
    <2>1. RowsTyped /\ Inserted(base, copies) /\ copies \in Seq(MessageRows)
          /\ base \in Seq(MessageRows \cup {None}) /\ Len(base) = Len(messages)
      BY <1>1, <1>6, <1>7
    <2>2. size = Len(messages) /\ Len(copies) = k
      BY <1>0, <1>6
    <2>3. /\ messages' \in Seq(MessageRows \cup {None})
          /\ Len(messages') = Len(messages) + Len(copies)
          /\ DOMAIN messages' = 1 .. Len(messages) + Len(copies)
          /\ DOMAIN messages \subseteq DOMAIN messages'
          /\ ever' \in Seq(SUBSET Nat) /\ Len(ever') = Len(messages')
          /\ dropped' \in Seq(SUBSET Nat) /\ Len(dropped') = Len(messages')
      BY <2>1, Grows
    <2>4. \A x \in DOMAIN messages :
            messages'[x] = base[x] /\ ever'[x] = ever[x] /\ dropped'[x] = dropped[x]
      BY <2>1, Grows
    <2>5. \A i \in 1 .. Len(copies) : /\ messages'[Len(messages) + i] = copies[i]
                                     /\ ever'[Len(messages) + i] = {copies[i].content}
      BY <2>1, Grows
    <2> QED
      BY <2>2, <2>3, <2>4, <2>5
  <1>9. \A x \in DOMAIN messages' \ DOMAIN messages : \E i \in 1 .. k : x = size + i
    <2> SUFFICES ASSUME NEW x \in DOMAIN messages', x \notin DOMAIN messages
                 PROVE  \E i \in 1 .. k : x = size + i
      OBVIOUS
    <2>1. x - size \in 1 .. k /\ x = size + (x - size)
      BY <1>3, <1>5, <1>8
    <2> QED
      BY <2>1
  <1>10. \A i \in 1 .. k : size + i \in DOMAIN messages' /\ size + i \notin DOMAIN messages
    BY <1>3, <1>5, <1>8
  <1>11. RowsTyped'
    <2>1. chats' \in Seq(ChatRecords \cup {None})
      BY <1>1, <1>3, <1>6, ChatAddedIs
    <2>2. unseeded' \subseteq DOMAIN messages'
      BY <1>1, <1>3, <1>8, <1>10 DEF RowsTyped
    <2>3. lastText' \in Nat /\ Greetings <= lastText'
      BY <1>1 DEF RowsTyped
    <2> QED
      BY <1>8, <2>1, <2>2, <2>3 DEF RowsTyped
  <1>12. MessagesKept
    <2>1. MessageKept(m)
      <3>1. messages'[m] = base[m] /\ ever'[m] = ever[m] /\ dropped'[m] = dropped[m]
        BY <1>8
      <3>2. {} \in SUBSET Nat /\ {} \in SUBSET (1 .. lastText')
        OBVIOUS
      <3> QED
        BY <1>1, <1>7, <3>1, <3>2 DEF MessageKept
    <2>2. \A x \in DOMAIN messages \ {m} : MessageKept(x)
      BY <1>1, <1>7, <1>8, MessageSame
    <2>3. lastText <= lastText'
      BY <1>1 DEF RowsTyped
    <2> QED
      BY <1>1, <1>8, <2>1, <2>2, <2>3 DEF MessagesKept
  <1>13. \A i \in 1 .. k : /\ copies[i] \in MessageRows /\ copies[i].chat = new
                           /\ copies[i].branch = 1
                           /\ Texts(copies[i]) = Texts(messages[prefix[i]])
                           /\ Hole(messages[prefix[i]]) => Hole(copies[i])
    <2> TAKE i \in 1 .. k
    <2>1. PICK row : row = messages[prefix[i]]
      OBVIOUS
    <2>2. row \in MessageRows /\ copies[i] = Copied(row, new)
      BY <1>0, <1>3, <1>4, <2>1
    <2>3. /\ copies[i] \in MessageRows /\ copies[i].chat = new /\ copies[i].branch = 1
          /\ Texts(copies[i]) = Texts(row)
          /\ Hole(row) => Hole(copies[i])
      BY <1>5, <2>2, CopiedIs
    <2> QED
      BY <2>1, <2>3
  <1>14. ASSUME NEW i \in 1 .. k PROVE MessageSound(size + i)'
    <2>0. PICK x : x = size + i
      OBVIOUS
    <2> DEFINE row == copies[i]
    <2>1. row \in MessageRows /\ row.chat = new /\ row.branch = 1 /\ messages'[x] = row
          /\ x \in DOMAIN messages'
      BY <1>8, <1>10, <1>13, <1>14, <2>0
    <2>2. chats'[new] # None /\ new \in DOMAIN chats' /\ 1 \in 1 .. chats'[new].branches
      <3>1. chats'[new] = NewChat(k) /\ new \in DOMAIN chats'
        BY <1>0, <1>1, <1>3, <1>6, ChatAddedIs
      <3>2. NewChat(k) # None /\ NewChat(k).branches = 1 /\ 1 \in 1 .. 1
        BY <1>3, NewChatIs
      <3> QED
        BY <3>1, <3>2
    <2>3. Texts(row) \subseteq 1 .. lastText'
      BY <1>1, <1>4, <1>13, <1>14, TextsAre
    <2>4. x \notin unseeded' => Hole(row)
      <3>1. x \notin unseeded' => prefix[i] \notin unseeded
        BY <1>1, <1>3, <2>0
      <3>2. prefix[i] \notin unseeded => Hole(messages[prefix[i]])
        BY <1>1, <1>4 DEF RowsInv, MessageSound
      <3> QED
        BY <1>13, <3>1, <3>2
    <2>5. ever'[x] \subseteq Texts(row)
      BY <1>8, <1>14, <2>0 DEF Texts
    <2> HIDE DEF row
    <2>6. MessageSound(x)'
      BY <2>1, <2>2, <2>3, <2>4, <2>5, NewIsSound
    <2> QED
      BY <2>0, <2>6
  <1>15. \A x \in DOMAIN messages : messages[x] # None => messages[x].chat # new
    BY <1>1, <1>5 DEF RowsInv, MessageSound
  <1>16. \A x \in DOMAIN messages :
           /\ (messages'[x] # None) = (messages[x] # None)
           /\ messages'[x] # None => /\ messages'[x].chat = messages[x].chat
                                     /\ messages'[x].branch = messages[x].branch
    <2>1. base[m] # None /\ base[m].chat = messages[m].chat /\ base[m].branch = messages[m].branch
      BY <1>7, NoneAssumption DEF Moves
    <2> QED
      BY <1>1, <1>7, <1>8, <2>1
  <1>17. \A i \in 1 .. k : /\ messages'[size + i] # None /\ messages'[size + i].chat = new
                           /\ messages'[size + i].branch = 1
    BY <1>8, <1>13, NoneAssumption
  <1>18. Count(messages', new, 1) = k
    <2>1. OfBranch(messages', new, 1) = (size + 1) .. (size + k)
      <3>1. \A x \in OfBranch(messages', new, 1) : x \in (size + 1) .. (size + k)
        <4> SUFFICES ASSUME NEW x \in OfBranch(messages', new, 1) PROVE x \in (size + 1) .. (size + k)
          OBVIOUS
        <4>1. x \in DOMAIN messages' /\ x \notin DOMAIN messages
          BY <1>15, <1>16 DEF OfBranch, Live
        <4> QED
          BY <1>3, <1>5, <1>8, <4>1
      <3>2. \A x \in (size + 1) .. (size + k) : x \in OfBranch(messages', new, 1)
        <4> SUFFICES ASSUME NEW x \in (size + 1) .. (size + k) PROVE x \in OfBranch(messages', new, 1)
          OBVIOUS
        <4>1. PICK i \in 1 .. k : x = size + i
          <5>1. x - size \in 1 .. k /\ x = size + (x - size)
            BY <1>3, <1>5
          <5> QED
            BY <5>1
        <4> QED
          BY <1>10, <1>17, <4>1 DEF OfBranch, Live
      <3> QED
        BY <3>1, <3>2
    <2>2. Cardinality((size + 1) .. (size + k)) = k
      <3>1. size + 1 \in Int /\ size + k \in Int
        BY <1>3, <1>5
      <3>2. Cardinality((size + 1) .. (size + k))
              = IF size + 1 > size + k THEN 0 ELSE (size + k) - (size + 1) + 1
        BY <3>1, FS_Interval
      <3> QED
        BY <1>3, <1>5, <3>2
    <2> QED
      BY <2>1, <2>2 DEF Count
  <1>19. \A d \in DOMAIN chats : OfBranch(messages', d, chats[d].active)
                                   = OfBranch(messages, d, chats[d].active)
    <2> TAKE d \in DOMAIN chats
    <2>1. \A x \in DOMAIN messages :
            /\ (messages[x] # None /\ messages[x].chat = d) <=> (messages'[x] # None /\ messages'[x].chat = d)
            /\ messages'[x] # None => messages[x] # None /\ messages'[x].branch = messages[x].branch
      BY <1>16
    <2>2. \A x \in DOMAIN messages' \ DOMAIN messages : messages'[x] # None => messages'[x].chat # d
      BY <1>5, <1>9, <1>17
    <2> QED
      BY <1>8, <2>1, <2>2, BranchSame
  <1>20. RowsInv' /\ ChatsKept
    <2>1. \A x \in DOMAIN messages' \ DOMAIN messages : MessageSound(x)'
      BY <1>9, <1>14
    <2> QED
      BY <1>0, <1>1, <1>3, <1>6, <1>11, <1>12, <1>18, <1>19, <2>1, ChatAddedKeeps
  <1>21. AuditsKept
    BY <1>1, <1>3, <1>6, AuditAdded
  <1> QED
    BY <1>1, <1>12, <1>20, <1>21, RestKeeps

-----------------------------------------------------------------------------
(* Generations.                                                            *)

GenWritten(g, gen) == gens' = [gens EXCEPT ![g] = gen]

LEMMA GenWrittenIs ==
  ASSUME GensInv, NEW g \in Gens, NEW gen \in GenRecords, GenWritten(g, gen)
  PROVE  /\ gens' \in [Gens -> GenRecords] /\ gens'[g] = gen
         /\ \A h \in Gens \ {g} : gens'[h] = gens[h]
  BY DEF GensInv, GenWritten

LEMMA GenIs ==
  ASSUME GensInv, NEW g \in Gens
  PROVE  /\ gens[g] \in GenRecords /\ gens[g].pc \in Pcs /\ gens[g].chat \in Nat \cup {None}
         /\ gens[g].branch \in Nat /\ gens[g].target \in Nat /\ gens[g].captured \in Nat
         /\ gens[g].aborted \in BOOLEAN /\ GenSound(g)
  <1>1. gens[g] \in GenRecords /\ GenSound(g)
    BY DEF GensInv
  <1> QED
    BY <1>1 DEF GenRecords

LEMMA EndedIs ==
  /\ Ended \in GenRecords /\ Ended.pc = "ended" /\ Ended.pc \in Over
  /\ Told \in GenRecords /\ Told.pc = "told" /\ Told.pc \in Over
  BY DEF Ended, Told, NoGen, GenRecords, Pcs, Over

LEMMA OverIs == ASSUME NEW g \in Gens PROVE gens[g].pc \in Over => ~Runs(g)
  BY DEF Over, Runs

LEMMA GenUpdateKeeps ==
  ASSUME RowsInv, RowsTyped', GensInv, MessagesKept, ChatsKept, NEW g \in Gens,
         NEW gen \in GenRecords, GenWritten(g, gen), GenSound(g)', saved' \subseteq saved \cup {g}
  PROVE  GensInv'
  <1>1. /\ gens' \in [Gens -> GenRecords] /\ \A h \in Gens \ {g} : gens'[h] = gens[h]
    BY GenWrittenIs
  <1>2. \A h \in Gens \ {g} : GenSound(h)'
    <2> TAKE h \in Gens \ {g}
    <2>1. GenSound(h) /\ gens'[h] = gens[h] /\ (h \in saved' => h \in saved)
      BY <1>1 DEF GensInv
    <2> QED
      BY <2>1, GenStays
  <1> QED
    BY <1>1, <1>2 DEF GensInv

\* The audits when a generation goes on.
LEMMA AuditsStay ==
  ASSUME ChatsInv, NEW g \in Gens, NEW gen \in GenRecords, GenWritten(g, gen),
         UNCHANGED <<audits, saved>>, Len(chats') = Len(chats),
         \A c \in DOMAIN chats : chats[c] # None => chats'[c] # None,
         gens[g].pc \in {"idle", "building", "intercepting"} \/ SameStage(gens[g], gen)
  PROVE  AuditsInv'
  <1>1. /\ AuditsInv /\ GensInv /\ DOMAIN audits = DOMAIN chats
        /\ \A c \in DOMAIN audits : AuditSound(c)
    BY LenProperties DEF ChatsInv, AuditsInv, RowsInv, RowsTyped
  <1>2. gens'[g] = gen /\ \A h \in Gens \ {g} : gens'[h] = gens[h]
    BY <1>1, GenWrittenIs
  <1>3. \A h \in Gens :
          \/ gens[h].pc \in {"idle", "building", "intercepting"}
          \/ gens'[h] = gens[h] \/ SameStage(gens[h], gens'[h])
    BY <1>2
  <1>4. ASSUME NEW c \in DOMAIN audits PROVE AuditSound(c)'
    <2>1. audits'[c] = audits[c] /\ AuditSound(c) /\ saved' = saved
      BY <1>1
    <2>2. audits[c] # None => audits[c].gen \in Gens /\ chats'[c] # None
      <3>1. audits[c] \in AuditRecords \cup {None}
        BY <1>1, <1>4, LenProperties DEF AuditsInv
      <3>2. audits[c] # None => audits[c].gen \in Gens
        BY <3>1 DEF AuditRecords
      <3>3. audits[c] # None => chats'[c] # None
        BY <1>1, <2>1 DEF AuditSound
      <3> QED
        BY <3>2, <3>3
    <2>3. audits[c] # None => gens[audits[c].gen].pc \notin {"idle", "building", "intercepting"}
      BY <2>1 DEF AuditSound, Sending, Over
    <2> QED
      BY <1>3, <2>1, <2>2, <2>3, AuditStays
  <1> QED
    BY <1>1, <1>4 DEF AuditsInv

Early == {"idle", "building", "intercepting"}
RowsUntouched ==
    UNCHANGED <<chats, messages, audits, editor, lastText, ever, dropped, unseeded, switched,
                blind, saved>>

\* A generation alone moves.
LEMMA GenMoves ==
  ASSUME ChatsInv, NEW g \in Gens, NEW gen \in GenRecords, GenWritten(g, gen), RowsUntouched,
         gens[g].pc \in Early \/ SameStage(gens[g], gen), GenSound(g)'
  PROVE  ChatsInv'
  <1>1. /\ RowsInv /\ GensInv /\ EditorInv
        /\ UNCHANGED <<chats, messages, audits, editor, lastText, ever, dropped, unseeded, switched,
                       blind, saved>>
    BY DEF ChatsInv, RowsUntouched
  <1>2. RowsInv' /\ RowsTyped' /\ MessagesKept /\ ChatsKept
    BY <1>1, StillKeeps DEF RowsInv
  <1>3. GensInv'
    BY <1>1, <1>2, GenUpdateKeeps
  <1>4. AuditsInv'
    BY <1>1, AuditsStay DEF Early
  <1>5. EditorInv'
    BY <1>1, <1>2, EditorStays
  <1> QED
    BY <1>2, <1>3, <1>4, <1>5 DEF ChatsInv

\* It goes on with what it has captured.
LEMMA GenGoesOn ==
  ASSUME ChatsInv, NEW g \in Gens, NEW gen \in GenRecords, GenWritten(g, gen), RowsUntouched,
         gens[g].pc \in Early \/ SameStage(gens[g], gen),
         gen.pc = gens[g].pc \/ (Runs(g) /\ gen.pc \notin {"idle", "told", "ended"}),
         gen.chat = gens[g].chat, gen.branch = gens[g].branch, gen.target = gens[g].target,
         gen.captured = gens[g].captured
  PROVE  ChatsInv'
  <1>1. RowsInv /\ GensInv /\ GenSound(g) /\ saved' = saved
    BY GenIs DEF ChatsInv, RowsUntouched
  <1>2. RowsTyped' /\ MessagesKept /\ ChatsKept
    <2>1. UNCHANGED <<messages, chats, lastText, ever, dropped, unseeded, switched>>
      BY DEF RowsUntouched
    <2> QED
      BY <1>1, <2>1, StillKeeps DEF RowsInv
  <1>3. gens'[g] = gen
    BY <1>1, GenWrittenIs
  <1>4. gens'[g].pc = gens[g].pc \/ (Runs(g) /\ Runs(g)')
    BY <1>3 DEF Runs
  <1>5. GenSound(g)'
    BY <1>1, <1>2, <1>3, <1>4, GenStays
  <1> QED
    BY <1>5, GenMoves

LEMMA DisconnectKeeps ==
  ASSUME ChatsInv, NEW g \in Gens, Disconnect(g)
  PROVE  ChatsInv'
  <1> DEFINE gen == [gens[g] EXCEPT !.aborted = TRUE]
  <1>1. GenWritten(g, gen) /\ RowsUntouched
    BY DEF Disconnect, GenWritten, RowsUntouched, history
  <1>2. gens[g] \in GenRecords
    BY GenIs DEF ChatsInv
  <1>3. /\ gen \in GenRecords /\ gen.pc = gens[g].pc /\ gen.chat = gens[g].chat
        /\ gen.branch = gens[g].branch /\ gen.target = gens[g].target
        /\ gen.captured = gens[g].captured
    BY <1>2 DEF GenRecords
  <1>4. gens[g].pc \in Early \/ SameStage(gens[g], gen)
    <2>1. gens[g].pc \in Early \/ gens[g].pc \in Sending \/ gens[g].pc \in Over
      BY <1>2 DEF GenRecords, Pcs, Early, Sending, Over
    <2> HIDE DEF gen
    <2> QED
      BY <1>3, <2>1 DEF SameStage
  <1> HIDE DEF gen
  <1> QED
    BY <1>1, <1>3, <1>4, GenGoesOn

\* From the provider's stream to the post-processors, into the wait for the client
\* and out of it.
LEMMA SendingKeeps ==
  ASSUME ChatsInv, NEW g \in Gens, NEW pc \in Sending, gens[g].pc \in Sending,
         GenWritten(g, [gens[g] EXCEPT !.pc = pc]), RowsUntouched
  PROVE  ChatsInv'
  <1> DEFINE gen == [gens[g] EXCEPT !.pc = pc]
  <1>1. gens[g] \in GenRecords
    BY GenIs DEF ChatsInv
  <1>2. /\ gen \in GenRecords /\ gen.pc = pc /\ gen.chat = gens[g].chat
        /\ gen.branch = gens[g].branch /\ gen.target = gens[g].target
        /\ gen.captured = gens[g].captured
    BY <1>1 DEF GenRecords, Pcs, Sending
  <1>3. GenWritten(g, gen)
    OBVIOUS
  <1> HIDE DEF gen
  <1>4. SameStage(gens[g], gen) /\ Runs(g) /\ gen.pc \notin {"idle", "told", "ended"}
    BY <1>2 DEF SameStage, Runs, Sending
  <1> QED
    BY <1>2, <1>3, <1>4, GenGoesOn

LEMMA StreamDoneKeeps ==
  ASSUME ChatsInv, NEW g \in Gens, StreamDone(g)
  PROVE  ChatsInv'
  BY SendingKeeps DEF StreamDone, GenWritten, RowsUntouched, history, Sending

LEMMA StallKeeps ==
  ASSUME ChatsInv, NEW g \in Gens, Stall(g)
  PROVE  ChatsInv'
  BY SendingKeeps DEF Stall, GenWritten, RowsUntouched, history, Sending

LEMMA DrainedKeeps ==
  ASSUME ChatsInv, NEW g \in Gens, Drained(g)
  PROVE  ChatsInv'
  <1>1. RowsUntouched
    BY DEF Drained, RowsUntouched, history
  <1>2. CASE gens[g].pc = "told"
    <2>1. GenWritten(g, Ended) /\ SameStage(gens[g], Ended)
      BY <1>2, EndedIs DEF Drained, GenWritten, SameStage, Over
    <2>2. gens'[g] = Ended
      BY <2>1, EndedIs, GenWrittenIs DEF ChatsInv
    <2>3. GenSound(g)'
      BY <2>2, EndedIs DEF GenSound, Runs
    <2> QED
      BY <1>1, <2>1, <2>3, EndedIs, GenMoves
  <1>3. CASE gens[g].pc = "draining"
    <2>1. GenWritten(g, [gens[g] EXCEPT !.pc = "streaming"])
      BY <1>3 DEF Drained, GenWritten
    <2> QED
      BY <1>1, <1>3, <2>1, SendingKeeps DEF Sending
  <1> QED
    BY <1>2, <1>3 DEF Drained

\* A chat's audit is the only one that names its generation.
LEMMA FinishAuditIs ==
  ASSUME ChatsInv, NEW g \in Gens, Runs(g), NEW status \in Statuses, FinishAudit(g, status)
  PROVE  /\ audits' \in Seq(AuditRecords \cup {None}) /\ Len(audits') = Len(audits)
         /\ DOMAIN audits' = DOMAIN audits
         /\ \A c \in DOMAIN audits :
              IF audits[c] # None /\ audits[c].gen = g
              THEN audits'[c].gen = g /\ audits'[c].status = status
              ELSE audits'[c] = audits[c]
  <1> DEFINE c == gens[g].chat
  <1>1. /\ audits \in Seq(AuditRecords \cup {None}) /\ DOMAIN audits = DOMAIN chats
        /\ \A d \in DOMAIN audits : AuditSound(d)
    BY LenProperties DEF ChatsInv, AuditsInv, RowsInv, RowsTyped
  <1>2. c \in DOMAIN audits /\ gens[g].pc \notin Over
    <2>1. GenSound(g)
      BY GenIs DEF ChatsInv
    <2> QED
      BY <1>1, <2>1, OverIs DEF GenSound
  <1>3. \A d \in DOMAIN audits : audits[d] # None /\ audits[d].gen = g => d = c
    BY <1>1, <1>2 DEF AuditSound
  <1>4. CASE audits[c] = None \/ audits[c].gen # g
    <2>1. audits' = audits
      BY <1>4 DEF FinishAudit
    <2> QED
      BY <1>1, <1>3, <1>4, <2>1
  <1>5. CASE audits[c] # None /\ audits[c].gen = g
    <2> DEFINE audit == [audits[c] EXCEPT !.status = status]
    <2>1. audits' = [audits EXCEPT ![c] = audit]
      BY <1>5 DEF FinishAudit
    <2>2. audits[c] \in AuditRecords
      <3>1. audits \in [1 .. Len(audits) -> AuditRecords \cup {None}] /\ DOMAIN audits = 1 .. Len(audits)
        BY <1>1, LenProperties
      <3> QED
        BY <1>2, <1>5, <3>1
    <2>3. audit \in AuditRecords /\ audit.gen = g /\ audit.status = status
      BY <1>5, <2>2 DEF AuditRecords
    <2> HIDE DEF audit
    <2> HIDE DEF c
    <2>5. /\ audits' \in Seq(AuditRecords \cup {None}) /\ Len(audits') = Len(audits)
          /\ DOMAIN audits' = DOMAIN audits
          /\ audits'[c] = audit /\ \A d \in DOMAIN audits \ {c} : audits'[d] = audits[d]
      <3>1. audit \in AuditRecords \cup {None}
        BY <2>3
      <3> QED
        BY <1>1, <1>2, <2>1, <3>1, ExceptIs
    <2> QED
      BY <1>3, <1>5, <2>3, <2>5
  <1> QED
    BY <1>4, <1>5

LEMMA AuditsEnd ==
  ASSUME ChatsInv, NEW g \in Gens, Runs(g), NEW status \in {"completed", "failed", "cancelled"},
         NEW gen \in {Ended, Told}, FinishAudit(g, status), GenWritten(g, gen),
         Len(chats') = Len(chats),
         \A c \in DOMAIN chats : chats[c] # None => chats'[c] # None,
         saved' = IF status = "completed" THEN saved \cup {g} ELSE saved
  PROVE  AuditsInv'
  <1>1. /\ GensInv /\ Len(audits) = Len(chats) /\ DOMAIN audits = DOMAIN chats
        /\ \A c \in DOMAIN audits : AuditSound(c)
    BY LenProperties DEF ChatsInv, AuditsInv, RowsInv, RowsTyped
  <1>2. /\ audits' \in Seq(AuditRecords \cup {None}) /\ Len(audits') = Len(audits)
        /\ DOMAIN audits' = DOMAIN audits
        /\ \A c \in DOMAIN audits :
             IF audits[c] # None /\ audits[c].gen = g
             THEN audits'[c].gen = g /\ audits'[c].status = status
             ELSE audits'[c] = audits[c]
    BY FinishAuditIs DEF Statuses
  <1>3. /\ gens'[g].pc \in Over /\ \A h \in Gens \ {g} : gens'[h] = gens[h]
    <2>1. gen \in GenRecords /\ gen.pc \in Over
      BY EndedIs
    <2> QED
      BY <1>1, <2>1, GenWrittenIs
  <1>4. g \notin saved
    BY <1>1, GenIs, OverIs DEF GenSound
  <1>5. ASSUME NEW c \in DOMAIN audits PROVE AuditSound(c)'
    <2>1. AuditSound(c) /\ (audits[c] # None => chats'[c] # None)
      BY <1>1 DEF AuditSound
    <2>2. CASE audits[c] # None /\ audits[c].gen = g
      <3>1. audits'[c].gen = g /\ audits'[c].status = status
        BY <1>2, <2>2
      <3>2. status = "completed" <=> g \in saved'
        BY <1>4
      <3> QED
        BY <1>3, <2>1, <2>2, <3>1, <3>2 DEF AuditSound
    <2>3. CASE audits[c] # None /\ audits[c].gen # g
      <3>1. audits'[c] = audits[c] /\ audits[c].gen \in Gens
        <4>1. audits[c] \in AuditRecords \cup {None}
          BY <1>5, LenProperties DEF ChatsInv, AuditsInv
        <4>2. audits[c].gen \in Gens
          BY <2>3, <4>1 DEF AuditRecords
        <4> QED
          BY <1>2, <2>3, <4>2
      <3>2. gens'[audits[c].gen] = gens[audits[c].gen]
            /\ (audits[c].gen \in saved <=> audits[c].gen \in saved')
        BY <1>3, <2>3, <3>1
      <3> QED
        BY <2>1, <3>1, <3>2, AuditStays
    <2>4. CASE audits[c] = None
      <3>1. audits'[c] = None
        BY <1>2, <2>4
      <3> QED
        BY <3>1 DEF AuditSound
    <2> QED
      BY <2>2, <2>3, <2>4
  <1> QED
    BY <1>1, <1>2, <1>5 DEF AuditsInv

LEMMA FailAsKeeps ==
  ASSUME ChatsInv, NEW g \in Gens, Runs(g), NEW gen \in {Ended, Told}, FailAs(g, gen)
  PROVE  ChatsInv'
  <1>1. /\ RowsInv /\ GensInv /\ EditorInv
        /\ UNCHANGED <<chats, messages, editor, lastText, ever, dropped, unseeded, switched,
                       blind, saved>>
    BY DEF ChatsInv, FailAs, history
  <1>2. PICK status \in {"failed", "cancelled"} : FinishAudit(g, status)
    <2>1. FinishAudit(g, IF gens[g].aborted THEN "cancelled" ELSE "failed")
      BY DEF FailAs
    <2>2. CASE gens[g].aborted
      BY <2>1, <2>2
    <2>3. CASE ~gens[g].aborted
      BY <2>1, <2>3
    <2> QED
      BY <2>2, <2>3
  <1>3. GenWritten(g, gen) /\ gen \in GenRecords /\ gen.pc \in Over
    BY EndedIs DEF FailAs, GenWritten
  <1>4. RowsInv' /\ RowsTyped' /\ MessagesKept /\ ChatsKept
    BY <1>1, StillKeeps DEF RowsInv
  <1>5. GenSound(g)'
    <2>1. gens'[g].pc \in Over
      BY <1>1, <1>3, GenWrittenIs
    <2> QED
      BY <2>1 DEF GenSound, Runs, Over
  <1>6. GensInv'
    BY <1>1, <1>3, <1>4, <1>5, GenUpdateKeeps
  <1>7. AuditsInv'
    BY <1>1, <1>2, <1>3, AuditsEnd
  <1>8. EditorInv'
    BY <1>1, <1>4, EditorStays
  <1> QED
    BY <1>4, <1>6, <1>7, <1>8 DEF ChatsInv

LEMMA FailKeeps ==
  ASSUME ChatsInv, NEW g \in Gens, Runs(g), Fail(g)
  PROVE  ChatsInv'
  BY FailAsKeeps DEF Fail

LEMMA PrepareKeeps ==
  ASSUME ChatsInv, NEW g \in Gens, gens[g].pc \in {"building", "intercepting"}, Prepare(g)
  PROVE  ChatsInv'
  <1> DEFINE c == gens[g].chat
             gen == [gens[g] EXCEPT !.pc = "streaming"]
             audit == [gen |-> g, status |-> "prepared"]
  <1>0. Runs(g)
    BY DEF Runs
  <1>1. CASE Fail(g)
    BY <1>0, <1>1, FailKeeps
  <1>2. CASE ~Fail(g)
    <2>1. /\ RowsInv /\ GensInv /\ EditorInv /\ chats[c] # None
          /\ audits' = [audits EXCEPT ![c] = audit] /\ GenWritten(g, gen)
          /\ UNCHANGED <<chats, messages, editor, lastText, ever, dropped, unseeded, switched,
                         blind, saved>>
      BY <1>2 DEF ChatsInv, Prepare, Exists, history, GenWritten
    <2>2. /\ gen \in GenRecords /\ gen.pc = "streaming" /\ gen.chat = gens[g].chat
          /\ gen.branch = gens[g].branch /\ gen.target = gens[g].target
          /\ gen.captured = gens[g].captured /\ GenSound(g) /\ gens[g] \in GenRecords
      <3>1. gens[g] \in GenRecords /\ GenSound(g)
        BY <2>1, GenIs
      <3> QED
        BY <3>1 DEF GenRecords, Pcs
    <2>3. RowsInv' /\ RowsTyped' /\ MessagesKept /\ ChatsKept
      BY <2>1, StillKeeps DEF RowsInv
    <2> HIDE DEF gen, audit
    <2>4. gens'[g] = gen /\ \A h \in Gens \ {g} : gens'[h] = gens[h]
      BY <2>1, <2>2, GenWrittenIs
    <2>5. GenSound(g)'
      <3>1. Runs(g)'
        BY <2>2, <2>4 DEF Runs
      <3>2. gens'[g].chat = gens[g].chat /\ gens'[g].branch = gens[g].branch
            /\ gens'[g].target = gens[g].target /\ gens'[g].captured = gens[g].captured
        BY <2>2, <2>4
      <3>3. saved' = saved
        BY <2>1
      <3> QED
        BY <1>0, <2>1, <2>2, <2>3, <3>1, <3>2, <3>3, GenStays
    <2>6. GensInv'
      BY <2>1, <2>2, <2>3, <2>5, GenUpdateKeeps
    <2>7. /\ c \in DOMAIN audits /\ DOMAIN audits = DOMAIN chats
          /\ audits \in Seq(AuditRecords \cup {None}) /\ Len(audits) = Len(chats)
          /\ \A d \in DOMAIN audits : AuditSound(d)
      <3>1. DOMAIN audits = DOMAIN chats
        BY LenProperties DEF ChatsInv, AuditsInv, RowsInv, RowsTyped
      <3>2. c \in DOMAIN chats
        BY <1>0, <2>2 DEF GenSound
      <3> QED
        BY <3>1, <3>2 DEF ChatsInv, AuditsInv
    <2>8. /\ audits' \in Seq(AuditRecords \cup {None}) /\ Len(audits') = Len(audits)
          /\ DOMAIN audits' = DOMAIN audits
          /\ audits'[c] = audit /\ \A d \in DOMAIN audits \ {c} : audits'[d] = audits[d]
      <3>1. audit \in AuditRecords \cup {None}
        BY DEF audit, AuditRecords, Statuses
      <3> HIDE DEF c
      <3> QED
        BY <2>1, <2>7, <3>1, ExceptIs
    <2>9. ASSUME NEW d \in DOMAIN audits PROVE AuditSound(d)'
      <3>1. CASE d = c
        <4>1. audits'[d].gen = g /\ audits'[d].status = "prepared" /\ chats'[d] # None
          BY <2>1, <2>8, <3>1 DEF audit
        <4>2. gens'[g].pc = "streaming" /\ gens'[g].chat = d
          BY <2>2, <2>4, <3>1
        <4>3. g \notin saved'
          BY <1>0, <2>1, <2>2, OverIs DEF GenSound
        <4> QED
          BY <4>1, <4>2, <4>3 DEF AuditSound, Sending, Over
      <3>2. CASE d # c
        <4>1. audits'[d] = audits[d] /\ AuditSound(d) /\ saved' = saved
          BY <2>1, <2>7, <2>8, <3>2
        <4>2. ASSUME audits[d] # None
              PROVE  audits[d].gen \in Gens \ {g} /\ chats'[d] # None
          <5>1. audits[d] \in AuditRecords \cup {None}
            BY <2>7, <2>9, LenProperties
          <5>2. audits[d].gen \in Gens
            BY <4>2, <5>1 DEF AuditRecords
          <5> QED
            BY <2>1, <4>1, <4>2, <5>2 DEF AuditSound, Sending, Over
        <4> QED
          BY <2>4, <4>1, <4>2, AuditStays
      <3> QED
        BY <3>1, <3>2
    <2>10. AuditsInv'
      <3>1. Len(chats') = Len(chats)
        BY <2>1
      <3> QED
        BY <2>7, <2>8, <2>9, <3>1 DEF AuditsInv
    <2>11. EditorInv'
      BY <2>1, <2>3, EditorStays
    <2> QED
      BY <2>3, <2>6, <2>10, <2>11 DEF ChatsInv
  <1> QED
    BY <1>1, <1>2

LEMMA BuildKeeps ==
  ASSUME ChatsInv, NEW g \in Gens, Build(g)
  PROVE  ChatsInv'
  <1>0. gens[g].pc = "building" /\ Runs(g)
    BY DEF Build, Runs
  <1>1. CASE Fail(g)
    BY <1>0, <1>1, FailKeeps
  <1>2. CASE Prepare(g)
    BY <1>0, <1>2, PrepareKeeps
  <1>3. CASE /\ gens' = [gens EXCEPT ![g].pc = "intercepting"]
             /\ UNCHANGED <<chats, messages, audits, editor, lastText, requests, starts, history>>
    <2> DEFINE gen == [gens[g] EXCEPT !.pc = "intercepting"]
    <2>1. GenWritten(g, gen) /\ RowsUntouched
      BY <1>3 DEF GenWritten, RowsUntouched, history
    <2>2. gens[g] \in GenRecords
      BY GenIs DEF ChatsInv
    <2>3. /\ gen \in GenRecords /\ gen.pc = "intercepting" /\ gen.chat = gens[g].chat
          /\ gen.branch = gens[g].branch /\ gen.target = gens[g].target
          /\ gen.captured = gens[g].captured
      BY <2>2 DEF GenRecords, Pcs
    <2> HIDE DEF gen
    <2> QED
      BY <1>0, <2>1, <2>3, GenGoesOn DEF Early
  <1> QED
    BY <1>1, <1>2, <1>3 DEF Build

LEMMA InterceptEndsKeeps ==
  ASSUME ChatsInv, NEW g \in Gens, InterceptEnds(g)
  PROVE  ChatsInv'
  BY PrepareKeeps DEF InterceptEnds

LEMMA StreamFailsKeeps ==
  ASSUME ChatsInv, NEW g \in Gens, StreamFails(g)
  PROVE  ChatsInv'
  BY FailKeeps, FailAsKeeps DEF StreamFails, Runs

\* The reply becomes a message, or the content of its target.
LEMMA SaveRows ==
  ASSUME ChatsInv, NEW g \in Gens, Runs(g), ~Unsavable(g), Save(g)
  PROVE  /\ RowsInv' /\ MessagesKept /\ ChatsKept /\ Len(chats') = Len(chats)
         /\ \A c \in DOMAIN chats : chats[c] # None => chats'[c] # None
  <1>0. PICK c, t, n, b : /\ c = gens[g].chat /\ t = gens[g].target /\ n = Len(messages) + 1
                          /\ b = gens[g].branch
    OBVIOUS
  <1>1. /\ RowsInv /\ RowsTyped /\ GensInv /\ Fresh
        /\ UNCHANGED <<unseeded, switched>>
    BY DEF ChatsInv, RowsInv, Save
  <1>2. lastText \in Nat /\ lastText' \in Nat /\ lastText <= lastText'
        /\ lastText + 1 \in 1 .. lastText'
    BY <1>1 DEF RowsTyped, Fresh
  <1>3. /\ c \in DOMAIN chats /\ b \in Nat
        /\ chats[c] # None => /\ b \in 1 .. chats[c].branches
                              /\ c \notin switched => b = chats[c].active
        /\ t # 0 => t \in DOMAIN messages /\ gens[g].captured \in 1 .. lastText
    BY <1>0, <1>1, GenIs DEF GenSound
  <1>4. CASE t = 0
    <2> DEFINE row == Row(c, b, "assistant", lastText + 1, None)
               count == Count(messages', c, b)
               chat == [chats[c] EXCEPT !.count = count]
    <2>1. /\ chats[c] # None /\ Insert(<<row>>)
          /\ chats' = [chats EXCEPT ![c].count = Count(Append(messages, row), c, b)]
      BY <1>0, <1>4 DEF Save, Unsavable, Exists
    <2>2. /\ row \in MessageRows /\ row.chat = c /\ row.branch = b
          /\ row.content = lastText + 1 /\ Texts(row) = {lastText + 1} /\ Hole(row)
      <3> DEFINE text == lastText + 1
      <3>1. text \in Nat /\ c \in Nat
        BY <1>1, <1>2, <1>3, TablesAre
      <3> HIDE DEF text
      <3>2. LET new == Row(c, b, "assistant", text, None) IN
            /\ new \in MessageRows /\ new.chat = c /\ new.branch = b
            /\ new.content = text /\ Texts(new) = {text} /\ Hole(new)
        BY <1>3, <3>1, NewRowIs DEF Roles
      <3> QED
        BY <3>2 DEF text
    <2> HIDE DEF row
    <2>3. messages' = Append(messages, row) /\ messages' \in Seq(MessageRows \cup {None})
      <3>1. messages \in Seq(MessageRows \cup {None}) /\ row \in MessageRows \cup {None}
        BY <1>1, <2>2 DEF RowsTyped
      <3>2. messages' = Append(messages, row)
        BY <2>1, <3>1, AppendIsConcat DEF Insert
      <3> QED
        BY <3>1, <3>2, AppendProperties
    <2>4. ChatWritten(c, chat)
      BY <2>1, <2>3 DEF ChatWritten
    <2>5. /\ chats[c] \in ChatRecords /\ chats[c].branches \in Nat
          /\ chats[c].active \in (1 .. chats[c].branches) \cup {None}
      BY <1>1, <1>3, <2>1, ChatIs
    <2>6. count \in Nat
      BY <2>3, CountIs
    <2>7. /\ chat \in ChatRecords /\ chat.branches = chats[c].branches
          /\ chat.active = chats[c].active /\ chat.count = count
      <3> HIDE DEF count
      <3> QED
        BY <2>5, <2>6, CountedIs
    <2> HIDE DEF chat
    <2>8. ChatMoves(c, chat)
      BY <1>1, <1>3, <2>1, <2>5, <2>7 DEF ChatMoves
    <2>9. /\ chats' \in Seq(ChatRecords \cup {None}) /\ Len(chats') = Len(chats)
          /\ DOMAIN chats' = DOMAIN chats /\ chats'[c] = chat /\ chat # None
          /\ \A d \in DOMAIN chats \ {c} : chats'[d] = chats[d]
      BY <1>1, <1>3, <2>4, <2>7, ChatWrittenIs, NoneAssumption
    <2>10. /\ RowsTyped' /\ MessagesKept
           /\ n \in Nat /\ DOMAIN messages' = DOMAIN messages \cup {n}
           /\ messages'[n] = row /\ ever'[n] = {row.content}
           /\ \A d, a : d # row.chat => OfBranch(messages', d, a) = OfBranch(messages, d, a)
      BY <1>0, <1>1, <1>2, <2>1, <2>2, <2>9, InsertIs
    <2>11. MessageSound(n)'
      <3>1. /\ row.chat \in DOMAIN chats' /\ chats'[row.chat] # None
            /\ row.branch \in 1 .. chats'[row.chat].branches /\ Texts(row) \subseteq 1 .. lastText'
            /\ ever'[n] \subseteq Texts(row) /\ n \in DOMAIN messages'
        BY <1>2, <1>3, <2>1, <2>2, <2>7, <2>9, <2>10
      <3> QED
        BY <2>2, <2>10, <3>1, NewIsSound
    <2>12. RowsInv' /\ ChatsKept
      <3>1. \A d \in DOMAIN chats \ {c} : OfBranch(messages', d, chats[d].active)
                                            = OfBranch(messages, d, chats[d].active)
        BY <2>2, <2>10
      <3>2. \A m \in DOMAIN messages' \ DOMAIN messages : MessageSound(m)'
        BY <2>10, <2>11
      <3>3. switched \subseteq switched'
        BY <1>1
      <3> QED
        BY <1>1, <1>3, <2>1, <2>4, <2>8, <2>10, <3>1, <3>2, <3>3, ChatUpdateKeeps
    <2> QED
      BY <2>9, <2>10, <2>12
  <1>5. CASE t # 0
    <2> DEFINE captured == gens[g].captured
               losing == {messages[t].content} \ {captured}
    <2>1. /\ messages[t] # None /\ ~Collides(messages[t]) /\ UNCHANGED chats
          /\ messages[t].variantCount \in Positions
          /\ Rewrite(t, Replaced(messages[t], captured, lastText + 1), losing)
      BY <1>0, <1>5 DEF Save, Unsavable
    <2>2. messages[t] \in MessageRows /\ messages[t].content \in 1 .. lastText
      BY <1>1, <1>3, <1>5, <2>1, TextsAre
    <2>3. captured \in Nat /\ lastText + 1 \in Nat
      BY <1>2, <1>3, <1>5
    <2>4. losing \in SUBSET Nat /\ {captured, lastText + 1} \in SUBSET (1 .. lastText')
      BY <1>2, <1>3, <1>5, <2>2
    <2>5. Moves(messages[t], Replaced(messages[t], captured, lastText + 1), losing,
                {captured, lastText + 1})
      BY <2>1, <2>2, <2>3, ReplacedIs
    <2> HIDE DEF losing, captured
    <2>6. RowsInv' /\ MessagesKept /\ ChatsKept
      BY <1>1, <1>2, <1>3, <1>5, <2>1, <2>4, <2>5, RewriteKeeps
    <2> QED
      BY <2>1, <2>6
  <1> QED
    BY <1>4, <1>5

LEMMA FinishKeeps ==
  ASSUME ChatsInv, NEW g \in Gens, Finish(g)
  PROVE  ChatsInv'
  <1>0. Runs(g)
    BY DEF Finish, Runs
  <1>1. CASE Fail(g)
    BY <1>0, <1>1, FailKeeps
  <1>2. CASE ~Unsavable(g) /\ Save(g)
    <2>1. /\ RowsInv' /\ MessagesKept /\ ChatsKept /\ Len(chats') = Len(chats)
          /\ \A c \in DOMAIN chats : chats[c] # None => chats'[c] # None
      BY <1>0, <1>2, SaveRows
    <2>2. /\ RowsInv /\ GensInv /\ EditorInv /\ RowsTyped'
          /\ GenWritten(g, Ended) /\ FinishAudit(g, "completed")
          /\ saved' = saved \cup {g} /\ UNCHANGED <<editor, blind>>
      BY <1>2, <2>1 DEF ChatsInv, RowsInv, Save, GenWritten
    <2>3. GenSound(g)'
      <3>1. gens'[g].pc = "ended"
        BY <2>2, EndedIs, GenWrittenIs
      <3> QED
        BY <3>1 DEF GenSound, Runs, Over
    <2>4. GensInv'
      BY <2>1, <2>2, <2>3, EndedIs, GenUpdateKeeps
    <2>5. AuditsInv'
      BY <1>0, <2>1, <2>2, AuditsEnd
    <2>6. EditorInv'
      BY <2>1, <2>2, EditorStays
    <2> QED
      BY <2>1, <2>4, <2>5, <2>6 DEF ChatsInv
  <1> QED
    BY <1>1, <1>2 DEF Finish

\* The last message of a branch.
LEMMA LatestIs ==
  ASSUME RowsTyped, NEW c, NEW b
  PROVE  /\ Latest(c, b) \in Nat
         /\ Latest(c, b) # 0 => /\ Latest(c, b) \in DOMAIN messages
                                /\ messages[Latest(c, b)] # None
  <1> DEFINE S == OfBranch(messages, c, b) \cup {0}
  <1>1. Len(messages) \in Nat
    BY TablesAre
  <1>2. /\ OfBranch(messages, c, b) \in SUBSET Nat
        /\ \A m \in OfBranch(messages, c, b) : m <= Len(messages)
    BY CountIs DEF RowsTyped
  <1>3. S \in SUBSET Nat /\ S # {} /\ \A x \in S : x <= Len(messages)
    BY <1>1, <1>2
  <1> HIDE DEF S
  <1>4. Max(S) \in S
    BY <1>1, <1>3, MaxIs
  <1>5. Latest(c, b) = Max(S)
    BY DEF Latest, S
  <1>6. Latest(c, b) \in Nat /\ (Latest(c, b) # 0 => Latest(c, b) \in OfBranch(messages, c, b))
    BY <1>3, <1>4, <1>5 DEF S
  <1> QED
    BY <1>6 DEF OfBranch, Live

\* A request is answered in the branch that is active, now that it has one.
LEMMA StartRows ==
  ASSUME RowsInv, NEW c \in DOMAIN chats, chats[c] # None,
         UNCHANGED <<unseeded, switched>>,
         \/ /\ Fresh
            /\ Insert(<<Row(c, WithBranch(chats[c]).active, "user", lastText + 1, None)>>)
            /\ SetCount(c, WithBranch(chats[c]), Append(messages,
                 Row(c, WithBranch(chats[c]).active, "user", lastText + 1, None)))
         \/ /\ ChatWritten(c, WithBranch(chats[c]))
            /\ UNCHANGED <<messages, lastText, ever, dropped>>
  PROVE  /\ RowsInv' /\ MessagesKept /\ ChatsKept
         /\ Len(chats') = Len(chats) /\ \A d \in DOMAIN chats : chats[d] # None => chats'[d] # None
         /\ c \in DOMAIN chats' /\ chats'[c].branches = WithBranch(chats[c]).branches
         /\ chats'[c].active = WithBranch(chats[c]).active
  <1> DEFINE chat == WithBranch(chats[c])
             row == Row(c, chat.active, "user", lastText + 1, None)
  <1>1. CASE Fresh /\ Insert(<<row>>) /\ SetCount(c, chat, Append(messages, row))
    <2> HIDE DEF row
    <2>1. row = Row(c, WithBranch(chats[c]).active, "user", lastText + 1, None)
      BY DEF row
    <2> QED
      BY <1>1, <2>1, InsertCounted
  <1>2. CASE ChatWritten(c, chat) /\ UNCHANGED <<messages, lastText, ever, dropped>>
    <2>1. /\ chat \in ChatRecords /\ chat.branches >= chats[c].branches
          /\ chat.active \in 1 .. chat.branches /\ (c \notin switched => chat = chats[c])
          /\ chat # None
      BY WithBranchIs, NoneAssumption
    <2>2. /\ chats' \in Seq(ChatRecords \cup {None}) /\ Len(chats') = Len(chats)
          /\ DOMAIN chats' = DOMAIN chats /\ chats'[c] = chat
          /\ \A d \in DOMAIN chats : chats[d] # None => chats'[d] # None
      BY <1>2, <2>1, ChatWrittenIs DEF RowsInv
    <2>3. /\ RowsTyped' /\ MessagesKept /\ DOMAIN messages' \ DOMAIN messages = {}
          /\ \A d, b : OfBranch(messages', d, b) = OfBranch(messages, d, b)
          /\ \A d, b : Count(messages', d, b) = Count(messages, d, b)
      BY <1>2, <2>2, RowsSame
    <2>4. ChatMoves(c, chat)
      <3>1. c \notin switched => chats[c].count = Count(messages, c, chats[c].active)
        BY ChatIs
      <3> HIDE DEF chat
      <3> QED
        BY <2>1, <2>3, <3>1 DEF ChatMoves
    <2>5. RowsInv' /\ ChatsKept
      BY <1>2, <2>3, <2>4, ChatUpdateKeeps
    <2> QED
      BY <2>2, <2>3, <2>5
  <1> QED
    BY <1>1, <1>2

LEMMA StartKeeps ==
  ASSUME ChatsInv, NEW g \in Gens, NEW c \in DOMAIN chats, NEW want, NEW id, Start(g, c, want, id)
  PROVE  ChatsInv'
  <1> DEFINE chat == WithBranch(chats[c])
             last == IF chats[c].active = None THEN 0 ELSE Latest(c, chat.active)
             assistant == IF last = 0 THEN FALSE ELSE messages[last].role = "assistant"
             moved == want = "message" /\ ~(last = id /\ assistant)
             target == IF want \in {"legacy", "message"} /\ assistant THEN last ELSE 0
             captured == IF target = 0 THEN 0 ELSE messages[target].content
             running == [pc |-> "building", chat |-> c, branch |-> chat.active,
                         target |-> target, captured |-> captured, aborted |-> FALSE]
  <1>1. /\ RowsInv /\ RowsTyped /\ GensInv /\ EditorInv /\ chats[c] # None
        /\ gens[g].pc = "idle"
        /\ UNCHANGED <<audits, editor, unseeded, switched, blind, saved>>
    BY DEF ChatsInv, RowsInv, Start, Exists
  <1>2. PICK gen \in {Ended, running} : GenWritten(g, gen)
    BY DEF Start, GenWritten
  <1>3. /\ chat.branches \in Nat /\ chat.active \in 1 .. chat.branches /\ chat.active \in Nat
    BY <1>1, WithBranchIs
  <1>4. /\ RowsInv' /\ MessagesKept /\ ChatsKept
        /\ Len(chats') = Len(chats) /\ \A d \in DOMAIN chats : chats[d] # None => chats'[d] # None
        /\ c \in DOMAIN chats' /\ chats'[c].branches = chat.branches
        /\ chats'[c].active = chat.active
    <2> DEFINE row == Row(c, chat.active, "user", lastText + 1, None)
    <2>1. \/ Fresh /\ Insert(<<row>>) /\ SetCount(c, chat, Append(messages, row))
          \/ ChatWritten(c, chat) /\ UNCHANGED <<messages, lastText, ever, dropped>>
      BY DEF Start, ChatWritten
    <2> QED
      BY <1>1, <2>1, StartRows
  <1>5. /\ target \in Nat /\ captured \in Nat
        /\ target # 0 => target \in DOMAIN messages /\ captured \in 1 .. lastText
    <2>1. last \in Nat /\ (last # 0 => last \in DOMAIN messages /\ messages[last] # None)
      BY <1>1, LatestIs
    <2>2. target \in {0, last}
      OBVIOUS
    <2> HIDE DEF last, target
    <2>3. target # 0 => target \in DOMAIN messages /\ messages[target].content \in 1 .. lastText
      BY <1>1, <2>1, <2>2, TextsAre
    <2>4. lastText \in Nat
      BY <1>1 DEF RowsTyped
    <2> QED
      BY <2>1, <2>2, <2>3, <2>4
  <1>6. c \in Nat
    BY <1>1, TablesAre
  <1> HIDE DEF chat, target, captured
  <1>7. running \in GenRecords
    BY <1>3, <1>5, <1>6 DEF GenRecords, Pcs
  <1>8. gen \in GenRecords
    BY <1>2, <1>7, EndedIs
  <1> HIDE DEF running
  <1>9. gens'[g] = gen
    BY <1>1, <1>2, <1>8, GenWrittenIs
  <1>10. g \notin saved'
    BY <1>1, GenIs DEF GenSound, Over
  <1>11. GenSound(g)'
    <2>1. CASE gen = Ended
      BY <1>9, <1>10, <2>1, EndedIs DEF GenSound, Runs
    <2>2. CASE gen = running
      <3>1. /\ gens'[g].chat = c /\ gens'[g].branch = chat.active /\ gens'[g].target = target
            /\ gens'[g].captured = captured
        BY <1>9, <2>2 DEF running
      <3>2. chat.active \in 1 .. chats'[c].branches /\ chat.active = chats'[c].active
        BY <1>3, <1>4
      <3>3. target # 0 => target \in DOMAIN messages' /\ captured \in 1 .. lastText'
        <4>1. lastText \in Nat /\ lastText' \in Nat /\ lastText <= lastText'
              /\ DOMAIN messages \subseteq DOMAIN messages'
          BY <1>1, <1>4 DEF RowsInv, RowsTyped, MessagesKept
        <4> QED
          BY <1>5, <4>1
      <3> QED
        BY <1>4, <1>10, <3>1, <3>2, <3>3 DEF GenSound
    <2> QED
      BY <1>2, <2>1, <2>2
  <1>12. GensInv'
    <2>1. saved' \subseteq saved \cup {g} /\ RowsTyped'
      BY <1>1, <1>4 DEF RowsInv
    <2> QED
      BY <1>1, <1>2, <1>4, <1>8, <1>11, <2>1, GenUpdateKeeps
  <1>13. AuditsInv'
    BY <1>1, <1>2, <1>4, <1>8, AuditsStay
  <1>14. EditorInv'
    <2>1. RowsTyped'
      BY <1>4 DEF RowsInv
    <2> QED
      BY <1>1, <1>4, <2>1, EditorStays
  <1> QED
    BY <1>4, <1>12, <1>13, <1>14 DEF ChatsInv

-----------------------------------------------------------------------------
(* The invariant.                                                          *)

\* One chat, and in it one or two messages that have shown what they show.
LEMMA FirstRows ==
  ASSUME Init
  PROVE  /\ messages \in Seq(MessageRows) /\ Len(messages) \in {1, 2}
         /\ DOMAIN messages = 1 .. Len(messages)
         /\ \A m \in DOMAIN messages :
              /\ messages[m].chat = 1 /\ messages[m].branch = 1
              /\ Texts(messages[m]) = {messages[m].content} /\ messages[m].content \in {1, 2}
              /\ messages[m].greeting \/ Hole(messages[m])
  <1>1. 1 \in Nat /\ 2 \in Nat
    OBVIOUS
  <1>2. CASE messages = <<GreetingRow(1, 1)>>
    <2> DEFINE row == GreetingRow(1, 1)
    <2>1. /\ row \in MessageRows /\ row.chat = 1 /\ row.branch = 1 /\ row.content = 1
          /\ Texts(row) = {1}
      BY <1>1, GreetingRowIs
    <2>2. row.greeting
      BY DEF GreetingRow, Row
    <2> HIDE DEF row
    <2>3. messages = <<row>>
      BY <1>2 DEF row
    <2>4. messages \in Seq(MessageRows) /\ Len(messages) = 1 /\ DOMAIN messages = 1 .. 1
          /\ \A m \in 1 .. 1 : messages[m] = row
      BY <2>1, <2>3
    <2> QED
      BY <2>1, <2>2, <2>4
  <1>3. CASE messages = <<Row(1, 1, "user", 1, None), Row(1, 1, "assistant", 2, None)>>
    <2> DEFINE ask == Row(1, 1, "user", 1, None)
               reply == Row(1, 1, "assistant", 2, None)
    <2>1. /\ ask \in MessageRows /\ ask.chat = 1 /\ ask.branch = 1 /\ ask.content = 1
          /\ Texts(ask) = {1} /\ Hole(ask)
      BY <1>1, NewRowIs DEF Roles
    <2>2. /\ reply \in MessageRows /\ reply.chat = 1 /\ reply.branch = 1 /\ reply.content = 2
          /\ Texts(reply) = {2} /\ Hole(reply)
      BY <1>1, NewRowIs DEF Roles
    <2> HIDE DEF ask, reply
    <2>3. messages = <<ask, reply>>
      BY <1>3 DEF ask, reply
    <2>4. messages \in Seq(MessageRows) /\ Len(messages) = 2 /\ DOMAIN messages = 1 .. 2
          /\ \A m \in 1 .. 2 : messages[m] = ask \/ messages[m] = reply
      BY <2>1, <2>2, <2>3
    <2> QED
      BY <2>1, <2>2, <2>4
  <1> QED
    BY <1>2, <1>3 DEF Init

LEMMA FirstTables ==
  ASSUME Init
  PROVE  /\ RowsTyped /\ 2 <= lastText
         /\ DOMAIN chats = {1} /\ chats[1] = NewChat(Len(messages)) /\ Len(chats) = 1
         /\ \A m \in DOMAIN messages : ever[m] = {messages[m].content}
  <1> DEFINE n == Len(messages)
  <1>1. messages \in Seq(MessageRows) /\ n \in {1, 2} /\ DOMAIN messages = 1 .. n
    BY FirstRows
  <1>2. \A m \in DOMAIN messages : messages[m].content \in Nat
    BY <1>1, FirstRows
  <1>3. messages \in Seq(MessageRows \cup {None})
    BY <1>1, SeqMonotonic
  <1>4. chats = <<NewChat(n)>> /\ NewChat(n) \in ChatRecords
    BY <1>1, NewChatIs DEF Init
  <1>5. /\ chats \in Seq(ChatRecords \cup {None}) /\ DOMAIN chats = {1} /\ chats[1] = NewChat(n)
        /\ Len(chats) = 1
    <2> DEFINE chat == NewChat(n)
    <2> HIDE DEF chat
    <2>1. chats = <<chat>> /\ chat \in ChatRecords
      BY <1>4 DEF chat
    <2>2. chats \in Seq(ChatRecords \cup {None}) /\ DOMAIN chats = {1} /\ chats[1] = chat
          /\ Len(chats) = 1
      BY <2>1
    <2> QED
      BY <2>2 DEF chat
  <1>6. lastText \in Nat /\ Greetings <= lastText /\ 2 <= lastText
    <2> DEFINE S == {Greetings, 2}
    <2>1. S \in SUBSET Nat /\ S # {} /\ Greetings + 2 \in Nat /\ \A x \in S : x <= Greetings + 2
      BY ChatBounds
    <2>2. Greetings \in S /\ 2 \in S /\ lastText = Max(S)
      BY DEF Init
    <2> HIDE DEF S
    <2>3. Max(S) \in S /\ \A x \in S : x <= Max(S)
      BY <2>1, MaxIs
    <2> QED
      BY <2>1, <2>2, <2>3
  <1>7. ever \in Seq(SUBSET Nat) /\ Len(ever) = n /\ \A m \in DOMAIN messages : ever[m] = {messages[m].content}
    <2>1. ever = [m \in DOMAIN messages |-> {messages[m].content}]
      BY DEF Init
    <2>2. ever \in [1 .. n -> SUBSET Nat]
      BY <1>1, <1>2, <2>1
    <2>3. ever \in Seq(SUBSET Nat)
      BY <1>1, <2>2, SeqDef
    <2>4. DOMAIN ever = 1 .. Len(ever) /\ Len(ever) \in Nat
      BY <2>3, LenProperties
    <2>5. Len(ever) = n
      BY <1>1, <2>2, <2>4
    <2> QED
      BY <2>1, <2>3, <2>5
  <1>8. dropped \in Seq(SUBSET Nat) /\ Len(dropped) = n
    <2>1. dropped = [m \in DOMAIN messages |-> {}]
      BY DEF Init
    <2>2. dropped \in [1 .. n -> SUBSET Nat]
      BY <1>1, <2>1
    <2>3. dropped \in Seq(SUBSET Nat)
      BY <1>1, <2>2, SeqDef
    <2>4. DOMAIN dropped = 1 .. Len(dropped) /\ Len(dropped) \in Nat
      BY <2>3, LenProperties
    <2>5. Len(dropped) = n
      BY <1>1, <2>2, <2>4
    <2> QED
      BY <2>3, <2>5
  <1>9. unseeded \subseteq DOMAIN messages
    BY DEF Init
  <1> QED
    BY <1>3, <1>5, <1>6, <1>7, <1>8, <1>9 DEF RowsTyped

LEMMA FirstStep == Init => ChatsInv
  <1> SUFFICES ASSUME Init PROVE ChatsInv
    OBVIOUS
  <1>1. /\ messages \in Seq(MessageRows) /\ Len(messages) \in {1, 2}
        /\ DOMAIN messages = 1 .. Len(messages)
        /\ \A m \in DOMAIN messages :
             /\ messages[m].chat = 1 /\ messages[m].branch = 1
             /\ Texts(messages[m]) = {messages[m].content} /\ messages[m].content \in {1, 2}
             /\ messages[m].greeting \/ Hole(messages[m])
    BY FirstRows
  <1>2. /\ RowsTyped /\ 2 <= lastText
        /\ DOMAIN chats = {1} /\ chats[1] = NewChat(Len(messages)) /\ Len(chats) = 1
        /\ \A m \in DOMAIN messages : ever[m] = {messages[m].content}
    BY FirstTables
  <1>3. /\ chats[1] # None /\ chats[1].active = 1 /\ chats[1].branches = 1
        /\ chats[1].count = Len(messages)
    BY <1>1, <1>2, NewChatIs
  <1>4. /\ unseeded = {m \in DOMAIN messages : messages[m].greeting}
        /\ switched = {} /\ blind = {} /\ saved = {} /\ editor = None /\ audits = <<None>>
        /\ gens = [g \in Gens |-> NoGen]
    BY DEF Init
  <1>5. ASSUME NEW m \in DOMAIN messages PROVE MessageSound(m)
    <2>1. /\ messages[m].chat \in DOMAIN chats /\ chats[messages[m].chat] # None
          /\ messages[m].branch \in 1 .. chats[messages[m].chat].branches
      BY <1>1, <1>2, <1>3, <1>5
    <2>2. Texts(messages[m]) \subseteq 1 .. lastText
      <3>1. lastText \in Nat
        BY <1>2 DEF RowsTyped
      <3>2. 1 \in 1 .. lastText /\ 2 \in 1 .. lastText
        BY <1>2, <3>1
      <3> QED
        BY <1>1, <1>5, <3>2
    <2>3. m \notin unseeded => Hole(messages[m])
      BY <1>1, <1>4, <1>5
    <2>4. ever[m] \ dropped[m] \subseteq Texts(messages[m])
      BY <1>1, <1>2, <1>5
    <2> QED
      BY <2>1, <2>2, <2>3, <2>4 DEF MessageSound
  <1>6. ASSUME NEW c \in DOMAIN chats PROVE ChatSound(c)
    <2>1. c = 1 /\ 1 \in 1 .. 1 /\ 1 # None
      BY <1>2, <1>6, NoneAssumption
    <2>2. Count(messages, 1, 1) = Len(messages)
      <3>1. \A m \in DOMAIN messages : messages[m] # None
        <4>1. \A m \in DOMAIN messages : messages[m] \in MessageRows
          BY <1>1, ElementOfSeq
        <4> QED
          BY <4>1, NoneAssumption
      <3>2. OfBranch(messages, 1, 1) = 1 .. Len(messages)
        BY <1>1, <3>1 DEF OfBranch, Live
      <3>3. Cardinality(1 .. Len(messages)) = Len(messages)
        <4>1. 1 \in Int /\ Len(messages) \in Int
          BY <1>1
        <4>2. Cardinality(1 .. Len(messages)) = IF 1 > Len(messages) THEN 0 ELSE Len(messages) - 1 + 1
          BY <4>1, FS_Interval
        <4> QED
          BY <1>1, <4>2
      <3> QED
        BY <3>2, <3>3 DEF Count
    <2> QED
      BY <1>3, <2>1, <2>2 DEF ChatSound
  <1>7. RowsInv
    BY <1>2, <1>5, <1>6 DEF RowsInv
  <1>8. GensInv
    <2>1. NoGen \in GenRecords /\ NoGen.pc = "idle"
      BY DEF NoGen, GenRecords, Pcs
    <2>2. \A g \in Gens : gens[g] = NoGen
      BY <1>4
    <2>3. \A g \in Gens : GenSound(g)
      BY <1>4, <2>1, <2>2 DEF GenSound, Runs
    <2> QED
      BY <1>4, <2>1, <2>3 DEF GensInv
  <1>9. AuditsInv
    <2>1. /\ audits \in Seq(AuditRecords \cup {None}) /\ Len(audits) = 1 /\ DOMAIN audits = 1 .. 1
          /\ \A c \in 1 .. 1 : audits[c] = None
      BY <1>4
    <2> QED
      BY <1>2, <2>1 DEF AuditsInv, AuditSound
  <1>10. EditorInv
    BY <1>4 DEF EditorInv, EditorSound, NoBlindEdit
  <1> QED
    BY <1>7, <1>8, <1>9, <1>10 DEF ChatsInv

LEMMA NextStep == ChatsInv /\ [Next]_vars => ChatsInv'
  <1> SUFFICES ASSUME ChatsInv, [Next]_vars PROVE ChatsInv'
    OBVIOUS
  <1>1. ASSUME NEW reuse \in BOOLEAN, CreateChat(reuse) PROVE ChatsInv'
    BY <1>1, CreateChatKeeps
  <1>2. ASSUME NEW c \in DOMAIN chats, PatchActiveBranch(c) \/ Trash(c) \/ Purge(c) PROVE ChatsInv'
    BY <1>2, PatchActiveBranchKeeps, TrashKeeps, PurgeKeeps
  <1>3. ASSUME NEW c \in DOMAIN chats, NEW key \in Keys \cup {None},
               NEW role \in {"user", "assistant"}, PostMessage(c, role, key)
        PROVE  ChatsInv'
    BY <1>3, PostMessageKeeps
  <1>4. CASE EditAsRead
    BY <1>4, EditAsReadKeeps
  <1>5. ASSUME NEW m \in DOMAIN messages,
               DeleteMessage(m) \/ ReadForEdit(m) \/ EditUnconditionally(m)
        PROVE  ChatsInv'
    BY <1>5, DeleteMessageKeeps, ReadForEditKeeps, EditUnconditionallyKeeps
  <1>6. ASSUME NEW m \in DOMAIN messages,
               SwipeGreeting(m) \/ RestoreRevision(m) \/ SwipeVariant(m)
        PROVE  ChatsInv'
    BY <1>6, SwipeGreetingKeeps, RestoreRevisionKeeps, SwipeVariantKeeps
  <1>7. ASSUME NEW m \in DOMAIN messages, NEW checkpoint \in BOOLEAN, Snapshot(m, checkpoint)
        PROVE  ChatsInv'
    BY <1>7, SnapshotKeeps
  <1>8. ASSUME NEW g \in Gens, NEW c \in DOMAIN chats, NEW want, NEW id, Start(g, c, want, id)
        PROVE  ChatsInv'
    BY <1>8, StartKeeps
  <1>9. ASSUME NEW g \in Gens, Disconnect(g) \/ Stall(g) \/ Drained(g) PROVE ChatsInv'
    BY <1>9, DisconnectKeeps, StallKeeps, DrainedKeeps
  <1>10. ASSUME NEW g \in Gens, Step(g) PROVE ChatsInv'
    BY <1>10, BuildKeeps, InterceptEndsKeeps, StreamFailsKeeps, StreamDoneKeeps, FinishKeeps,
       DrainedKeeps DEF Step, Released
  <1>11. CASE UNCHANGED vars
    <2>1. UNCHANGED <<chats, messages, gens, audits, editor, lastText, ever, dropped, unseeded,
                      switched, blind, saved>>
      BY <1>11 DEF vars, history
    <2>2. RowsInv' /\ MessagesKept /\ ChatsKept
      BY <2>1, StillKeeps DEF ChatsInv
    <2> QED
      BY <2>1, <2>2, AuditsSame, RestKeeps
  <1>12. CASE Next
    BY <1>1, <1>2, <1>3, <1>4, <1>5, <1>6, <1>7, <1>8, <1>9, <1>10, <1>12 DEF Next
  <1> QED
    BY <1>11, <1>12

LEMMA InvariantHolds == Spec => []ChatsInv
  BY FirstStep, NextStep, PTL DEF Spec

-----------------------------------------------------------------------------
(* What it is for.                                                         *)

\* The rows of a chat are sound whatever requests and generations overlap: foreign
\* keys resolve, the positions of the variants of a message are all but the active
\* one (setActiveVariant and replaceContentAsVariant in messages.ts), and messageCount
\* counts the active branch.
THEOREM ChatRowsAreSound == Spec => []ChatRowsSound
  <1>1. ChatsInv => ChatRowsSound
    <2> SUFFICES ASSUME ChatsInv PROVE ChatRowsSound
      OBVIOUS
    <2>0. /\ RowsInv /\ RowsTyped /\ GensInv
          /\ audits \in Seq(AuditRecords \cup {None}) /\ DOMAIN audits = DOMAIN chats
          /\ \A c \in DOMAIN audits : AuditSound(c)
      BY LenProperties DEF ChatsInv, RowsInv, RowsTyped, AuditsInv
    <2>1. TypeOK
      <3>1. \A c \in DOMAIN chats : chats[c] # None =>
              /\ chats[c].deleted \in BOOLEAN /\ chats[c].count \in Nat
              /\ chats[c].active \in (1 .. chats[c].branches) \cup {None}
        BY <2>0, ChatIs
      <3>2. \A m \in Live(messages) :
              /\ Exists(messages[m].chat)
              /\ messages[m].branch \in 1 .. chats[messages[m].chat].branches
              /\ messages[m].content \in 1 .. lastText
        BY <2>0, TextsAre DEF Live, Exists, RowsInv, MessageSound
      <3>3. \A g \in Gens : gens[g].pc \in Pcs
        BY <2>0, GenIs
      <3>4. \A c \in DOMAIN chats : audits[c] # None => audits[c].status \in Statuses /\ Exists(c)
        <4> SUFFICES ASSUME NEW c \in DOMAIN chats, audits[c] # None
                     PROVE  audits[c].status \in Statuses /\ Exists(c)
          OBVIOUS
        <4>1. audits[c] \in AuditRecords \cup {None}
          BY <2>0, LenProperties
        <4>2. chats[c] # None
          BY <2>0 DEF AuditSound
        <4> QED
          BY <4>1, <4>2 DEF AuditRecords, Exists
      <3> QED
        BY <3>1, <3>2, <3>3, <3>4 DEF TypeOK
    <2>2. VariantHole
      BY <2>0 DEF VariantHole, Live, RowsInv, MessageSound, Hole
    <2>3. CountRight
      BY <2>0 DEF CountRight, RowsInv, ChatSound
    <2> QED
      BY <2>1, <2>2, <2>3 DEF ChatRowsSound
  <1> QED
    BY <1>1, InvariantHolds, PTL

\* Edits lose no text: what a message has shown stays its content, a variant or a
\* revision, unless a greeting swipe or a late reply dropped it; and a PATCH with
\* expectedRevision never replaces a text that its author has not read.
THEOREM EditsAreSafe == Spec => []EditsSafe
  <1>1. ChatsInv => EditsSafe
    <2> SUFFICES ASSUME ChatsInv PROVE EditsSafe
      OBVIOUS
    <2>1. TextKept
      BY DEF TextKept, Live, ChatsInv, RowsInv, MessageSound, Texts
    <2>2. NoBlindEdit
      BY DEF ChatsInv, EditorInv
    <2> QED
      BY <2>1, <2>2 DEF EditsSafe
  <1> QED
    BY <1>1, InvariantHolds, PTL

\* The prompt audit of a chat is open exactly while the generation it names runs, and
\* completed exactly when that one's reply was saved (the audit repository's finish
\* checks the generation), for any number of overlapping generations.
THEOREM AuditsAreTruthful == Spec => []AuditTruthful
  <1>1. ChatsInv => AuditTruthful
    <2> SUFFICES ASSUME ChatsInv, NEW c \in DOMAIN chats, audits[c] # None
                 PROVE  LET g == audits[c].gen
                        IN  /\ (audits[c].status = "prepared") <=> (gens[g].pc \notin Over)
                            /\ (audits[c].status = "completed") <=> (g \in saved)
      BY DEF AuditTruthful
    <2>1. DOMAIN audits = DOMAIN chats
      BY LenProperties DEF ChatsInv, RowsInv, RowsTyped, AuditsInv
    <2>2. AuditSound(c)
      BY <2>1 DEF ChatsInv, AuditsInv
    <2> QED
      BY <2>2 DEF AuditSound
  <1> QED
    BY <1>1, InvariantHolds, PTL
=============================================================================

-------------------------- MODULE CollectionProofs --------------------------
(***************************************************************************)
(* Proofs about the way of a post into the table of resources, for any     *)
(* posts, drafts and share ids, any lists of drafts an extraction may end  *)
(* in, any collectors, any size of a batch, and any number of requests and *)
(* of things that go wrong.                                                *)
(*                                                                         *)
(* The inductive invariant follows a record of an extraction: what it has  *)
(* left is the rest of a list whose beginning is accounted for (RestInv),  *)
(* its photo is queued before its history is marked (PhotoInv), a share    *)
(* outside overlapped is about to be inserted by one record only, and only *)
(* while no resource has it (ShareInv), and a post extracted once has not  *)
(* stored what its one record has left (OnceInv).  The foreign keys make   *)
(* an extraction that finds its history find its collector too (LiveInv).  *)
(*                                                                         *)
(* The proofs about the fall-back of the extraction follow.                *)
(***************************************************************************)
EXTENDS Collection, Extraction, FiniteSetTheorems, TLAPS

-----------------------------------------------------------------------------
(* The inductive invariant *)

\* The parts of the type invariant: the tables, what is under way, the records, and
\* the counters and ghosts.
TypeDisk ==
  /\ collector \in [Collectors -> {"absent", "active", "paused", "deleted"}]
  /\ history \in [Messages -> [by : Collectors \cup {NoCollector}, extracted : BOOLEAN]]
  /\ stored \in [Messages -> [Drafts -> Nat]]
  /\ queued \subseteq Messages

TypeMemory ==
  /\ posted \subseteq Messages
  /\ saving \in [Messages -> SUBSET Collectors]
  /\ fetching \in [by : Collectors \cup {NoCollector}, left : SUBSET Messages]
  /\ on \in BOOLEAN
  /\ at \in [Collectors -> {"idle", "insert", "histories", "collector"}]

TypeRec == rec \in [Runs -> [Messages -> Rec]]

TypeGhosts ==
  /\ requests \in 0..MaxRequests /\ events \in 0..MaxEvents
  /\ overlapped \subseteq Shares /\ gone \subseteq Drafts
  /\ repeated \subseteq Messages /\ uncovered \subseteq Messages

\* The foreign keys of the database, and its unique index.
OwnedInv ==
  /\ \A m \in Messages : Collected(m) => history[m].by \in Existing
  /\ \A m \in Messages : \A d \in Drafts : stored[m][d] > 0 => Collected(m)

UniqueInv == \A d \in Drafts \ Linkless : AtMostOne({d})

\* An extraction that can still write to its history works on one that is there.
LiveInv == \A r \in Runs : \A m \in Messages : rec[r][m].live => Collected(m)

\* A draft has, or had, its resource or one with a share of it.
Settled(e) == IsStored(e) \/ e \in gone
Accounted(d) == \E e \in Drafts : (e = d \/ Same(d, e)) /\ Settled(e)

\* The drafts left are the rest of a list of the post, and what is before them
\* is accounted for.
Rest(m, left) ==
  \E l \in Results[m] : \E i \in 1..(Len(l) + 1) :
    /\ left = SubSeq(l, i, Len(l))
    /\ \A k \in 1..(i - 1) : Accounted(l[k])

RestInv ==
  \A r \in Runs : \A m \in Messages :
    /\ rec[r][m].at # "none" => Rest(m, rec[r][m].left)
    /\ rec[r][m].at \in {"check", "insert"} <=> rec[r][m].left # <<>>
    /\ rec[r][m].at = "insert" => rec[r][m].draft = Head(rec[r][m].left)

\* Where the photo of a post is when its history is to be marked.
PhotoInv ==
  \A r \in Runs : \A m \in Photos :
    /\ rec[r][m].at = "enqueue" => r # "single"
    /\ rec[r][m].at = "queue" => r = "single"
    /\ rec[r][m].at = "mark" /\ r # "single" /\ Results[m] # {<<>>} =>
         m \in queued \cup uncovered

MarkedInv ==
  \A m \in Messages : history[m].extracted /\ Results[m] # {<<>>} =>
    /\ \E l \in Results[m] : \A d \in Range(l) : Accounted(d)
    /\ m \in Photos => m \in queued \cup uncovered \/ rec["single"][m].at = "queue"

\* An extraction is about to insert a resource with the share s.
Inserting(r, m, s) == rec[r][m].at = "insert" /\ s \in SharesOf[rec[r][m].draft]

\* The share s has no resource while one of it is about to be inserted, and
\* only one is at a time.
ShareInv ==
  \A s \in Shares \ overlapped :
    /\ AtMostOne({d \in Drafts : s \in SharesOf[d]})
    /\ \A r \in Runs : \A m \in Messages : Inserting(r, m, s) =>
         /\ \A n \in Messages : \A e \in Drafts : s \in SharesOf[e] => stored[n][e] = 0
         /\ \A q \in Runs : \A n \in Messages : Inserting(q, n, s) => q = r /\ n = m

\* A post extracted once has one extraction, which has yet to store what is
\* left of it.
OnceInv ==
  \A m \in Messages \ repeated :
    /\ \A q, r \in Runs : rec[q][m].at # "none" /\ rec[r][m].at # "none" => q = r
    /\ \A d \in Linkless : stored[m][d] <= 1
    /\ \A r \in Runs : \A i \in DOMAIN rec[r][m].left :
         rec[r][m].left[i] \in Linkless => stored[m][rec[r][m].left[i]] = 0

IInv == /\ TypeDisk /\ TypeMemory /\ TypeRec /\ TypeGhosts
        /\ OwnedInv /\ UniqueInv /\ LiveInv
        /\ RestInv /\ PhotoInv /\ MarkedInv /\ ShareInv /\ OnceInv

-----------------------------------------------------------------------------
(* Lists and records *)

\* The rest of a list of a post is one of Lists.
LEMMA RestIsList ==
  ASSUME NEW m \in Messages, NEW l \in Results[m], NEW i \in 1..(Len(l) + 1)
  PROVE  /\ l \in Seq(Drafts)
         /\ SubSeq(l, i, Len(l)) \in Lists
         /\ SubSeq(l, i, Len(l)) \in Seq(Drafts)
<1>1. l \in Seq(Drafts)
  BY CollectionAssumption
<1>2. Results[m] \in Range(Results)
  BY CollectionAssumption DEF Range
<1>3. l \in UNION Range(Results)
  BY <1>2
<1>4. SubSeq(l, i, Len(l)) \in Lists
  BY <1>3 DEF Lists
<1> QED BY <1>1, <1>4

\* Taking the head off the rest of a list.
LEMMA RestTail ==
  ASSUME NEW m \in Messages, NEW l \in Results[m], NEW i \in 1..(Len(l) + 1),
         NEW left, left = SubSeq(l, i, Len(l)), left # <<>>
  PROVE  /\ i \in 1..Len(l)
         /\ i + 1 \in 1..(Len(l) + 1)
         /\ Head(left) = l[i]
         /\ Head(left) \in Drafts
         /\ Tail(left) = SubSeq(l, i + 1, Len(l))
         /\ Tail(left) \in Lists
<1>1. l \in Seq(Drafts) /\ Len(l) \in Nat
  BY CollectionAssumption
<1>2. i <= Len(l)
  BY <1>1
<1>3. Len(left) = Len(l) - i + 1
  BY <1>1, <1>2
<1>4. \A k \in 1..Len(left) : left[k] = l[i + k - 1]
  BY <1>1, <1>2, <1>3
<1>5. Head(left) = l[i] /\ l[i] \in Drafts
  BY <1>1, <1>2, <1>3, <1>4
<1>6. Tail(left) = SubSeq(l, i + 1, Len(l))
  <2>1. left \in Seq(Drafts) /\ Len(Tail(left)) = Len(l) - i
    BY <1>1, <1>2, <1>3, RestIsList
  <2>2. SubSeq(l, i + 1, Len(l)) \in Seq(Drafts) /\ Tail(left) \in Seq(Drafts)
    BY <1>1, <1>2, <2>1, RestIsList
  <2>3. Len(SubSeq(l, i + 1, Len(l))) = Len(l) - i
    BY <1>1, <1>2
  <2>4. \A k \in 1..(Len(l) - i) : Tail(left)[k] = l[i + k]
    <3> TAKE k \in 1..(Len(l) - i)
    <3>1. Tail(left)[k] = left[k + 1]
      BY <1>1, <2>1
    <3>2. k + 1 \in 1..Len(left) /\ i + (k + 1) - 1 = i + k
      BY <1>1, <1>2, <1>3
    <3> QED
      BY <1>4, <3>1, <3>2
  <2>5. \A k \in 1..(Len(l) - i) : SubSeq(l, i + 1, Len(l))[k] = l[i + k]
    BY <1>1, <1>2
  <2> QED
    BY <2>1, <2>2, <2>3, <2>4, <2>5
<1>7. i \in 1..Len(l) /\ i + 1 \in 1..(Len(l) + 1)
  BY <1>1, <1>2
<1>8. Tail(left) \in Lists
  BY <1>6, <1>7, RestIsList
<1> QED BY <1>5, <1>6, <1>7, <1>8

\* A step that replaces one record.
LEMMA OneRecord ==
  ASSUME TypeRec, NEW r \in Runs, NEW m \in Messages, NEW new \in Rec,
         rec' = [rec EXCEPT ![r][m] = new]
  PROVE  /\ TypeRec'
         /\ rec'[r][m] = new
         /\ \A q \in Runs : \A n \in Messages : q # r \/ n # m => rec'[q][n] = rec[q][n]
BY DEF TypeRec

\* The record that a step of an extraction leaves behind.
Later(r, m, s, left, draft) ==
  [at |-> s, left |-> left, draft |-> draft, live |-> rec[r][m].live]

\* A record that comes to its next statement is one, and the others stay.
LEMMA ContinueRecord ==
  ASSUME TypeRec, NEW r \in Runs, NEW m \in Messages,
         NEW s \in {"check", "insert", "enqueue", "mark", "queue"},
         NEW left \in Lists, NEW draft \in Drafts \cup {NoDraft},
         Continue(r, m, s, left, draft)
  PROVE  /\ TypeRec'
         /\ rec'[r][m] = Later(r, m, s, left, draft)
         /\ \A q \in Runs : \A n \in Messages : q # r \/ n # m => rec'[q][n] = rec[q][n]
<1>1. rec' = [rec EXCEPT ![r][m] = Later(r, m, s, left, draft)]
  BY DEF TypeRec, Continue, Later
<1>2. Later(r, m, s, left, draft) \in Rec
  BY DEF TypeRec, Rec, Later
<1> DEFINE new == Later(r, m, s, left, draft)
<1>3. new \in Rec /\ rec' = [rec EXCEPT ![r][m] = new]
  BY <1>1, <1>2
<1> HIDE DEF new
<1>4. /\ TypeRec' /\ rec'[r][m] = new
      /\ \A q \in Runs : \A n \in Messages : q # r \/ n # m => rec'[q][n] = rec[q][n]
  BY <1>3 DEF TypeRec
<1> QED BY <1>4 DEF new

\* A list is the rest of itself.
LEMMA WholeList ==
  ASSUME NEW m \in Messages, NEW l \in Results[m]
  PROVE  /\ ReadAs(l) \in Rec
         /\ Rest(m, l)
<1>1. l \in Seq(Drafts) /\ 1 \in 1..(Len(l) + 1)
  BY CollectionAssumption
<1>2. l = SubSeq(l, 1, Len(l))
  BY <1>1
<1>3. l \in Lists
  BY <1>1, <1>2, RestIsList
<1>4. Rest(m, l)
  BY <1>1, <1>2 DEF Rest
<1> QED BY <1>3, <1>4 DEF ReadAs, Rec

\* A post without a record has the empty one.
LEMMA NoRecord ==
  ASSUME NEW m \in Messages
  PROVE  NoRec \in Rec
<1>1. PICK l \in Results[m] : TRUE
  BY CollectionAssumption
<1>2. l \in Seq(Drafts) /\ Len(l) + 1 \in 1..(Len(l) + 1)
  BY CollectionAssumption
<1>3. SubSeq(l, Len(l) + 1, Len(l)) = <<>>
  BY <1>2
<1>4. <<>> \in Lists
  BY <1>2, <1>3, RestIsList
<1> QED BY <1>4 DEF NoRec, Rec

\* What is accounted for stays so: a resource goes only to gone.
LEMMA AccountedKept ==
  ASSUME gone \subseteq gone',
         \A m \in Messages, d \in Drafts :
           stored[m][d] > 0 => stored'[m][d] > 0 \/ d \in gone'
  PROVE  /\ \A d : Accounted(d) => Accounted(d)'
         /\ \A m \in Messages : \A left : Rest(m, left) => Rest(m, left)'
<1>1. \A e \in Drafts : Settled(e) => Settled(e)'
  BY DEF Settled, IsStored
<1>2. \A d : Accounted(d) => Accounted(d)'
  BY <1>1 DEF Accounted
<1>3. \A m \in Messages : \A left : Rest(m, left) => Rest(m, left)'
  BY <1>2 DEF Rest
<1> QED BY <1>2, <1>3

\* A step that drops records and resources, and accounts for them.
LEMMA FewerRecords ==
  ASSUME IInv, TypeRec', TypeDisk',
         \A r \in Runs, m \in Messages :
           \/ rec'[r][m] = NoRec
           \/ /\ \/ rec'[r][m].at = rec[r][m].at
                 \/ {rec[r][m].at, rec'[r][m].at} \subseteq {"enqueue", "mark", "queue"}
              /\ rec'[r][m].left = rec[r][m].left
              /\ rec'[r][m].draft = rec[r][m].draft,
         \A m \in Messages, d \in Drafts : stored'[m][d] <= stored[m][d],
         \A m \in Messages : \A left : Rest(m, left) => Rest(m, left)',
         UNCHANGED <<overlapped, repeated>>
  PROVE  UniqueInv' /\ RestInv' /\ ShareInv' /\ OnceInv'
<1>1. UniqueInv'
  BY DEF IInv, UniqueInv, AtMostOne, TypeDisk
<1>2. RestInv'
  BY DEF IInv, RestInv, NoRec
<1>3. ShareInv'
  <2>1. ASSUME NEW s \in Shares \ overlapped
        PROVE  AtMostOne({d \in Drafts : s \in SharesOf[d]})'
    BY <2>1 DEF IInv, ShareInv, AtMostOne, TypeDisk
  <2>2. ASSUME NEW r \in Runs, NEW m \in Messages, NEW s, Inserting(r, m, s)'
        PROVE  Inserting(r, m, s)
    BY <2>2 DEF Inserting, NoRec
  <2>3. ASSUME NEW s \in Shares \ overlapped, NEW r \in Runs, NEW m \in Messages,
               Inserting(r, m, s)'
        PROVE  /\ \A n \in Messages : \A e \in Drafts : s \in SharesOf[e] => stored'[n][e] = 0
               /\ \A q \in Runs : \A n \in Messages : Inserting(q, n, s)' => q = r /\ n = m
    <3>1. /\ \A n \in Messages : \A e \in Drafts : s \in SharesOf[e] => stored[n][e] = 0
          /\ \A q \in Runs : \A n \in Messages : Inserting(q, n, s) => q = r /\ n = m
      BY <2>2, <2>3 DEF IInv, ShareInv
    <3>2. \A n \in Messages : \A e \in Drafts : s \in SharesOf[e] => stored'[n][e] = 0
      BY <3>1 DEF IInv, TypeDisk
    <3> QED BY <2>2, <3>1, <3>2
  <2> QED BY <2>1, <2>3 DEF ShareInv
<1>4. OnceInv'
  <2> SUFFICES ASSUME NEW m \in Messages \ repeated
               PROVE  /\ \A q, r \in Runs :
                           rec'[q][m].at # "none" /\ rec'[r][m].at # "none" => q = r
                      /\ \A d \in Linkless : stored'[m][d] <= 1
                      /\ \A r \in Runs : \A i \in DOMAIN rec'[r][m].left :
                           rec'[r][m].left[i] \in Linkless =>
                             stored'[m][rec'[r][m].left[i]] = 0
    BY DEF OnceInv
  <2>1. \A q, r \in Runs : rec'[q][m].at # "none" /\ rec'[r][m].at # "none" => q = r
    BY DEF IInv, OnceInv, NoRec
  <2>2. ASSUME NEW d \in Linkless
        PROVE  /\ stored'[m][d] <= 1
               /\ stored[m][d] = 0 => stored'[m][d] = 0
    BY CollectionAssumption DEF IInv, OnceInv, TypeDisk
  <2>3. ASSUME NEW r \in Runs, NEW i \in DOMAIN rec'[r][m].left,
               rec'[r][m].left[i] \in Linkless
        PROVE  stored'[m][rec'[r][m].left[i]] = 0
    <3>1. rec'[r][m].left = rec[r][m].left
      BY <2>3 DEF NoRec
    <3> QED BY <2>2, <2>3, <3>1 DEF IInv, OnceInv
  <2> QED BY <2>1, <2>2, <2>3
<1> QED BY <1>1, <1>2, <1>3, <1>4

\* A step that touches neither the records nor the resources.
LEMMA RecordsStay ==
  ASSUME IInv, UNCHANGED <<rec, stored, gone>>
  PROVE  /\ RestInv'
         /\ \A d : Accounted(d) => Accounted(d)'
<1>1. /\ \A d : Accounted(d) => Accounted(d)'
      /\ \A m \in Messages : \A left : Rest(m, left) => Rest(m, left)'
  BY AccountedKept
<1>2. RestInv'
  BY <1>1 DEF IInv, RestInv
<1> QED BY <1>1, <1>2

\* New histories are of a collector that exists, and not marked.
LEMMA SaveFact ==
  ASSUME IInv, NEW ms \in SUBSET Messages, NEW c \in Collectors \cup {NoCollector},
         Save(ms, c) \/ UNCHANGED history, UNCHANGED <<collector, stored, queued>>
  PROVE  /\ TypeDisk' /\ OwnedInv'
         /\ \A m \in Messages : Collected(m) => Collected(m)'
         /\ \A m \in Messages : history'[m].extracted => history[m].extracted
<1>1. CASE UNCHANGED history
  BY <1>1 DEF IInv, TypeDisk, OwnedInv, Collected, Existing
<1>2. CASE Save(ms, c) /\ c \notin Existing
  BY <1>2 DEF Save, IInv, TypeDisk, OwnedInv, Collected, Existing
<1>3. CASE Save(ms, c) /\ c \in Existing
  <2>1. \A m \in Messages :
          history'[m] = IF m \in ms /\ ~Collected(m)
                        THEN [by |-> c, extracted |-> FALSE] ELSE history[m]
    BY <1>3 DEF Save
  <2>2. TypeDisk'
    BY <1>3 DEF Save, IInv, TypeDisk
  <2>3. c # NoCollector /\ Existing' = Existing
    BY <1>3, CollectionAssumption DEF Existing
  <2> QED BY <1>3, <2>1, <2>2, <2>3 DEF IInv, OwnedInv, Collected
<1> QED BY <1>1, <1>2, <1>3

\* Dropped records are dropped whole: a photo yet to be queued is uncovered.
LEMMA DropRecords ==
  ASSUME IInv, NEW rs \in SUBSET Runs, Drop(rs), UNCHANGED <<history, queued>>,
         \A d : Accounted(d) => Accounted(d)'
  PROVE  /\ TypeRec' /\ LiveInv' /\ PhotoInv' /\ MarkedInv'
         /\ \A r \in Runs, m \in Messages :
              rec'[r][m] = IF r \in rs THEN NoRec ELSE rec[r][m]
<1>1. \A r \in Runs, m \in Messages : rec'[r][m] = IF r \in rs THEN NoRec ELSE rec[r][m]
  BY DEF Drop
<1>2. TypeRec'
  BY NoRecord DEF Drop, IInv, TypeRec
<1>3. LiveInv'
  BY <1>1 DEF IInv, LiveInv, Collected, NoRec
<1>4. uncovered \subseteq uncovered'
  BY DEF Drop
<1>5. PhotoInv'
  BY <1>1, <1>4, CollectionAssumption DEF IInv, PhotoInv, NoRec
<1>6. ASSUME NEW m \in Messages, rec["single"][m].at = "queue"
      PROVE  m \in uncovered' \/ rec'["single"][m].at = "queue"
  BY <1>1, <1>6 DEF Drop, Runs
<1>7. MarkedInv'
  BY <1>4, <1>6 DEF IInv, MarkedInv
<1> QED BY <1>1, <1>2, <1>3, <1>5, <1>7

\* The same when the resources stay as they are.
LEMMA DropFact ==
  ASSUME IInv, NEW rs \in SUBSET Runs, Drop(rs),
         UNCHANGED <<collector, history, stored, queued, gone, overlapped, repeated>>
  PROVE  /\ TypeRec' /\ LiveInv' /\ RestInv' /\ PhotoInv' /\ MarkedInv'
         /\ ShareInv' /\ OnceInv'
<1>1. /\ \A d : Accounted(d) => Accounted(d)'
      /\ \A m \in Messages : \A left : Rest(m, left) => Rest(m, left)'
  BY AccountedKept
<1>2. /\ TypeRec' /\ LiveInv' /\ PhotoInv' /\ MarkedInv'
      /\ \A r \in Runs, m \in Messages :
           rec'[r][m] = IF r \in rs THEN NoRec ELSE rec[r][m]
  BY <1>1, DropRecords
<1>3. TypeDisk' /\ \A m \in Messages, d \in Drafts : stored'[m][d] <= stored[m][d]
  BY DEF IInv, TypeDisk
<1>4. RestInv' /\ ShareInv' /\ OnceInv'
  BY <1>1, <1>2, <1>3, FewerRecords
<1> QED BY <1>2, <1>4

\* An extraction starts records with whole lists of histories there are.
LEMMA StartRecords ==
  ASSUME IInv, NEW r \in Runs, TypeRec',
         \A q \in Runs, m \in Messages : q # r => rec'[q][m] = rec[q][m],
         \A m \in Messages :
           \/ rec'[r][m] \in {NoRec, rec[r][m]}
           \/ /\ Collected(m) /\ (m \in repeated' \/ ~Repeats(m))
              /\ \E l \in Results[m] : rec'[r][m] = ReadAs(l),
         r = "single" => Idle("single"),
         repeated \subseteq repeated',
         UNCHANGED <<history, stored, queued, overlapped, gone, uncovered>>
  PROVE  LiveInv' /\ RestInv' /\ PhotoInv' /\ MarkedInv' /\ ShareInv' /\ OnceInv'
<1>1. /\ \A d : Accounted(d) => Accounted(d)'
      /\ \A m \in Messages : \A left : Rest(m, left) => Rest(m, left)'
  BY AccountedKept
<1>2. LiveInv'
  BY DEF IInv, LiveInv, Collected, NoRec
<1>8. ASSUME NEW q \in Runs, NEW m \in Messages
      PROVE  \/ rec'[q][m] \in {NoRec, rec[q][m]}
             \/ \E l \in Results[m] : rec'[q][m] = ReadAs(l)
  BY <1>8
<1>9. /\ \A l : /\ ReadAs(l).at = IF l = <<>> THEN "mark" ELSE "check"
                /\ ReadAs(l).left = l
      /\ NoRec.at = "none" /\ NoRec.left = <<>>
  BY DEF ReadAs, NoRec
<1>3. RestInv'
  <2> SUFFICES ASSUME NEW q \in Runs, NEW m \in Messages
               PROVE  /\ rec'[q][m].at # "none" => Rest(m, rec[q][m].left)'
                      /\ rec'[q][m].at \in {"check", "insert"} <=> rec'[q][m].left # <<>>
                      /\ rec'[q][m].at = "insert" => rec'[q][m].draft = Head(rec'[q][m].left)
    BY DEF RestInv
  <2>1. CASE rec'[q][m] \in {NoRec, rec[q][m]}
    BY <1>1, <1>9, <2>1 DEF IInv, RestInv
  <2>2. CASE \E l \in Results[m] : rec'[q][m] = ReadAs(l)
    BY <1>1, <1>9, <2>2, WholeList
  <2> QED BY <1>8, <2>1, <2>2
<1>4. PhotoInv'
  <2> SUFFICES ASSUME NEW q \in Runs, NEW m \in Photos
               PROVE  /\ rec'[q][m].at = "enqueue" => q # "single"
                      /\ rec'[q][m].at = "queue" => q = "single"
                      /\ rec'[q][m].at = "mark" /\ q # "single" /\ Results[m] # {<<>>} =>
                           m \in queued' \cup uncovered'
    BY DEF PhotoInv
  <2>1. CASE rec'[q][m] \in {NoRec, rec[q][m]}
    BY <1>9, <2>1 DEF IInv, PhotoInv
  <2>2. CASE \E l \in Results[m] : rec'[q][m] = ReadAs(l)
    BY <1>9, <2>2, CollectionAssumption
  <2> QED BY <1>8, <2>1, <2>2, CollectionAssumption
<1>5. MarkedInv'
  <2>1. ASSUME NEW m \in Messages, rec["single"][m].at = "queue"
        PROVE  rec'["single"][m].at = "queue"
    BY <2>1 DEF Idle, Runs
  <2> QED BY <1>1, <2>1 DEF IInv, MarkedInv
<1>6. ShareInv'
  <2>1. ASSUME NEW q \in Runs, NEW m \in Messages, NEW s, Inserting(q, m, s)'
        PROVE  Inserting(q, m, s)
    BY <1>8, <1>9, <2>1 DEF Inserting
  <2>2. ASSUME NEW s \in Shares \ overlapped
        PROVE  AtMostOne({d \in Drafts : s \in SharesOf[d]})'
    BY <2>2 DEF IInv, ShareInv, AtMostOne
  <2>3. ASSUME NEW s \in Shares \ overlapped, NEW q \in Runs, NEW m \in Messages,
               Inserting(q, m, s)'
        PROVE  /\ \A n \in Messages : \A e \in Drafts : s \in SharesOf[e] => stored'[n][e] = 0
               /\ \A p \in Runs : \A n \in Messages : Inserting(p, n, s)' => p = q /\ n = m
    <3>1. /\ \A n \in Messages : \A e \in Drafts : s \in SharesOf[e] => stored[n][e] = 0
          /\ \A p \in Runs : \A n \in Messages : Inserting(p, n, s) => p = q /\ n = m
      BY <2>1, <2>3 DEF IInv, ShareInv
    <3> QED BY <2>1, <3>1
  <2> QED BY <2>2, <2>3 DEF ShareInv
<1>7. OnceInv'
  <2> SUFFICES ASSUME NEW m \in Messages \ repeated'
               PROVE  /\ \A p, q \in Runs :
                           rec'[p][m].at # "none" /\ rec'[q][m].at # "none" => p = q
                      /\ \A d \in Linkless : stored[m][d] <= 1
                      /\ \A q \in Runs : \A i \in DOMAIN rec'[q][m].left :
                           rec'[q][m].left[i] \in Linkless =>
                             stored[m][rec'[q][m].left[i]] = 0
    BY DEF OnceInv
  <2>1. CASE rec'[r][m] \in {NoRec, rec[r][m]}
    BY <2>1 DEF IInv, OnceInv, NoRec
  <2>2. CASE ~Repeats(m)
    <3>1. \A q \in Runs : rec[q][m].at = "none"
      BY <2>2 DEF Repeats
    <3>2. \A d \in Drafts : stored[m][d] = 0
      BY <2>2 DEF Repeats, IInv, TypeDisk
    <3>3. \A d \in Linkless : stored[m][d] = 0
      BY <3>2, CollectionAssumption
    <3> QED BY <3>1, <3>3
  <2> QED BY <2>1, <2>2
<1> QED BY <1>2, <1>3, <1>4, <1>5, <1>6, <1>7

\* SELECT, of the tick or of a batch.
LEMMA SelectFact ==
  ASSUME IInv, NEW r \in {"tick", "batch"}, Select(r),
         UNCHANGED <<history, stored, queued, overlapped, gone, uncovered>>
  PROVE  /\ TypeRec' /\ LiveInv' /\ RestInv' /\ PhotoInv' /\ MarkedInv'
         /\ ShareInv' /\ OnceInv' /\ repeated' \subseteq Messages
<1>1. PICK ms \in SUBSET {m \in Messages : Collected(m) /\ ~history[m].extracted},
           drafts \in Outcomes :
        /\ rec' = [rec EXCEPT ![r] = [m \in Messages |->
                     IF m \in ms THEN ReadAs(drafts[m]) ELSE NoRec]]
        /\ repeated' = repeated \cup {m \in ms : Repeats(m)}
  BY DEF Select, kSubset
<1>2. r \in Runs /\ r # "single"
  BY DEF Runs
<1>3. \A m \in Messages : drafts[m] \in Results[m]
  BY DEF Outcomes
<1>4. \A m \in Messages : rec'[r][m] = IF m \in ms THEN ReadAs(drafts[m]) ELSE NoRec
  BY <1>1, <1>2 DEF IInv, TypeRec
<1>5. \A q \in Runs, m \in Messages : q # r => rec'[q][m] = rec[q][m]
  BY <1>1, <1>2 DEF IInv
<1>6. TypeRec'
  BY <1>1, <1>2, <1>3, WholeList, NoRecord DEF IInv, TypeRec
<1>7. repeated \subseteq repeated' /\ repeated' \subseteq Messages
  BY <1>1 DEF IInv, TypeGhosts
<1>8. \A m \in Messages :
        \/ rec'[r][m] \in {NoRec, rec[r][m]}
        \/ /\ Collected(m) /\ (m \in repeated' \/ ~Repeats(m))
           /\ \E l \in Results[m] : rec'[r][m] = ReadAs(l)
  BY <1>1, <1>3, <1>4
<1> QED BY <1>2, <1>5, <1>6, <1>7, <1>8, StartRecords

\* What is left of a list of a post: its first draft and the others.
LEMMA RestFacts ==
  ASSUME NEW m \in Messages, NEW left, Rest(m, left), left # <<>>
  PROVE  /\ left \in Seq(Drafts)
         /\ 1 \in DOMAIN left /\ Head(left) = left[1] /\ Head(left) \in Drafts
         /\ \A k \in DOMAIN Tail(left) : k + 1 \in DOMAIN left /\ Tail(left)[k] = left[k + 1]
         /\ Head(left) \in Linkless => \A k \in DOMAIN Tail(left) : Tail(left)[k] # Head(left)
<1>0. PICK l \in Results[m] : \E i \in 1..(Len(l) + 1) : left = SubSeq(l, i, Len(l))
  BY DEF Rest
<1>1. PICK i \in 1..(Len(l) + 1) : left = SubSeq(l, i, Len(l))
  BY <1>0
<1>2. left \in Seq(Drafts) /\ l \in Seq(Drafts)
  BY <1>1, RestIsList
<1>3. /\ 1 \in DOMAIN left /\ Head(left) = left[1] /\ Head(left) \in Drafts
      /\ \A k \in DOMAIN Tail(left) : k + 1 \in DOMAIN left /\ Tail(left)[k] = left[k + 1]
  BY <1>2
<1>4. \A k \in DOMAIN left : i + k - 1 \in DOMAIN l /\ left[k] = l[i + k - 1]
  BY <1>1, <1>2
<1>5. ASSUME Head(left) \in Linkless, NEW k \in DOMAIN Tail(left)
      PROVE  Tail(left)[k] # Head(left)
  <2>1. k \in Nat \ {0} /\ i \in Nat
    BY <1>1, <1>2
  <2>4. k + 1 \in DOMAIN left /\ Tail(left)[k] = left[k + 1]
    BY <1>3
  <2>5. i + (k + 1) - 1 = i + k /\ i + 1 - 1 = i
    BY <2>1
  <2>2. l[i + k] = Tail(left)[k] /\ l[i] = Head(left)
    BY <1>3, <1>4, <2>4, <2>5
  <2>3. i \in DOMAIN l /\ i + k \in DOMAIN l
    BY <1>3, <1>4, <2>4, <2>5
  <2> QED BY <1>5, <2>1, <2>2, <2>3, CollectionAssumption
<1> QED BY <1>2, <1>3, <1>5

\* A record goes on with the rest of its list once its first draft is accounted for.
LEMMA DoneWithFact ==
  ASSUME IInv, NEW r \in Runs, NEW m \in Messages,
         NEW left, rec[r][m].left = left,
         rec[r][m].at \in {"check", "insert"}, DoneWith(r, m),
         \A d : Accounted(d) => Accounted(d)', NEW d, d = Head(left), Accounted(d)',
         UNCHANGED <<history, queued>>, uncovered \subseteq uncovered'
  PROVE  /\ TypeRec' /\ LiveInv' /\ RestInv' /\ PhotoInv' /\ MarkedInv'
         /\ rec'[r][m].at # "insert" /\ rec'[r][m].left = Tail(left)
         /\ \A q \in Runs : \A n \in Messages : q # r \/ n # m => rec'[q][n] = rec[q][n]
<1> DEFINE s == IF Tail(left) = <<>> THEN After(r, m) ELSE "check"
<1>1. left # <<>> /\ Rest(m, left)
  BY DEF IInv, RestInv
<1>12. PICK l \in Results[m] : \E i \in 1..(Len(l) + 1) :
         left = SubSeq(l, i, Len(l)) /\ \A k \in 1..(i - 1) : Accounted(l[k])
  BY <1>1 DEF Rest
<1>2. PICK i \in 1..(Len(l) + 1) :
        left = SubSeq(l, i, Len(l)) /\ \A k \in 1..(i - 1) : Accounted(l[k])
  BY <1>12
<1>3. /\ i \in 1..Len(l) /\ i + 1 \in 1..(Len(l) + 1)
      /\ Head(left) = l[i]
      /\ Tail(left) = SubSeq(l, i + 1, Len(l))
      /\ Tail(left) \in Lists
  BY <1>1, <1>2, RestTail
<1>4. Continue(r, m, s, Tail(left), NoDraft)
  BY DEF DoneWith
<1>5. s \in {"check", "enqueue", "mark"}
  BY DEF After
<1>6. /\ TypeRec'
      /\ rec'[r][m] = Later(r, m, s, Tail(left), NoDraft)
      /\ \A q \in Runs : \A n \in Messages : q # r \/ n # m => rec'[q][n] = rec[q][n]
  <2> HIDE DEF s
  <2> QED BY <1>3, <1>4, <1>5, ContinueRecord DEF IInv
<1>7. /\ rec'[r][m].at = s /\ rec'[r][m].left = Tail(left)
      /\ rec'[r][m].live = rec[r][m].live
  BY <1>6 DEF Later
<1>8. LiveInv'
  BY <1>6, <1>7 DEF IInv, LiveInv, Collected
<1>9. RestInv'
  <2>1. \A k \in 1..i : Accounted(l[k])'
    <3>1. \A k \in 1..i : k = i \/ k \in 1..(i - 1)
      BY <1>3
    <3> QED BY <1>2, <1>3, <3>1
  <2>2. \A k \in 1..((i + 1) - 1) : Accounted(l[k])'
    BY <1>3, <2>1
  <2>3. Rest(m, Tail(left))'
    BY <1>3, <2>2 DEF Rest
  <2>4. ASSUME NEW n \in Messages, NEW rest, Rest(n, rest) PROVE Rest(n, rest)'
    BY <2>4 DEF Rest
  <2>5. ASSUME NEW q \in Runs, NEW n \in Messages, q # r \/ n # m
        PROVE  /\ rec'[q][n].at # "none" => Rest(n, rec[q][n].left)'
               /\ rec'[q][n].at \in {"check", "insert"} <=> rec'[q][n].left # <<>>
               /\ rec'[q][n].at = "insert" => rec'[q][n].draft = Head(rec'[q][n].left)
    BY <1>6, <2>4, <2>5 DEF IInv, RestInv
  <2>6. rec'[r][m].at \in {"check", "insert"} <=> rec'[r][m].left # <<>>
    BY <1>5, <1>7 DEF After
  <2>7. Rest(m, rec[r][m].left)'
    BY <1>7, <2>3
  <2>8. rec'[r][m].at # "insert"
    BY <1>5, <1>7
  <2> QED BY <2>5, <2>6, <2>7, <2>8 DEF RestInv
<1>10. PhotoInv'
  <2>1. /\ rec'[r][m].at = "enqueue" => r # "single" /\ m \in Photos
        /\ rec'[r][m].at # "queue"
        /\ rec'[r][m].at = "mark" => m \notin Photos \/ r = "single"
    BY <1>5, <1>7 DEF After
  <2>2. ASSUME NEW q \in Runs, NEW n \in Photos, q # r \/ n # m
        PROVE  /\ rec'[q][n].at = "enqueue" => q # "single"
               /\ rec'[q][n].at = "queue" => q = "single"
               /\ rec'[q][n].at = "mark" /\ q # "single" /\ Results[n] # {<<>>} =>
                    n \in queued' \cup uncovered'
    <3>1. n \in Messages /\ rec'[q][n] = rec[q][n]
      BY <1>6, <2>2, CollectionAssumption
    <3> QED BY <3>1 DEF IInv, PhotoInv
  <2> QED BY <2>1, <2>2 DEF PhotoInv
<1>11. MarkedInv'
  <2>1. ASSUME NEW n \in Messages, rec["single"][n].at = "queue"
        PROVE  rec'["single"][n].at = "queue"
    BY <1>6, <2>1 DEF Runs
  <2> QED BY <2>1 DEF IInv, MarkedInv
<1> QED BY <1>5, <1>6, <1>7, <1>8, <1>9, <1>10, <1>11

\* When nothing is left of a list, all of it is accounted for.
LEMMA AllAccounted ==
  ASSUME NEW m \in Messages, Rest(m, <<>>)
  PROVE  \E l \in Results[m] : \A d \in Range(l) : Accounted(d)
<1>1. PICK l \in Results[m] : \E i \in 1..(Len(l) + 1) :
        <<>> = SubSeq(l, i, Len(l)) /\ \A k \in 1..(i - 1) : Accounted(l[k])
  BY DEF Rest
<1>2. PICK i \in 1..(Len(l) + 1) :
        <<>> = SubSeq(l, i, Len(l)) /\ \A k \in 1..(i - 1) : Accounted(l[k])
  BY <1>1
<1>3. l \in Seq(Drafts)
  BY CollectionAssumption
<1>4. i = Len(l) + 1
  <2>1. Len(l) \in Nat /\ i \in 1..(Len(l) + 1)
    BY <1>2, <1>3
  <2>2. ASSUME i <= Len(l) PROVE FALSE
    <3>1. PICK rest : rest = SubSeq(l, i, Len(l))
      OBVIOUS
    <3>2. Len(rest) = Len(l) - i + 1
      BY <1>3, <2>1, <2>2, <3>1
    <3>3. rest = <<>>
      BY <1>2, <3>1
    <3>4. Len(rest) = 0
      BY <3>3
    <3> QED BY <2>1, <2>2, <3>2, <3>4
  <2> QED BY <2>1, <2>2
<1>5. \A k \in 1..Len(l) : Accounted(l[k])
  BY <1>2, <1>3, <1>4
<1> QED BY <1>3, <1>5 DEF Range


\* A record goes on with the rest of its list, and nothing is stored.
LEMMA DoneWithOnce ==
  ASSUME IInv, NEW r \in Runs, NEW m \in Messages, NEW left, rec[r][m].left = left,
         left # <<>>, Rest(m, left), rec[r][m].at # "none",
         rec'[r][m].at # "insert", rec'[r][m].left = Tail(left),
         \A q \in Runs : \A n \in Messages : q # r \/ n # m => rec'[q][n] = rec[q][n],
         UNCHANGED <<stored, overlapped, repeated>>
  PROVE  ShareInv' /\ OnceInv'
<1>1. ASSUME NEW q \in Runs, NEW n \in Messages, NEW s, Inserting(q, n, s)'
      PROVE  Inserting(q, n, s)
  BY <1>1 DEF Inserting
<1>2. ASSUME NEW s \in Shares \ overlapped
      PROVE  AtMostOne({d \in Drafts : s \in SharesOf[d]})'
  BY <1>2 DEF IInv, ShareInv, AtMostOne
<1>3. ASSUME NEW s \in Shares \ overlapped, NEW q \in Runs, NEW n \in Messages,
             Inserting(q, n, s)'
      PROVE  /\ \A k \in Messages : \A e \in Drafts : s \in SharesOf[e] => stored[k][e] = 0
             /\ \A p \in Runs : \A k \in Messages : Inserting(p, k, s)' => p = q /\ k = n
  <2>1. /\ \A k \in Messages : \A e \in Drafts : s \in SharesOf[e] => stored[k][e] = 0
        /\ \A p \in Runs : \A k \in Messages : Inserting(p, k, s) => p = q /\ k = n
    BY <1>1, <1>3 DEF IInv, ShareInv
  <2> QED BY <1>1, <2>1
<1>4. ShareInv'
  BY <1>2, <1>3 DEF ShareInv
<1>5. \A q \in Runs, n \in Messages :
        /\ rec'[q][n].at # "none" => rec[q][n].at # "none"
        /\ \A i \in DOMAIN rec'[q][n].left :
             \E j \in DOMAIN rec[q][n].left : rec'[q][n].left[i] = rec[q][n].left[j]
  BY RestFacts
<1>6. OnceInv'
  BY <1>5 DEF IInv, OnceInv
<1> QED BY <1>4, <1>6
-----------------------------------------------------------------------------
(* Every action keeps the inductive invariant *)

\* A request is noted, no row is touched.
LEMMA KeepCreateCheck ==
  ASSUME IInv, NEW c \in Collectors, CreateCheck(c)
  PROVE  IInv'
<1>1. UNCHANGED <<collector, history, stored, queued, posted, saving, fetching,
                  on, rec, overlapped, repeated, gone, uncovered>>
  BY DEF CreateCheck, Existing, Request, disk, ghosts
<1>2. TypeMemory'
  BY <1>1, CollectionAssumption DEF IInv, TypeMemory, CreateCheck, Existing,
       Request, disk
<1>3. TypeRec'
  BY <1>1, CollectionAssumption DEF IInv, TypeRec, CreateCheck, Existing,
       Request, disk
<1>4. TypeGhosts'
  BY <1>1, CollectionAssumption DEF IInv, TypeGhosts, CreateCheck, Existing,
       Request, disk
<1>5. RestInv'
  BY <1>1, RecordsStay
<1>6. PhotoInv'
  BY <1>1, CollectionAssumption DEF IInv, PhotoInv, CreateCheck, Existing,
       Request, disk
<1>7. MarkedInv'
  BY <1>1, RecordsStay DEF IInv, MarkedInv
<1>8. ShareInv'
  BY <1>1, CollectionAssumption DEF IInv, ShareInv, AtMostOne, Inserting,
       CreateCheck, Existing, Request, disk
<1>9. OnceInv'
  BY <1>1, CollectionAssumption DEF IInv, OnceInv, CreateCheck, Existing,
       Request, disk
<1>10. TypeDisk' /\ OwnedInv' /\ UniqueInv' /\ LiveInv'
  BY <1>1 DEF IInv, TypeDisk, OwnedInv, UniqueInv, LiveInv, Collected, Existing,
       AtMostOne
<1> QED
  BY <1>2, <1>3, <1>4, <1>5, <1>6, <1>7, <1>8, <1>9, <1>10 DEF IInv

\* A new collector has no history.
LEMMA KeepCreateInsert ==
  ASSUME IInv, NEW c \in Collectors, CreateInsert(c)
  PROVE  IInv'
<1>1. UNCHANGED <<history, stored, queued, posted, saving, fetching, on, rec,
                  requests, events, overlapped, repeated, gone, uncovered>>
  BY DEF CreateInsert, bounds, ghosts
<1>2. TypeDisk'
  BY <1>1, CollectionAssumption DEF IInv, TypeDisk, TypeMemory, CreateInsert,
       bounds
<1>3. TypeMemory'
  BY <1>1, CollectionAssumption DEF IInv, TypeMemory, CreateInsert, bounds
<1>4. TypeRec'
  BY <1>1, CollectionAssumption DEF IInv, TypeRec, CreateInsert, bounds
<1>5. OwnedInv'
  BY <1>1, CollectionAssumption DEF IInv, TypeDisk, TypeMemory, OwnedInv,
       Collected, Existing, CreateInsert, bounds
<1>6. RestInv'
  BY <1>1, RecordsStay
<1>7. PhotoInv'
  BY <1>1, CollectionAssumption DEF IInv, PhotoInv, CreateInsert, bounds
<1>8. MarkedInv'
  BY <1>1, RecordsStay DEF IInv, MarkedInv
<1>9. ShareInv'
  BY <1>1, CollectionAssumption DEF IInv, ShareInv, AtMostOne, Inserting,
       CreateInsert, bounds
<1>10. OnceInv'
  BY <1>1, CollectionAssumption DEF IInv, OnceInv, CreateInsert, bounds
<1>11. TypeGhosts' /\ UniqueInv' /\ LiveInv'
  BY <1>1 DEF IInv, TypeGhosts, UniqueInv, LiveInv, AtMostOne, Collected
<1> QED
  BY <1>2, <1>3, <1>4, <1>5, <1>6, <1>7, <1>8, <1>9, <1>10, <1>11 DEF IInv

\* A paused collector keeps what it has.
LEMMA KeepToggle ==
  ASSUME IInv, NEW c \in Collectors, Toggle(c)
  PROVE  IInv'
<1>1. UNCHANGED <<history, stored, queued, posted, saving, fetching, on, rec,
                  at, overlapped, repeated, gone, uncovered>>
  BY DEF Toggle, Existing, Request, memory, ghosts
<1>2. TypeDisk'
  BY <1>1, CollectionAssumption DEF IInv, TypeDisk, TypeMemory, Toggle,
       Existing, Request, memory
<1>3. TypeMemory'
  BY <1>1, CollectionAssumption DEF IInv, TypeMemory, Toggle, Existing, Request,
       memory
<1>4. TypeGhosts'
  BY <1>1, CollectionAssumption DEF IInv, TypeGhosts, Toggle, Existing, Request,
       memory
<1>5. OwnedInv'
  BY <1>1, CollectionAssumption DEF IInv, TypeDisk, TypeMemory, OwnedInv,
       Collected, Existing, Toggle, Request, memory
<1>6. RestInv'
  BY <1>1, RecordsStay
<1>7. MarkedInv'
  BY <1>1, RecordsStay DEF IInv, MarkedInv
<1>8. TypeRec' /\ UniqueInv' /\ LiveInv' /\ PhotoInv' /\ ShareInv' /\ OnceInv'
  BY <1>1 DEF IInv, TypeRec, UniqueInv, LiveInv, PhotoInv, ShareInv, OnceInv,
       Rec, AtMostOne, Collected, Inserting
<1> QED
  BY <1>2, <1>3, <1>4, <1>5, <1>6, <1>7, <1>8 DEF IInv

\* A collector goes only with no history left.
LEMMA KeepDeleteRow ==
  ASSUME IInv, NEW c \in Collectors, DeleteRow(c)
  PROVE  IInv'
<1>1. UNCHANGED <<history, stored, queued, posted, saving, fetching, on, rec,
                  requests, events, overlapped, repeated, gone, uncovered>>
  BY DEF DeleteRow, bounds, ghosts
<1>2. TypeDisk'
  BY <1>1, CollectionAssumption DEF IInv, TypeDisk, TypeMemory, DeleteRow,
       bounds
<1>3. TypeMemory'
  BY <1>1, CollectionAssumption DEF IInv, TypeMemory, DeleteRow, bounds
<1>4. TypeRec'
  BY <1>1, CollectionAssumption DEF IInv, TypeRec, DeleteRow, bounds
<1>5. OwnedInv'
  BY <1>1, CollectionAssumption DEF IInv, TypeDisk, TypeMemory, OwnedInv,
       Collected, Existing, DeleteRow, bounds
<1>6. RestInv'
  BY <1>1, RecordsStay
<1>7. PhotoInv'
  BY <1>1, CollectionAssumption DEF IInv, PhotoInv, DeleteRow, bounds
<1>8. MarkedInv'
  BY <1>1, RecordsStay DEF IInv, MarkedInv
<1>9. ShareInv'
  BY <1>1, CollectionAssumption DEF IInv, ShareInv, AtMostOne, Inserting,
       DeleteRow, bounds
<1>10. OnceInv'
  BY <1>1, CollectionAssumption DEF IInv, OnceInv, DeleteRow, bounds
<1>11. TypeGhosts' /\ UniqueInv' /\ LiveInv'
  BY <1>1 DEF IInv, TypeGhosts, UniqueInv, LiveInv, AtMostOne, Collected
<1> QED
  BY <1>2, <1>3, <1>4, <1>5, <1>6, <1>7, <1>8, <1>9, <1>10, <1>11 DEF IInv

\* What was done stays done.
LEMMA KeepRequestBreaks ==
  ASSUME IInv, NEW c \in Collectors, RequestBreaks(c)
  PROVE  IInv'
<1>1. UNCHANGED <<collector, history, stored, queued, posted, saving, fetching,
                  on, rec, requests, overlapped, repeated, gone, uncovered>>
  BY DEF RequestBreaks, Event, disk, ghosts
<1>2. TypeMemory'
  BY <1>1, CollectionAssumption DEF IInv, TypeMemory, RequestBreaks, Event, disk
<1>3. TypeRec'
  BY <1>1, CollectionAssumption DEF IInv, TypeRec, RequestBreaks, Event, disk
<1>4. TypeGhosts'
  BY <1>1, CollectionAssumption DEF IInv, TypeGhosts, RequestBreaks, Event, disk
<1>5. RestInv'
  BY <1>1, RecordsStay
<1>6. PhotoInv'
  BY <1>1, CollectionAssumption DEF IInv, PhotoInv, RequestBreaks, Event, disk
<1>7. MarkedInv'
  BY <1>1, RecordsStay DEF IInv, MarkedInv
<1>8. ShareInv'
  BY <1>1, CollectionAssumption DEF IInv, ShareInv, AtMostOne, Inserting,
       RequestBreaks, Event, disk
<1>9. OnceInv'
  BY <1>1, CollectionAssumption DEF IInv, OnceInv, RequestBreaks, Event, disk
<1>10. TypeDisk' /\ OwnedInv' /\ UniqueInv' /\ LiveInv'
  BY <1>1 DEF IInv, TypeDisk, OwnedInv, UniqueInv, LiveInv, Collected, Existing,
       AtMostOne
<1> QED
  BY <1>2, <1>3, <1>4, <1>5, <1>6, <1>7, <1>8, <1>9, <1>10 DEF IInv

\* Nothing is written yet.
LEMMA KeepFetchHistory ==
  ASSUME IInv, NEW c \in Collectors, FetchHistory(c)
  PROVE  IInv'
<1>1. UNCHANGED <<collector, history, stored, queued, posted, saving, on, rec,
                  at, overlapped, repeated, gone, uncovered>>
  BY DEF FetchHistory, Existing, Request, disk, ghosts
<1>2. TypeMemory'
  BY <1>1, CollectionAssumption DEF IInv, TypeMemory, FetchHistory, Existing,
       Request, disk
<1>3. TypeGhosts'
  BY <1>1, CollectionAssumption DEF IInv, TypeGhosts, FetchHistory, Existing,
       Request, disk
<1>4. RestInv'
  BY <1>1, RecordsStay
<1>5. MarkedInv'
  BY <1>1, RecordsStay DEF IInv, MarkedInv
<1>6. /\ TypeDisk' /\ TypeRec' /\ OwnedInv' /\ UniqueInv' /\ LiveInv'
      /\ PhotoInv' /\ ShareInv' /\ OnceInv'
  BY <1>1 DEF IInv, TypeDisk, TypeRec, OwnedInv, UniqueInv, LiveInv, PhotoInv,
       ShareInv, OnceInv, Rec, Collected, Existing, AtMostOne, Inserting
<1> QED
  BY <1>2, <1>3, <1>4, <1>5, <1>6 DEF IInv

\* A new post is not a history yet.
LEMMA KeepPost ==
  ASSUME IInv, NEW m \in Messages, Post(m)
  PROVE  IInv'
<1>1. UNCHANGED <<collector, history, stored, queued, fetching, on, rec, at,
                  requests, events, overlapped, repeated, gone, uncovered>>
  BY DEF Post, disk, bounds, ghosts
<1>2. TypeMemory'
  BY <1>1, CollectionAssumption DEF IInv, TypeMemory, Post, disk, bounds
<1>3. RestInv'
  BY <1>1, RecordsStay
<1>4. MarkedInv'
  BY <1>1, RecordsStay DEF IInv, MarkedInv
<1>5. /\ TypeDisk' /\ TypeRec' /\ TypeGhosts' /\ OwnedInv' /\ UniqueInv'
      /\ LiveInv' /\ PhotoInv' /\ ShareInv' /\ OnceInv'
  BY <1>1 DEF IInv, TypeDisk, TypeRec, TypeGhosts, OwnedInv, UniqueInv, LiveInv,
       PhotoInv, ShareInv, OnceInv, Rec, Collected, Existing, AtMostOne,
       Inserting
<1> QED
  BY <1>2, <1>3, <1>4, <1>5 DEF IInv

\* A new history is of a collector that exists, and not marked.
LEMMA KeepSaveRealtime ==
  ASSUME IInv, NEW m \in Messages, NEW c \in Collectors, SaveRealtime(m, c)
  PROVE  IInv'
<1>1. UNCHANGED <<collector, stored, queued, posted, fetching, on, rec, at,
                  requests, overlapped, repeated, gone, uncovered>>
  BY DEF SaveRealtime, Save, Event, ghosts, Existing
<1>2. /\ TypeDisk' /\ OwnedInv'
      /\ \A n \in Messages : Collected(n) => Collected(n)'
      /\ \A n \in Messages : history'[n].extracted => history[n].extracted
  BY <1>1, SaveFact DEF SaveRealtime
<1>3. TypeMemory'
  BY <1>1, CollectionAssumption DEF IInv, TypeMemory, SaveRealtime, Save, Event,
       ghosts, Existing
<1>4. TypeGhosts'
  BY <1>1, CollectionAssumption DEF IInv, TypeGhosts, SaveRealtime, Save, Event,
       ghosts, Existing
<1>5. LiveInv'
  BY <1>1, <1>2 DEF IInv, LiveInv
<1>6. RestInv'
  BY <1>1, RecordsStay
<1>7. MarkedInv'
  BY <1>1, <1>2, RecordsStay DEF IInv, MarkedInv
<1>8. TypeRec' /\ UniqueInv' /\ PhotoInv' /\ ShareInv' /\ OnceInv'
  BY <1>1 DEF IInv, TypeRec, UniqueInv, PhotoInv, ShareInv, OnceInv, Rec,
       AtMostOne, Inserting
<1> QED
  BY <1>2, <1>3, <1>4, <1>5, <1>6, <1>7, <1>8 DEF IInv

\* What was written stays.
LEMMA KeepFetchBreaks ==
  ASSUME IInv, FetchBreaks
  PROVE  IInv'
<1>1. UNCHANGED <<collector, history, stored, queued, posted, saving, on, rec,
                  at, requests, overlapped, repeated, gone, uncovered>>
  BY DEF FetchBreaks, Event, disk, ghosts
<1>2. TypeMemory'
  BY <1>1, CollectionAssumption DEF IInv, TypeMemory, FetchBreaks, Event, disk
<1>3. TypeGhosts'
  BY <1>1, CollectionAssumption DEF IInv, TypeGhosts, FetchBreaks, Event, disk
<1>4. RestInv'
  BY <1>1, RecordsStay
<1>5. MarkedInv'
  BY <1>1, RecordsStay DEF IInv, MarkedInv
<1>6. /\ TypeDisk' /\ TypeRec' /\ OwnedInv' /\ UniqueInv' /\ LiveInv'
      /\ PhotoInv' /\ ShareInv' /\ OnceInv'
  BY <1>1 DEF IInv, TypeDisk, TypeRec, OwnedInv, UniqueInv, LiveInv, PhotoInv,
       ShareInv, OnceInv, Rec, Collected, Existing, AtMostOne, Inserting
<1> QED
  BY <1>2, <1>3, <1>4, <1>5, <1>6 DEF IInv

\* New histories are of a collector that exists, and not marked.
LEMMA KeepWriteBatch ==
  ASSUME IInv, WriteBatch
  PROVE  IInv'
<1>1. PICK ms \in SUBSET fetching.left \ {{}} :
               /\ fetching' = [fetching EXCEPT !.left = @ \ ms]
               /\ \/ Save(ms, fetching.by) /\ UNCHANGED events
                  \/ Event /\ UNCHANGED history
               /\ UNCHANGED <<collector, stored, queued, posted, saving, on, rec, at,
                              requests, ghosts>>
  BY DEF WriteBatch
<1>2. ms \in SUBSET Messages /\ fetching.by \in Collectors \cup {NoCollector}
  BY DEF IInv, TypeMemory
<1>3. /\ TypeDisk' /\ OwnedInv'
      /\ \A m \in Messages : Collected(m) => Collected(m)'
      /\ \A m \in Messages : history'[m].extracted => history[m].extracted
  BY <1>1, <1>2, SaveFact
<1>4. TypeMemory' /\ TypeRec'
  BY <1>1 DEF IInv, TypeMemory, TypeRec
<1>5. TypeGhosts'
  BY <1>1, CollectionAssumption DEF IInv, TypeGhosts, ghosts, Event
<1>6. LiveInv'
  BY <1>1, <1>3 DEF IInv, LiveInv
<1>7. RestInv' /\ MarkedInv'
  BY <1>1, <1>3, RecordsStay DEF IInv, MarkedInv, ghosts
<1>8. UniqueInv' /\ PhotoInv' /\ ShareInv' /\ OnceInv'
  BY <1>1 DEF IInv, UniqueInv, PhotoInv, ShareInv, OnceInv, AtMostOne,
       Inserting, ghosts
<1> QED BY <1>3, <1>4, <1>5, <1>6, <1>7, <1>8 DEF IInv

\* Every resource deleted is remembered as gone.
LEMMA KeepDeleteResources ==
  ASSUME IInv, NEW c \in Collectors, DeleteResources(c)
  PROVE  IInv'
<1> DEFINE own == {m \in Messages : history[m].by = c}
<1>1. UNCHANGED <<collector, history, queued, posted, saving, fetching, on, rec,
                  overlapped, repeated, uncovered>>
  BY DEF DeleteResources
<1>2. /\ stored' = Remaining(own, Drafts)
      /\ gone' = gone \cup Removed(own, Drafts)
  BY DEF DeleteResources
<1> HIDE DEF own
<1>3. TypeDisk' /\ TypeMemory' /\ TypeRec' /\ TypeGhosts'
  BY <1>1, <1>2, CollectionAssumption DEF IInv, TypeDisk, TypeMemory, TypeRec,
       TypeGhosts, DeleteResources, Request, Remaining, Removed
<1>4. /\ \A m \in Messages, d \in Drafts : stored'[m][d] <= stored[m][d]
      /\ \A m \in Messages, d \in Drafts :
           stored[m][d] > 0 => stored'[m][d] > 0 \/ d \in gone'
  BY <1>2 DEF IInv, TypeDisk, Remaining, Removed
<1>5. /\ \A d : Accounted(d) => Accounted(d)'
      /\ \A m \in Messages : \A left : Rest(m, left) => Rest(m, left)'
  BY <1>2, <1>4, AccountedKept
<1>6. UniqueInv' /\ RestInv' /\ ShareInv' /\ OnceInv'
  BY <1>1, <1>3, <1>4, <1>5, FewerRecords
<1>7. OwnedInv' /\ LiveInv' /\ PhotoInv'
  BY <1>1, <1>3, <1>4 DEF IInv, OwnedInv, LiveInv, PhotoInv, Collected,
       Existing, TypeDisk
<1>8. MarkedInv'
  BY <1>1, <1>5 DEF IInv, MarkedInv
<1> QED BY <1>3, <1>6, <1>7, <1>8 DEF IInv

\* The resource deleted is remembered as gone.
LEMMA KeepDeleteResource ==
  ASSUME IInv, NEW m \in Messages, NEW d \in Drafts, DeleteResource(m, d)
  PROVE  IInv'
<1>1. UNCHANGED <<collector, history, queued, posted, saving, fetching, on, rec, at,
                  overlapped, repeated, uncovered>>
  BY DEF DeleteResource, memory
<1>2. /\ stored' = [stored EXCEPT ![m][d] = stored[m][d] - 1]
      /\ gone' = gone \cup {d} /\ stored[m][d] > 0
  BY DEF DeleteResource
<1>3. TypeDisk' /\ TypeMemory' /\ TypeRec' /\ TypeGhosts'
  BY <1>1, <1>2, CollectionAssumption DEF IInv, TypeDisk, TypeMemory, TypeRec,
       TypeGhosts, DeleteResource, Request
<1>4. /\ \A n \in Messages, e \in Drafts : stored'[n][e] <= stored[n][e]
      /\ \A n \in Messages, e \in Drafts :
           stored[n][e] > 0 => stored'[n][e] > 0 \/ e \in gone'
  BY <1>2 DEF IInv, TypeDisk
<1>5. /\ \A e : Accounted(e) => Accounted(e)'
      /\ \A n \in Messages : \A left : Rest(n, left) => Rest(n, left)'
  BY <1>2, <1>4, AccountedKept
<1>6. UniqueInv' /\ RestInv' /\ ShareInv' /\ OnceInv'
  BY <1>1, <1>3, <1>4, <1>5, FewerRecords
<1>7. OwnedInv' /\ LiveInv' /\ PhotoInv'
  BY <1>1, <1>3, <1>4 DEF IInv, OwnedInv, LiveInv, PhotoInv, Collected,
       Existing, TypeDisk
<1>8. MarkedInv'
  BY <1>1, <1>5 DEF IInv, MarkedInv
<1> QED BY <1>3, <1>6, <1>7, <1>8 DEF IInv

\* Histories go only with no resource left, and the extractions lose them.
LEMMA KeepDeleteHistories ==
  ASSUME IInv, NEW c \in Collectors, DeleteHistories(c)
  PROVE  IInv'
<1> DEFINE own == {m \in Messages : history[m].by = c}
<1>1. UNCHANGED <<collector, stored, queued, posted, saving, fetching, on, bounds, ghosts>>
  BY DEF DeleteHistories
<1>2. TypeMemory' /\ TypeGhosts'
  BY <1>1 DEF DeleteHistories, IInv, TypeMemory, TypeGhosts, bounds, ghosts
<1>3. CASE UNCHANGED <<history, rec>>
  <2>1. RestInv' /\ \A d : Accounted(d) => Accounted(d)'
    BY <1>1, <1>3, RecordsStay DEF ghosts
  <2>2. TypeDisk' /\ TypeRec' /\ OwnedInv' /\ LiveInv' /\ PhotoInv' /\ UniqueInv'
    BY <1>1, <1>3 DEF IInv, TypeDisk, TypeRec, OwnedInv, LiveInv, PhotoInv,
         UniqueInv, AtMostOne, Collected, Existing, ghosts
  <2>3. MarkedInv'
    BY <1>1, <1>3, <2>1 DEF IInv, MarkedInv, ghosts
  <2>4. ShareInv' /\ OnceInv'
    BY <1>1, <1>3 DEF IInv, ShareInv, OnceInv, AtMostOne, Inserting, ghosts
  <2> QED BY <1>2, <2>1, <2>2, <2>3, <2>4 DEF IInv
<1>4. CASE /\ Removed(own, Drafts) = {}
           /\ history' = [m \in Messages |-> IF m \in own THEN NoHistory ELSE history[m]]
           /\ rec' = Orphan(own)
  <2> HIDE DEF own
  <2>1. \A m \in own : \A d \in Drafts : stored[m][d] = 0
    BY <1>4 DEF Removed, own, IInv, TypeDisk
  <2>2. TypeDisk'
    BY <1>1, <1>4 DEF IInv, TypeDisk, NoHistory
  <2>3. \A r \in Runs, m \in Messages :
          rec'[r][m] = IF m \in own THEN [rec[r][m] EXCEPT !.live = FALSE] ELSE rec[r][m]
    BY <1>4 DEF Orphan
  <2>4. \A r \in Runs, m \in Messages :
          /\ rec'[r][m] \in Rec
          /\ rec'[r][m].at = rec[r][m].at
          /\ rec'[r][m].left = rec[r][m].left
          /\ rec'[r][m].draft = rec[r][m].draft
          /\ rec'[r][m].live => m \notin own /\ rec[r][m].live
    <3>1. ASSUME NEW x \in Rec
          PROVE  /\ [x EXCEPT !.live = FALSE] \in Rec
                 /\ [x EXCEPT !.live = FALSE].at = x.at
                 /\ [x EXCEPT !.live = FALSE].left = x.left
                 /\ [x EXCEPT !.live = FALSE].draft = x.draft
                 /\ [x EXCEPT !.live = FALSE].live = FALSE
      BY DEF Rec
    <3>2. \A r \in Runs, m \in Messages : rec[r][m] \in Rec
      BY DEF IInv, TypeRec
    <3> QED BY <2>3, <3>1, <3>2
  <2>5. TypeRec'
    BY <1>4, <2>4 DEF TypeRec, Orphan
  <2>6. /\ \A d : Accounted(d) => Accounted(d)'
        /\ \A m \in Messages : \A left : Rest(m, left) => Rest(m, left)'
    BY <1>1, AccountedKept DEF ghosts
  <2>7. UniqueInv' /\ RestInv' /\ ShareInv' /\ OnceInv'
    <3>1. \A m \in Messages, d \in Drafts : stored'[m][d] <= stored[m][d]
      BY <1>1 DEF IInv, TypeDisk
    <3> QED BY <1>1, <2>2, <2>4, <2>5, <2>6, <3>1, FewerRecords DEF ghosts
  <2>8. OwnedInv'
    BY <1>1, <1>4, <2>1 DEF IInv, OwnedInv, Collected, Existing, NoHistory
  <2>9. LiveInv'
    BY <1>4, <2>4 DEF IInv, LiveInv, Collected
  <2>10. PhotoInv'
    BY <1>1, <2>4, CollectionAssumption DEF IInv, PhotoInv, ghosts
  <2>11. MarkedInv'
    BY <1>1, <1>4, <2>4, <2>6 DEF IInv, MarkedInv, NoHistory, ghosts, Runs
  <2> QED BY <1>2, <2>2, <2>5, <2>7, <2>8, <2>9, <2>10, <2>11 DEF IInv
<1> QED BY <1>3, <1>4 DEF DeleteHistories

\* The records of the tick are dropped.
LEMMA KeepUpdateConfig ==
  ASSUME IInv, UpdateConfig
  PROVE  IInv'
<1>1. /\ Drop({"tick"}) /\ Request /\ on' \in BOOLEAN
      /\ UNCHANGED <<disk, posted, saving, fetching, at, overlapped, repeated, gone>>
  BY DEF UpdateConfig
<1>2. TypeDisk' /\ TypeMemory' /\ TypeGhosts' /\ OwnedInv' /\ UniqueInv'
  BY <1>1, CollectionAssumption DEF IInv, TypeDisk, TypeMemory, TypeGhosts,
       OwnedInv, UniqueInv, AtMostOne, Collected, Existing, Drop, Request,
       Event, disk
<1>3. TypeRec' /\ LiveInv' /\ RestInv' /\ PhotoInv' /\ MarkedInv' /\ ShareInv' /\ OnceInv'
  BY <1>1, DropFact DEF disk, Runs
<1> QED BY <1>2, <1>3 DEF IInv

\* The records of the request are dropped.
LEMMA KeepHangUp ==
  ASSUME IInv, NEW r \in Runs, HangUp(r)
  PROVE  IInv'
<1>1. /\ Drop({r}) /\ Event
      /\ UNCHANGED <<disk, posted, saving, fetching, on, at, requests,
                     overlapped, repeated, gone>>
  BY DEF HangUp
<1>2. TypeDisk' /\ TypeMemory' /\ TypeGhosts' /\ OwnedInv' /\ UniqueInv'
  BY <1>1, CollectionAssumption DEF IInv, TypeDisk, TypeMemory, TypeGhosts,
       OwnedInv, UniqueInv, AtMostOne, Collected, Existing, Drop, Request,
       Event, disk
<1>3. TypeRec' /\ LiveInv' /\ RestInv' /\ PhotoInv' /\ MarkedInv' /\ ShareInv' /\ OnceInv'
  BY <1>1, DropFact DEF disk
<1> QED BY <1>2, <1>3 DEF IInv

\* All records are dropped, and the resources without a url are gone.
LEMMA KeepRestart ==
  ASSUME IInv, Restart
  PROVE  IInv'
<1>1. /\ Drop(Runs)
      /\ stored' = Remaining(Messages, Linkless)
      /\ gone' = gone \cup Removed(Messages, Linkless)
      /\ UNCHANGED <<collector, history, queued, posted, on, requests, overlapped, repeated>>
  BY DEF Restart
<1>2. TypeDisk' /\ TypeMemory' /\ TypeGhosts'
  BY <1>1, CollectionAssumption DEF IInv, TypeDisk, TypeMemory, TypeGhosts,
       Restart, Event, Drop, Remaining, Removed
<1>3. \A m \in Messages, d \in Drafts :
        stored'[m][d] = IF d \in Linkless THEN 0 ELSE stored[m][d]
  BY <1>1 DEF Remaining
<1>4. /\ \A m \in Messages, d \in Drafts : stored'[m][d] <= stored[m][d]
      /\ \A m \in Messages, d \in Drafts :
           stored[m][d] > 0 => stored'[m][d] > 0 \/ d \in gone'
  BY <1>1, <1>3, CollectionAssumption DEF IInv, TypeDisk, Removed
<1>5. /\ \A d : Accounted(d) => Accounted(d)'
      /\ \A m \in Messages : \A left : Rest(m, left) => Rest(m, left)'
  BY <1>1, <1>4, AccountedKept
<1>6. TypeRec' /\ LiveInv' /\ PhotoInv' /\ MarkedInv'
      /\ \A r \in Runs, m \in Messages : rec'[r][m] = NoRec
  BY <1>1, <1>5, DropRecords
<1>7. UniqueInv' /\ RestInv' /\ ShareInv' /\ OnceInv'
  BY <1>1, <1>2, <1>4, <1>5, <1>6, FewerRecords
<1>8. OwnedInv'
  BY <1>1, <1>2, <1>4 DEF IInv, OwnedInv, Collected, Existing, TypeDisk
<1> QED BY <1>2, <1>6, <1>7, <1>8 DEF IInv

\* The records of the tick start with whole lists.
LEMMA KeepExtractTick ==
  ASSUME IInv, ExtractTick
  PROVE  IInv'
<1>1. /\ Select("tick")
      /\ UNCHANGED <<disk, posted, saving, fetching, on, at, overlapped, gone, uncovered>>
  BY DEF ExtractTick
<1>2. /\ TypeRec' /\ LiveInv' /\ RestInv' /\ PhotoInv' /\ MarkedInv'
      /\ ShareInv' /\ OnceInv' /\ repeated' \subseteq Messages
  BY <1>1, SelectFact DEF disk
<1>3. TypeDisk' /\ TypeMemory' /\ TypeGhosts' /\ OwnedInv' /\ UniqueInv'
  BY <1>1, <1>2, CollectionAssumption DEF ExtractTick, IInv, TypeDisk,
       TypeMemory, TypeGhosts, OwnedInv, UniqueInv, AtMostOne, Collected,
       Existing, Request, disk, bounds
<1> QED BY <1>2, <1>3 DEF IInv

\* So do those of a batch.
LEMMA KeepExtractResources ==
  ASSUME IInv, ExtractResources
  PROVE  IInv'
<1>1. /\ Select("batch")
      /\ UNCHANGED <<disk, posted, saving, fetching, on, at, overlapped, gone, uncovered>>
  BY DEF ExtractResources
<1>2. /\ TypeRec' /\ LiveInv' /\ RestInv' /\ PhotoInv' /\ MarkedInv'
      /\ ShareInv' /\ OnceInv' /\ repeated' \subseteq Messages
  BY <1>1, SelectFact DEF disk
<1>3. TypeDisk' /\ TypeMemory' /\ TypeGhosts' /\ OwnedInv' /\ UniqueInv'
  BY <1>1, <1>2, CollectionAssumption DEF ExtractResources, IInv, TypeDisk,
       TypeMemory, TypeGhosts, OwnedInv, UniqueInv, AtMostOne, Collected,
       Existing, Request, disk
<1> QED BY <1>2, <1>3 DEF IInv

\* The extraction of one history starts with a whole list.
LEMMA KeepExtractSingle ==
  ASSUME IInv, NEW m \in Messages, ExtractSingle(m)
  PROVE  IInv'
<1>1. PICK l \in Results[m] : rec' = [rec EXCEPT !["single"][m] = ReadAs(l)]
  BY DEF ExtractSingle
<1>2. UNCHANGED <<disk, posted, saving, fetching, on, at, overlapped, gone, uncovered>>
  BY DEF ExtractSingle
<1>3. "single" \in Runs
  BY DEF Runs
<1>4. /\ TypeRec'
      /\ rec'["single"][m] = ReadAs(l)
      /\ \A q \in Runs : \A n \in Messages : q # "single" \/ n # m => rec'[q][n] = rec[q][n]
  BY <1>1, <1>3, WholeList, OneRecord DEF IInv
<1>5. /\ repeated' = IF Repeats(m) THEN repeated \cup {m} ELSE repeated
      /\ Collected(m) /\ Idle("single")
  BY DEF ExtractSingle
<1>6. LiveInv' /\ RestInv' /\ PhotoInv' /\ MarkedInv' /\ ShareInv' /\ OnceInv'
  <2>1. repeated \subseteq repeated' /\ (m \in repeated' \/ ~Repeats(m))
    BY <1>5
  <2>2. \A n \in Messages :
          \/ rec'["single"][n] \in {NoRec, rec["single"][n]}
          \/ /\ Collected(n) /\ (n \in repeated' \/ ~Repeats(n))
             /\ \E k \in Results[n] : rec'["single"][n] = ReadAs(k)
    BY <1>3, <1>4, <1>5, <2>1
  <2> QED BY <1>2, <1>3, <1>4, <1>5, <2>1, <2>2, StartRecords DEF disk
<1>7. TypeDisk' /\ TypeMemory' /\ TypeGhosts' /\ OwnedInv' /\ UniqueInv'
  BY <1>2, <1>5, CollectionAssumption DEF ExtractSingle, IInv, TypeDisk,
       TypeMemory, TypeGhosts, OwnedInv, UniqueInv, AtMostOne, Collected,
       Existing, Request, disk
<1> QED BY <1>4, <1>6, <1>7 DEF IInv

\* A history is marked when nothing is left of its list.
LEMMA KeepMark ==
  ASSUME IInv, NEW r \in Runs, NEW m \in Messages, Mark(r, m)
  PROVE  IInv'
<1>1. /\ rec[r][m].at = "mark"
      /\ UNCHANGED <<collector, stored, queued, posted, saving, fetching, on, at,
                     requests, ghosts>>
  BY DEF Mark
<1>2. TypeMemory' /\ TypeGhosts'
  BY CollectionAssumption DEF Mark, IInv, TypeMemory, TypeGhosts, Event, ghosts
<1>3. \/ history' = [history EXCEPT ![m].extracted = TRUE] /\ rec[r][m].live
      \/ UNCHANGED history
  BY DEF Mark
<1>4. \/ r = "single" /\ Goes(r, m, "queue")
      \/ (r # "single" \/ m \notin Photos \/ UNCHANGED history) /\ Ends(r, m)
  BY DEF Mark
<1>5. /\ TypeRec'
      /\ \/ /\ r = "single" /\ rec'[r][m].at = "queue"
            /\ rec'[r][m].left = rec[r][m].left /\ rec'[r][m].draft = rec[r][m].draft
            /\ rec'[r][m].live = rec[r][m].live
         \/ /\ r # "single" \/ m \notin Photos \/ UNCHANGED history
            /\ rec'[r][m] = NoRec
      /\ \A q \in Runs : \A n \in Messages : q # r \/ n # m => rec'[q][n] = rec[q][n]
  <2>1. CASE r = "single" /\ Goes(r, m, "queue")
    <3>1. rec[r][m].left \in Lists /\ rec[r][m].draft \in Drafts \cup {NoDraft}
      BY DEF IInv, TypeRec, Rec
    <3>2. /\ TypeRec'
          /\ rec'[r][m] = Later(r, m, "queue", rec[r][m].left, rec[r][m].draft)
          /\ \A q \in Runs : \A n \in Messages : q # r \/ n # m => rec'[q][n] = rec[q][n]
      BY <2>1, <3>1, ContinueRecord DEF Goes, IInv
    <3>3. /\ rec'[r][m].at = "queue"
          /\ rec'[r][m].left = rec[r][m].left /\ rec'[r][m].draft = rec[r][m].draft
          /\ rec'[r][m].live = rec[r][m].live
      BY <3>2 DEF Later
    <3> QED BY <2>1, <3>2, <3>3
  <2>2. CASE (r # "single" \/ m \notin Photos \/ UNCHANGED history) /\ Ends(r, m)
    <3>1. NoRec \in Rec
      BY NoRecord
    <3>2. rec' = [rec EXCEPT ![r][m] = NoRec]
      BY <2>2 DEF Ends
    <3>3. /\ TypeRec'
          /\ rec'[r][m] = NoRec
          /\ \A q \in Runs : \A n \in Messages : q # r \/ n # m => rec'[q][n] = rec[q][n]
      BY <3>1, <3>2, OneRecord DEF IInv
    <3> QED BY <2>2, <3>3
  <2> QED BY <1>4, <2>1, <2>2
<1>6. /\ TypeDisk'
      /\ \A n \in Messages : history'[n].by = history[n].by
      /\ \A n \in Messages : history'[n].extracted =>
           history[n].extracted \/ (n = m /\ history' # history)
  BY <1>1, <1>3 DEF IInv, TypeDisk
<1>7. OwnedInv' /\ UniqueInv'
  BY <1>1, <1>6 DEF IInv, OwnedInv, UniqueInv, AtMostOne, Collected, Existing
<1>8. LiveInv'
  BY <1>5, <1>6 DEF IInv, LiveInv, Collected, NoRec
<1>9. /\ \A d : Accounted(d) => Accounted(d)'
      /\ \A n \in Messages : \A left : Rest(n, left) => Rest(n, left)'
  BY <1>1, AccountedKept DEF ghosts
<1>10. RestInv' /\ ShareInv' /\ OnceInv'
  <2>1. \A n \in Messages, d \in Drafts : stored'[n][d] <= stored[n][d]
    BY <1>1 DEF IInv, TypeDisk
  <2>2. \A q \in Runs, n \in Messages :
          \/ rec'[q][n] = NoRec
          \/ /\ \/ rec'[q][n].at = rec[q][n].at
                \/ {rec[q][n].at, rec'[q][n].at} \subseteq {"enqueue", "mark", "queue"}
             /\ rec'[q][n].left = rec[q][n].left
             /\ rec'[q][n].draft = rec[q][n].draft
    BY <1>1, <1>5
  <2> QED BY <1>1, <1>5, <1>6, <1>9, <2>1, <2>2, FewerRecords DEF ghosts
<1>11. PhotoInv'
  <2>1. \A q \in Runs, n \in Messages :
          rec'[q][n] \in {rec[q][n], NoRec} \/ (q = "single" /\ rec'[q][n].at = "queue")
    BY <1>5
  <2> QED BY <1>1, <2>1, CollectionAssumption DEF IInv, PhotoInv, NoRec, ghosts
<1>12. MarkedInv'
  <2> SUFFICES ASSUME NEW n \in Messages, history'[n].extracted, Results[n] # {<<>>}
               PROVE  /\ \E l \in Results[n] : \A d \in Range(l) : Accounted(d)'
                      /\ n \in Photos =>
                           n \in queued' \cup uncovered' \/ rec'["single"][n].at = "queue"
    BY DEF MarkedInv
  <2>1. CASE history[n].extracted
    <3>1. rec["single"][n].at = "queue" => rec'["single"][n].at = "queue"
      BY <1>1, <1>5 DEF Runs
    <3> QED BY <1>1, <1>9, <2>1, <3>1 DEF IInv, MarkedInv, ghosts
  <2>2. CASE n = m /\ history' # history
    <3>1. rec[r][m].left = <<>> /\ Rest(m, <<>>)
      BY <1>1 DEF IInv, RestInv
    <3>2. \E l \in Results[m] : \A d \in Range(l) : Accounted(d)
      BY <3>1, AllAccounted
    <3>3. m \in Photos /\ r # "single" => m \in queued \cup uncovered
      BY <1>1, <2>2 DEF IInv, PhotoInv
    <3>4. m \in Photos /\ r = "single" => rec'["single"][m].at = "queue"
      BY <1>5, <2>2
    <3> QED BY <1>1, <1>9, <2>2, <3>2, <3>3, <3>4 DEF ghosts
  <2> QED BY <1>6, <2>1, <2>2
<1> QED BY <1>2, <1>5, <1>6, <1>7, <1>8, <1>10, <1>11, <1>12 DEF IInv

\* The photo is queued, or remembered as uncovered.
LEMMA KeepEnqueue ==
  ASSUME IInv, NEW r \in Runs, NEW m \in Messages, Enqueue(r, m)
  PROVE  IInv'
<1>1. /\ rec[r][m].at \in {"enqueue", "queue"}
      /\ UNCHANGED <<collector, history, stored, posted, saving, fetching, on, at,
                     requests, overlapped, repeated, gone>>
  BY DEF Enqueue
<1>2. /\ queued \subseteq queued' /\ uncovered \subseteq uncovered'
      /\ m \in queued' \cup uncovered'
      /\ queued' \subseteq Messages /\ uncovered' \subseteq Messages
  BY DEF Enqueue, IInv, TypeDisk, TypeGhosts
<1>3. TypeDisk' /\ TypeMemory' /\ TypeGhosts'
  BY <1>1, <1>2, CollectionAssumption DEF Enqueue, IInv, TypeDisk, TypeMemory,
       TypeGhosts, Event
<1>4. IF r = "single" THEN Ends(r, m) ELSE Goes(r, m, "mark")
  BY DEF Enqueue
<1>5. /\ TypeRec'
      /\ \/ /\ r # "single" /\ rec'[r][m].at = "mark"
            /\ rec'[r][m].left = rec[r][m].left /\ rec'[r][m].draft = rec[r][m].draft
            /\ rec'[r][m].live = rec[r][m].live
         \/ rec'[r][m] = NoRec
      /\ \A q \in Runs : \A n \in Messages : q # r \/ n # m => rec'[q][n] = rec[q][n]
  <2>1. CASE r # "single" /\ Goes(r, m, "mark")
    <3>1. rec[r][m].left \in Lists /\ rec[r][m].draft \in Drafts \cup {NoDraft}
      BY DEF IInv, TypeRec, Rec
    <3>2. /\ TypeRec'
          /\ rec'[r][m] = Later(r, m, "mark", rec[r][m].left, rec[r][m].draft)
          /\ \A q \in Runs : \A n \in Messages : q # r \/ n # m => rec'[q][n] = rec[q][n]
      BY <2>1, <3>1, ContinueRecord DEF Goes, IInv
    <3>3. /\ rec'[r][m].at = "mark"
          /\ rec'[r][m].left = rec[r][m].left /\ rec'[r][m].draft = rec[r][m].draft
          /\ rec'[r][m].live = rec[r][m].live
      BY <3>2 DEF Later
    <3> QED BY <2>1, <3>2, <3>3
  <2>2. CASE Ends(r, m)
    <3>1. NoRec \in Rec
      BY NoRecord
    <3>2. rec' = [rec EXCEPT ![r][m] = NoRec]
      BY <2>2 DEF Ends
    <3>3. /\ TypeRec'
          /\ rec'[r][m] = NoRec
          /\ \A q \in Runs : \A n \in Messages : q # r \/ n # m => rec'[q][n] = rec[q][n]
      BY <3>1, <3>2, OneRecord DEF IInv
    <3> QED BY <2>2, <3>3
  <2> QED BY <1>4, <2>1, <2>2
<1>6. OwnedInv' /\ UniqueInv'
  BY <1>1 DEF IInv, OwnedInv, UniqueInv, AtMostOne, Collected, Existing
<1>7. LiveInv'
  BY <1>1, <1>5 DEF IInv, LiveInv, Collected, NoRec
<1>8. /\ \A d : Accounted(d) => Accounted(d)'
      /\ \A n \in Messages : \A left : Rest(n, left) => Rest(n, left)'
  BY <1>1, AccountedKept
<1>9. RestInv' /\ ShareInv' /\ OnceInv'
  <2>1. \A n \in Messages, d \in Drafts : stored'[n][d] <= stored[n][d]
    BY <1>1 DEF IInv, TypeDisk
  <2>2. \A q \in Runs, n \in Messages :
          \/ rec'[q][n] = NoRec
          \/ /\ \/ rec'[q][n].at = rec[q][n].at
                \/ {rec[q][n].at, rec'[q][n].at} \subseteq {"enqueue", "mark", "queue"}
             /\ rec'[q][n].left = rec[q][n].left
             /\ rec'[q][n].draft = rec[q][n].draft
    BY <1>1, <1>5
  <2> QED BY <1>1, <1>3, <1>5, <1>8, <2>1, <2>2, FewerRecords
<1>10. PhotoInv'
  <2>1. \A q \in Runs, n \in Messages :
          \/ rec'[q][n] \in {rec[q][n], NoRec}
          \/ q # "single" /\ n = m /\ rec'[q][n].at = "mark"
    BY <1>5
  <2> QED BY <1>2, <2>1, CollectionAssumption DEF IInv, PhotoInv, NoRec
<1>11. MarkedInv'
  <2>1. \A n \in Messages : n # m /\ rec["single"][n].at = "queue" =>
          rec'["single"][n].at = "queue"
    BY <1>5 DEF Runs
  <2> QED BY <1>1, <1>2, <1>8, <2>1 DEF IInv, MarkedInv
<1> QED BY <1>3, <1>5, <1>6, <1>7, <1>9, <1>10, <1>11 DEF IInv

\* A draft that is known is accounted for; one that is not has no share stored
\* or about to be, or the share is one the check missed.
LEMMA KeepCheck ==
  ASSUME IInv, NEW r \in Runs, NEW m \in Messages, Check(r, m)
  PROVE  IInv'
<1>1. /\ rec[r][m].at = "check"
      /\ UNCHANGED <<disk, posted, saving, fetching, on, at, requests,
                     repeated, gone, uncovered>>
  BY DEF Check
<1>2. PICK left : left = rec[r][m].left
  OBVIOUS
<1>3. left # <<>> /\ Rest(m, left)
  BY <1>1, <1>2 DEF IInv, RestInv
<1>4. PICK d \in Drafts : d = Head(left)
  BY <1>3, RestFacts
<1>5. \/ Known(d) /\ DoneWith(r, m) /\ UNCHANGED overlapped
      \/ /\ Continue(r, m, "insert", left, d)
         /\ \/ ~Known(d) /\ overlapped' = overlapped \cup Passing(d)
            \/ overlapped' = overlapped \cup SharesOf[d]
  BY <1>2, <1>4 DEF Check
<1>6. SharesOf[d] \subseteq Shares
  BY CollectionAssumption
<1>7. TypeDisk' /\ TypeMemory' /\ OwnedInv' /\ UniqueInv'
  BY <1>1 DEF IInv, TypeDisk, TypeMemory, OwnedInv, UniqueInv, AtMostOne,
       Collected, Existing, disk
<1>8. TypeGhosts' /\ overlapped \subseteq overlapped'
  <2>1. Passing(d) \subseteq SharesOf[d]
    BY DEF Passing
  <2>2. events' \in 0..MaxEvents
    BY CollectionAssumption DEF Check, Event, IInv, TypeGhosts
  <2> QED BY <1>1, <1>5, <1>6, <2>1, <2>2 DEF IInv, TypeGhosts
<1>9. /\ \A e : Accounted(e) => Accounted(e)'
      /\ \A n \in Messages : \A rest : Rest(n, rest) => Rest(n, rest)'
  BY <1>1, AccountedKept DEF disk
<1>10. CASE Known(d) /\ DoneWith(r, m) /\ UNCHANGED overlapped
  <2>1. Accounted(d)
    BY <1>10 DEF Known, Accounted, Settled
  <2>2. /\ TypeRec' /\ LiveInv' /\ RestInv' /\ PhotoInv' /\ MarkedInv'
        /\ rec'[r][m].at # "insert" /\ rec'[r][m].left = Tail(left)
        /\ \A q \in Runs : \A n \in Messages : q # r \/ n # m => rec'[q][n] = rec[q][n]
    BY <1>1, <1>2, <1>4, <1>9, <1>10, <2>1, DoneWithFact DEF disk
  <2>3. ShareInv' /\ OnceInv'
    BY <1>1, <1>2, <1>3, <1>10, <2>2, DoneWithOnce DEF disk
  <2> QED BY <1>7, <1>8, <2>2, <2>3 DEF IInv
<1>11. CASE /\ Continue(r, m, "insert", left, d)
            /\ \/ ~Known(d) /\ overlapped' = overlapped \cup Passing(d)
               \/ overlapped' = overlapped \cup SharesOf[d]
  <2>1. left \in Lists
    BY <1>2 DEF IInv, TypeRec, Rec
  <2>2. /\ TypeRec'
        /\ rec'[r][m] = Later(r, m, "insert", left, d)
        /\ \A q \in Runs : \A n \in Messages : q # r \/ n # m => rec'[q][n] = rec[q][n]
    BY <1>11, <2>1, ContinueRecord DEF IInv
  <2>3. /\ rec'[r][m].at = "insert" /\ rec'[r][m].left = left /\ rec'[r][m].draft = d
        /\ rec'[r][m].live = rec[r][m].live
    BY <2>2 DEF Later
  <2>4. LiveInv'
    BY <1>1, <2>2, <2>3 DEF IInv, LiveInv, Collected, disk
  <2>5. RestInv'
    <3>1. ASSUME NEW q \in Runs, NEW n \in Messages, q # r \/ n # m
          PROVE  /\ rec'[q][n].at # "none" => Rest(n, rec[q][n].left)'
                 /\ rec'[q][n].at \in {"check", "insert"} <=> rec'[q][n].left # <<>>
                 /\ rec'[q][n].at = "insert" => rec'[q][n].draft = Head(rec'[q][n].left)
      BY <1>9, <2>2, <3>1 DEF IInv, RestInv
    <3>2. Rest(m, left)'
      BY <1>3, <1>9
    <3>3. Rest(m, rec[r][m].left)'
      BY <2>3, <3>2
    <3> QED BY <1>3, <1>4, <2>3, <3>1, <3>3 DEF RestInv
  <2>6. PhotoInv'
    <3>1. \A q \in Runs, n \in Messages : rec'[q][n] = rec[q][n] \/ rec'[q][n].at = "insert"
      BY <2>2, <2>3
    <3> QED BY <1>1, <3>1, CollectionAssumption DEF IInv, PhotoInv, disk
  <2>7. MarkedInv'
    <3>1. ASSUME NEW n \in Messages, rec["single"][n].at = "queue"
          PROVE  rec'["single"][n].at = "queue"
      BY <1>1, <2>2, <3>1 DEF Runs
    <3> QED BY <1>1, <1>9, <3>1 DEF IInv, MarkedInv, disk
  <2>8. ShareInv'
    <3>1. ASSUME NEW s \in Shares \ overlapped'
          PROVE  AtMostOne({e \in Drafts : s \in SharesOf[e]})'
      BY <1>1, <1>8, <3>1 DEF IInv, ShareInv, AtMostOne, disk
    <3>2. ASSUME NEW s \in SharesOf[d] \ overlapped'
          PROVE  /\ \A n \in Messages : \A e \in Drafts : s \in SharesOf[e] => stored[n][e] = 0
                 /\ \A q \in Runs : \A n \in Messages : ~Inserting(q, n, s)
      <4>1. ~Known(d) /\ overlapped' = overlapped \cup Passing(d)
        BY <1>11, <3>2
      <4>2. \A n \in Messages : \A e \in Drafts : s \in SharesOf[e] => stored[n][e] = 0
        BY <3>2, <4>1 DEF Known, Same, IsStored, IInv, TypeDisk
      <4>3. \A q \in Runs : \A n \in Messages : ~Inserting(q, n, s)
        <5>1. ASSUME NEW q \in Runs, NEW n \in Messages, Inserting(q, n, s)
              PROVE  s \in Passing(d)
          <6>1. <<q, n>> \in {p \in Runs \X Messages : rec[p[1]][p[2]].at = "insert"}
            BY <5>1 DEF Inserting
          <6> QED BY <3>2, <5>1, <6>1 DEF Inserting, Passing
        <5> QED BY <3>2, <4>1, <5>1
      <4> QED BY <4>2, <4>3
    <3>3. ASSUME NEW s, NEW q \in Runs, NEW n \in Messages, Inserting(q, n, s)'
          PROVE  \/ q = r /\ n = m /\ s \in SharesOf[d]
                 \/ (q # r \/ n # m) /\ Inserting(q, n, s)
      BY <2>2, <2>3, <3>3 DEF Inserting
    <3>4. ASSUME NEW s \in Shares \ overlapped', NEW q \in Runs, NEW n \in Messages,
                 Inserting(q, n, s)'
          PROVE  /\ \A k \in Messages : \A e \in Drafts : s \in SharesOf[e] => stored'[k][e] = 0
                 /\ \A p \in Runs : \A k \in Messages : Inserting(p, k, s)' => p = q /\ k = n
      <4>1. CASE s \in SharesOf[d]
        BY <1>1, <3>2, <3>3, <3>4, <4>1 DEF disk
      <4>2. CASE s \notin SharesOf[d]
        <5>1. s \in Shares \ overlapped /\ Inserting(q, n, s)
          BY <1>8, <3>3, <3>4, <4>2
        <5>2. /\ \A k \in Messages : \A e \in Drafts : s \in SharesOf[e] => stored[k][e] = 0
              /\ \A p \in Runs : \A k \in Messages : Inserting(p, k, s) => p = q /\ k = n
          BY <5>1 DEF IInv, ShareInv
        <5> QED BY <1>1, <3>3, <4>2, <5>2 DEF disk
      <4> QED BY <4>1, <4>2
    <3> QED BY <3>1, <3>4 DEF ShareInv
  <2>9. OnceInv'
    <3>1. \A q \in Runs, n \in Messages :
            /\ rec'[q][n].left = rec[q][n].left
            /\ rec'[q][n].at # "none" => rec[q][n].at # "none"
      BY <1>1, <1>2, <2>2, <2>3
    <3> QED BY <1>1, <3>1 DEF IInv, OnceInv, disk
  <2> QED BY <1>7, <1>8, <2>2, <2>4, <2>5, <2>6, <2>7, <2>8, <2>9 DEF IInv
<1> QED BY <1>5, <1>10, <1>11

\* The draft is stored, or has its row already, or is gone.
LEMMA KeepInsert ==
  ASSUME IInv, NEW r \in Runs, NEW m \in Messages, Insert(r, m)
  PROVE  IInv'
<1>1. /\ rec[r][m].at = "insert" /\ DoneWith(r, m)
      /\ UNCHANGED <<collector, history, queued, posted, saving, fetching, on, at,
                     requests, overlapped, repeated, uncovered>>
  BY DEF Insert
<1>2. PICK left : left = rec[r][m].left
  OBVIOUS
<1>3. left # <<>> /\ Rest(m, left) /\ rec[r][m].draft = Head(left)
  BY <1>1, <1>2 DEF IInv, RestInv
<1>4. PICK d \in Drafts : d = Head(left)
  BY <1>3, RestFacts
<1>5. \/ /\ rec[r][m].live /\ UNCHANGED gone
         /\ stored' = IF IsStored(d) /\ d \notin Linkless THEN stored
                      ELSE [stored EXCEPT ![m][d] = @ + 1]
      \/ gone' = gone \cup {d} /\ UNCHANGED stored
  BY <1>3, <1>4 DEF Insert
<1>6. \/ /\ UNCHANGED stored
         /\ \/ gone' = gone \cup {d}
            \/ IsStored(d) /\ UNCHANGED gone
      \/ /\ rec[r][m].live /\ UNCHANGED gone
         /\ ~IsStored(d) \/ d \in Linkless
         /\ stored' = [stored EXCEPT ![m][d] = stored[m][d] + 1]
  BY <1>5
<1>7. /\ TypeDisk'
      /\ \A n \in Messages, e \in Drafts :
           stored'[n][e] = stored[n][e] \/ (n = m /\ e = d /\ stored'[n][e] = stored[n][e] + 1)
  BY <1>1, <1>6 DEF IInv, TypeDisk
<1>8. TypeMemory' /\ TypeGhosts'
  <2>1. events' \in 0..MaxEvents
    BY CollectionAssumption DEF Insert, Event, IInv, TypeGhosts
  <2> QED BY <1>1, <1>6, <2>1 DEF IInv, TypeMemory, TypeGhosts
<1>9. /\ \A e : Accounted(e) => Accounted(e)'
      /\ \A n \in Messages : \A rest : Rest(n, rest) => Rest(n, rest)'
  <2>1. gone \subseteq gone'
    BY <1>6
  <2>2. \A n \in Messages, e \in Drafts : stored[n][e] > 0 => stored'[n][e] > 0
    BY <1>7 DEF IInv, TypeDisk
  <2> QED BY <2>1, <2>2, AccountedKept
<1>10. Accounted(d)'
  <2>1. Settled(d)'
    <3>1. CASE UNCHANGED stored
      BY <1>6, <3>1 DEF Settled, IsStored, IInv, TypeDisk
    <3>2. CASE stored' = [stored EXCEPT ![m][d] = stored[m][d] + 1]
      BY <3>2 DEF Settled, IsStored, IInv, TypeDisk
    <3> QED BY <1>6, <3>1, <3>2
  <2> QED BY <2>1 DEF Accounted
<1>11. /\ TypeRec' /\ LiveInv' /\ RestInv' /\ PhotoInv' /\ MarkedInv'
       /\ rec'[r][m].at # "insert" /\ rec'[r][m].left = Tail(left)
       /\ \A q \in Runs : \A n \in Messages : q # r \/ n # m => rec'[q][n] = rec[q][n]
  BY <1>1, <1>2, <1>4, <1>9, <1>10, DoneWithFact
<1>12. CASE UNCHANGED stored
  <2>1. OwnedInv' /\ UniqueInv'
    BY <1>1, <1>12 DEF IInv, OwnedInv, UniqueInv, AtMostOne, Collected, Existing
  <2>2. ShareInv' /\ OnceInv'
    BY <1>1, <1>2, <1>3, <1>11, <1>12, DoneWithOnce
  <2> QED BY <1>7, <1>8, <1>11, <2>1, <2>2 DEF IInv
<1>13. CASE /\ rec[r][m].live
            /\ ~IsStored(d) \/ d \in Linkless
            /\ stored' = [stored EXCEPT ![m][d] = stored[m][d] + 1]
  <2>1. stored'[m][d] = stored[m][d] + 1 /\ stored[m][d] \in Nat
    BY <1>13 DEF IInv, TypeDisk
  <2>2. \A n \in Messages, e \in Drafts : n # m \/ e # d => stored'[n][e] = stored[n][e]
    BY <1>13 DEF IInv
  <2>3. OwnedInv'
    BY <1>1, <1>13, <2>2 DEF IInv, OwnedInv, LiveInv, Collected, Existing
  <2>4. UniqueInv'
    <3>1. ASSUME d \notin Linkless
          PROVE  \A n \in Messages : stored[n][d] = 0
      BY <1>13, <3>1 DEF IsStored, IInv, TypeDisk
    <3> QED BY <2>1, <2>2, <3>1 DEF IInv, UniqueInv, AtMostOne
  <2>5. ASSUME NEW s, s \in SharesOf[d] PROVE Inserting(r, m, s)
    BY <1>1, <1>3, <1>4, <2>5 DEF Inserting
  <2>6. ASSUME NEW s, NEW q \in Runs, NEW n \in Messages, Inserting(q, n, s)'
        PROVE  (q # r \/ n # m) /\ Inserting(q, n, s)
    BY <1>11, <2>6 DEF Inserting
  <2>7. ShareInv'
    <3>1. ASSUME NEW s \in Shares \ overlapped, s \in SharesOf[d]
          PROVE  /\ \A n \in Messages : \A e \in Drafts : s \in SharesOf[e] => stored[n][e] = 0
                 /\ \A q \in Runs : \A n \in Messages : Inserting(q, n, s) => q = r /\ n = m
      BY <2>5, <3>1 DEF IInv, ShareInv
    <3>2. ASSUME NEW s \in Shares \ overlapped
          PROVE  AtMostOne({e \in Drafts : s \in SharesOf[e]})'
      <4>1. CASE s \in SharesOf[d]
        BY <2>1, <2>2, <3>1, <4>1 DEF AtMostOne
      <4>2. CASE s \notin SharesOf[d]
        <5>1. AtMostOne({e \in Drafts : s \in SharesOf[e]})
          BY <3>2 DEF IInv, ShareInv
        <5> QED BY <2>2, <4>2, <5>1 DEF AtMostOne
      <4> QED BY <4>1, <4>2
    <3>3. ASSUME NEW s \in Shares \ overlapped, NEW q \in Runs, NEW n \in Messages,
                 Inserting(q, n, s)'
          PROVE  /\ \A k \in Messages : \A e \in Drafts : s \in SharesOf[e] => stored'[k][e] = 0
                 /\ \A p \in Runs : \A k \in Messages : Inserting(p, k, s)' => p = q /\ k = n
      <4>1. (q # r \/ n # m) /\ Inserting(q, n, s)
        BY <2>6, <3>3
      <4>2. s \notin SharesOf[d]
        BY <3>1, <3>3, <4>1
      <4>3. /\ \A k \in Messages : \A e \in Drafts : s \in SharesOf[e] => stored[k][e] = 0
            /\ \A p \in Runs : \A k \in Messages : Inserting(p, k, s) => p = q /\ k = n
        BY <3>3, <4>1 DEF IInv, ShareInv
      <4> QED BY <2>2, <2>6, <4>2, <4>3
    <3> QED BY <1>1, <3>2, <3>3 DEF ShareInv
  <2>8. OnceInv'
    <3> SUFFICES ASSUME NEW n \in Messages \ repeated
                 PROVE  /\ \A q, p \in Runs :
                             rec'[q][n].at # "none" /\ rec'[p][n].at # "none" => q = p
                        /\ \A e \in Linkless : stored'[n][e] <= 1
                        /\ \A q \in Runs : \A i \in DOMAIN rec'[q][n].left :
                             rec'[q][n].left[i] \in Linkless =>
                               stored'[n][rec'[q][n].left[i]] = 0
      BY <1>1 DEF OnceInv
    <3>1. \A q, p \in Runs : rec[q][n].at # "none" /\ rec[p][n].at # "none" => q = p
      BY DEF IInv, OnceInv
    <3>2. \A q, p \in Runs : rec'[q][n].at # "none" /\ rec'[p][n].at # "none" => q = p
      BY <1>1, <1>11, <3>1
    <3>3. ASSUME n # m \/ d \notin Linkless, NEW e \in Linkless
          PROVE  stored'[n][e] = stored[n][e]
      BY <2>2, <3>3, CollectionAssumption
    <3>4. \A q \in Runs : \A i \in DOMAIN rec'[q][n].left :
            \E j \in DOMAIN rec[q][n].left : rec'[q][n].left[i] = rec[q][n].left[j]
      <4>1. ASSUME NEW i \in DOMAIN Tail(left)
            PROVE  \E j \in DOMAIN left : Tail(left)[i] = left[j]
        BY <1>3, <4>1
      <4>2. \A q \in Runs : q # r \/ n # m => rec'[q][n] = rec[q][n]
        BY <1>11
      <4>3. ASSUME NEW q \in Runs, q # r \/ n # m, NEW i \in DOMAIN rec'[q][n].left
            PROVE  \E j \in DOMAIN rec[q][n].left : rec'[q][n].left[i] = rec[q][n].left[j]
        BY <4>2, <4>3
      <4>4. ASSUME NEW i \in DOMAIN rec'[r][m].left
            PROVE  \E j \in DOMAIN rec[r][m].left : rec'[r][m].left[i] = rec[r][m].left[j]
        BY <1>2, <1>11, <4>1, <4>4
      <4> QED BY <4>3, <4>4
    <3>5. CASE n # m \/ d \notin Linkless
      BY <3>2, <3>3, <3>4, <3>5 DEF IInv, OnceInv
    <3>6. CASE n = m /\ d \in Linkless
      <4>1. stored[m][d] = 0
        BY <1>2, <1>3, <1>4, <3>6, RestFacts DEF IInv, OnceInv
      <4>2. \A e \in Linkless : stored'[m][e] <= 1
        BY <2>1, <2>2, <3>6, <4>1, CollectionAssumption DEF IInv, OnceInv
      <4>3. ASSUME NEW q \in Runs, NEW i \in DOMAIN rec'[q][m].left,
                   rec'[q][m].left[i] \in Linkless
            PROVE  stored'[m][rec'[q][m].left[i]] = 0
        <5>1. CASE q # r
          <6>1. rec'[q][m].left = rec[q][m].left /\ rec[q][m].at = "none"
            BY <1>1, <1>11, <3>1, <3>6, <5>1
          <6>2. rec[q][m].left = <<>>
            BY <6>1 DEF IInv, RestInv
          <6> QED BY <4>3, <6>1, <6>2
        <5>2. CASE q = r
          <6>1. i \in DOMAIN Tail(left) /\ rec'[q][m].left[i] = Tail(left)[i]
            BY <1>11, <4>3, <5>2
          <6>2. Tail(left)[i] # d /\ Tail(left)[i] \in Drafts
            BY <1>3, <1>4, <3>6, <4>3, <6>1, RestFacts, CollectionAssumption
          <6>3. stored[m][Tail(left)[i]] = 0
            BY <1>2, <3>4, <3>6, <4>3, <5>2, <6>1 DEF IInv, OnceInv
          <6> QED BY <2>2, <6>1, <6>2, <6>3
        <5> QED BY <5>1, <5>2
      <4> QED BY <3>2, <3>6, <4>2, <4>3
    <3> QED BY <3>5, <3>6
  <2> QED BY <1>7, <1>8, <1>11, <2>3, <2>4, <2>7, <2>8 DEF IInv
<1> QED BY <1>6, <1>12, <1>13


-----------------------------------------------------------------------------
(* The theorems *)

\* A database of an earlier start has no histories yet.
LEMMA InitIInv == Init => IInv
<1> SUFFICES ASSUME Init PROVE IInv
  OBVIOUS
<1>1. PICK cs \in SUBSET Collectors :
        collector = [c \in Collectors |-> IF c \in cs THEN "active" ELSE "absent"]
  BY DEF Init
<1>2. TypeDisk
  BY <1>1 DEF Init, TypeDisk, NoHistory
<1>3. TypeMemory
  BY DEF Init, TypeMemory
<1>4. TypeRec
  BY NoRecord DEF Init, TypeRec
<1>5. TypeGhosts
  BY CollectionAssumption DEF Init, TypeGhosts
<1>6. /\ \A m \in Messages : history[m] = NoHistory
      /\ \A m \in Messages, d \in Drafts : stored[m][d] = 0
      /\ \A r \in Runs, m \in Messages : rec[r][m] = NoRec
  BY DEF Init
<1>7. /\ NoRec.at = "none" /\ NoRec.left = <<>> /\ NoRec.live = FALSE
      /\ NoHistory.by = NoCollector /\ NoHistory.extracted = FALSE
  BY DEF NoRec, NoHistory
<1>8. OwnedInv /\ UniqueInv
  BY <1>6, <1>7 DEF OwnedInv, UniqueInv, AtMostOne, Collected
<1>9. LiveInv /\ RestInv /\ PhotoInv /\ MarkedInv
  BY <1>6, <1>7, CollectionAssumption DEF LiveInv, RestInv, PhotoInv, MarkedInv
<1>10. ShareInv
  BY <1>6, <1>7 DEF ShareInv, AtMostOne, Inserting
<1>11. OnceInv
  BY <1>6, <1>7, CollectionAssumption DEF OnceInv
<1> QED BY <1>2, <1>3, <1>4, <1>5, <1>8, <1>9, <1>10, <1>11 DEF IInv

\* Every step keeps the inductive invariant.
LEMMA NextIInv == IInv /\ [Next]_vars => IInv'
<1> SUFFICES ASSUME IInv, [Next]_vars PROVE IInv'
  OBVIOUS
<1>1. CASE UNCHANGED vars
  <2>1. RestInv' /\ \A d : Accounted(d) => Accounted(d)'
    BY <1>1, RecordsStay DEF vars, disk, memory, ghosts
  <2>2. MarkedInv'
    BY <1>1, <2>1 DEF IInv, MarkedInv, vars, disk, memory, ghosts
  <2>3. ShareInv' /\ OnceInv' /\ UniqueInv'
    BY <1>1 DEF IInv, ShareInv, OnceInv, UniqueInv, AtMostOne, Inserting, vars,
         disk, memory, ghosts
  <2>4. /\ TypeDisk' /\ TypeMemory' /\ TypeRec' /\ TypeGhosts'
        /\ OwnedInv' /\ LiveInv' /\ PhotoInv'
    BY <1>1 DEF IInv, TypeDisk, TypeMemory, TypeRec, TypeGhosts, OwnedInv,
         LiveInv, PhotoInv, Collected, Existing, vars, disk, memory, bounds,
         ghosts
  <2> QED BY <2>1, <2>2, <2>3, <2>4 DEF IInv
<1>2. ASSUME NEW c \in Collectors,
             \/ CreateCheck(c) \/ CreateInsert(c) \/ Toggle(c)
             \/ DeleteResources(c) \/ DeleteHistories(c) \/ DeleteRow(c) \/ RequestBreaks(c)
             \/ FetchHistory(c)
      PROVE  IInv'
  BY <1>2, KeepCreateCheck, KeepCreateInsert, KeepToggle, KeepDeleteResources,
       KeepDeleteHistories, KeepDeleteRow, KeepRequestBreaks, KeepFetchHistory
<1>3. ASSUME NEW m \in Messages,
             \/ Post(m) \/ ExtractSingle(m)
             \/ \E c \in Collectors : SaveRealtime(m, c)
             \/ \E d \in Drafts : DeleteResource(m, d)
      PROVE  IInv'
  BY <1>3, KeepPost, KeepExtractSingle, KeepSaveRealtime, KeepDeleteResource
<1>4. ASSUME NEW r \in Runs, NEW m \in Messages, Record(r, m)
      PROVE  IInv'
  BY <1>4, KeepCheck, KeepInsert, KeepEnqueue, KeepMark DEF Record
<1>5. CASE \/ WriteBatch \/ FetchBreaks
           \/ ExtractTick \/ ExtractResources \/ UpdateConfig
           \/ \E r \in Runs : HangUp(r)
           \/ Restart
  BY <1>5, KeepWriteBatch, KeepFetchBreaks, KeepExtractTick,
       KeepExtractResources, KeepUpdateConfig, KeepHangUp, KeepRestart
<1> QED BY <1>1, <1>2, <1>3, <1>4, <1>5 DEF Next

\* The inductive invariant holds in every reachable state of collecting and
\* extracting (message_handler.rs, collector.rs, resource.rs).
THEOREM CollectionInvariance == Spec => []IInv
<1> QED BY InitIInv, NextIInv, PTL DEF Spec

\* The tables and the records keep their types; every history has its
\* collector and every resource its history, though a collector is deleted in
\* three statements; and no url that is not empty has two resources.
THEOREM CollectionTypeCorrect == Spec => []TypeOK
<1>1. IInv => TypeOK
  BY DEF IInv, TypeDisk, TypeMemory, TypeRec, TypeGhosts, OwnedInv, UniqueInv,
       TypeOK
<1> QED BY <1>1, CollectionInvariance, PTL

\* A history is marked once each draft of one of its extractions has a resource,
\* its own or one with a share of it, or lost it; and once its photo is queued,
\* could not be, or is about to be (extract_resources in resource.rs).
THEOREM ExtractedHolds == Spec => []ExtractedAccounted
<1>1. IInv => ExtractedAccounted
  BY DEF IInv, MarkedInv, ExtractedAccounted, Accounted, Settled
<1> QED BY <1>1, CollectionInvariance, PTL

\* No two resources share a link but where the check of insert_resource was
\* raced or failed, and no post has a draft twice but where it was extracted
\* again, for any number of extractions' records interleaved.
THEOREM StoredHolds == Spec => []StoredOnce
<1>1. ASSUME IInv PROVE StoredOnce
  <2>1. ASSUME NEW m \in Messages \ repeated, NEW d \in Drafts
        PROVE  stored[m][d] <= 1
    <3>1. CASE d \in Linkless
      BY <1>1, <2>1, <3>1 DEF IInv, OnceInv
    <3>2. CASE d \notin Linkless
      BY <1>1, <2>1, <3>2 DEF IInv, UniqueInv, AtMostOne, TypeDisk
    <3> QED BY <3>1, <3>2
  <2>2. \A s \in Shares \ overlapped : AtMostOne({d \in Drafts : s \in SharesOf[d]})
    BY <1>1 DEF IInv, ShareInv
  <2> QED BY <2>1, <2>2 DEF StoredOnce
<1> QED BY <1>1, CollectionInvariance, PTL

-----------------------------------------------------------------------------
(***************************************************************************)
(* The fall-back of the extraction, for any extractions, texts and lists   *)
(* of endpoints.  The inductive invariant says that the tries of an        *)
(* extraction that no other took a turn from were the last turns           *)
(* (Consecutive), and so a tour of the enabled endpoints (EveryTurn).      *)
(***************************************************************************)

\* An extraction that has begun.
Extracting(step, how, text, rules, p, tried, crossed, answer, resources) ==
  [step |-> step, how |-> how, text |-> text, rules |-> rules, pool |-> p, tried |-> tried,
   crossed |-> crossed, answer |-> answer, resources |-> resources]
Shaped(x) ==
  x = Extracting(x.step, x.how, x.text, x.rules, x.pool, x.tried, x.crossed, x.answer, x.resources)

Listed(s) == \E S : s \in Seq(S)

\* The tries of an extraction that no other took a turn from were the last turns.
Consecutive(x, t) ==
  LET m == Len(x.tried)
  IN m <= t /\ \A k \in 1..m : x.tried[k] = AtTurn(x.pool, t - m + k - 1)

\* One that is done, with the rules' resources, has had the turns of all.
FellBack(x) ==
  (x.step = "done" /\ x.how = "fallback") =>
    \/ Cardinality(Enabled(x.pool)) > 3 \/ x.crossed
    \/ \A i \in Enabled(x.pool) : x.pool[i].id \in ToSet(x.tried)

\* What holds of every extraction at turn t.
Tried(x, t) ==
  x # NoTask =>
    /\ Shaped(x) /\ x.step \in {"choose", "call", "done"} /\ x.pool \in Pools /\ Listed(x.tried)
    /\ x.step \in {"choose", "call"} /\ ~x.crossed => Consecutive(x, t)
    /\ FellBack(x)

TriesInv == /\ turn \in Nat /\ pool \in Pools
            /\ task = [e \in Extractors |-> task[e]] /\ \A e \in Extractors : Tried(task[e], turn)

-----------------------------------------------------------------------------
(* The endpoints in turn *)

\* The enabled endpoints of a list are finitely many, no more than the list has.
LEMMA EnabledFact ==
  ASSUME NEW p \in Pools
  PROVE  /\ IsFiniteSet(Enabled(p)) /\ Cardinality(Enabled(p)) \in Nat
         /\ Enabled(p) \subseteq Nat /\ Len(p) \in Nat
         /\ Cardinality(Enabled(p)) <= Len(p)
<1>1. Len(p) \in Nat /\ DOMAIN p = 1..Len(p)
  BY ExtractionAssumption
<1>2. IsFiniteSet(1..Len(p)) /\ Cardinality(1..Len(p)) = Len(p)
  <2>1. 1 \in Int /\ Len(p) \in Int
    BY <1>1
  <2>2. IsFiniteSet(1..Len(p)) /\ Cardinality(1..Len(p)) = IF 1 > Len(p) THEN 0 ELSE Len(p) - 1 + 1
    BY <2>1, FS_Interval
  <2> QED
    BY <1>1, <2>2
<1>3. Enabled(p) \in SUBSET (1..Len(p))
  BY <1>1 DEF Enabled
<1> QED
  BY <1>1, <1>2, <1>3, FS_Subset, FS_CardinalityType

\* Each has its own number of endpoints ahead of it.
LEMMA AheadFact ==
  ASSUME NEW p \in Pools, NEW i \in Enabled(p)
  PROVE  /\ Ahead(p, i) \in 0..(Cardinality(Enabled(p)) - 1)
         /\ \A j \in Enabled(p) : Ahead(p, j) = Ahead(p, i) => j = i
<1> DEFINE E == Enabled(p)
           Of(j) == {k \in E : k < j}
<1>1. IsFiniteSet(E) /\ Cardinality(E) \in Nat /\ E \subseteq Nat
  BY EnabledFact
<1>2. ASSUME NEW j \in E
      PROVE  /\ Of(j) \in SUBSET E /\ IsFiniteSet(Of(j)) /\ Cardinality(Of(j)) \in Nat
             /\ Ahead(p, j) = Cardinality(Of(j)) /\ j \notin Of(j)
  BY <1>1, FS_Subset, FS_CardinalityType DEF Ahead
<1> HIDE DEF E
<1>3. i \in E
  BY DEF E
<1>4. Ahead(p, i) \in 0..(Cardinality(E) - 1)
  <2>1. Cardinality(Of(i)) <= Cardinality(E) /\ Cardinality(Of(i)) # Cardinality(E)
    BY <1>1, <1>2, <1>3, FS_Subset
  <2> QED
    BY <1>1, <1>2, <1>3, <2>1
<1>5. ASSUME NEW j \in E, NEW k \in E, j < k
      PROVE  Ahead(p, j) # Ahead(p, k)
  <2>1. \A l \in E : l < j => l < k
    BY <1>1, <1>5
  <2>2. Of(j) \in SUBSET Of(k)
    BY <2>1
  <2>3. j \in Of(k)
    BY <1>5
  <2>4. Cardinality(Of(j)) # Cardinality(Of(k))
    BY <1>2, <2>2, <2>3, FS_Subset
  <2> QED
    BY <1>2, <2>4
<1>6. \A j \in E : Ahead(p, j) = Ahead(p, i) => j = i
  <2> SUFFICES ASSUME NEW j \in E, j # i PROVE Ahead(p, j) # Ahead(p, i)
    OBVIOUS
  <2>1. j < i \/ i < j
    BY <1>1, <1>3
  <2> QED
    BY <1>3, <1>5, <2>1
<1> QED
  BY <1>4, <1>6 DEF E

\* Its turn is where the turn leaves that number.
LEMMA AtTurnFact ==
  ASSUME NEW p \in Pools, NEW i \in Enabled(p), NEW t \in Nat,
         t % Cardinality(Enabled(p)) = Ahead(p, i)
  PROVE  AtTurn(p, t) = p[i].id
<1>1. \A j \in Enabled(p) : Ahead(p, j) = Ahead(p, i) => j = i
  BY AheadFact
<1>2. (CHOOSE j \in Enabled(p) : Ahead(p, j) = t % Cardinality(Enabled(p))) = i
  BY <1>1
<1> QED
  BY <1>2 DEF AtTurn

\* There is one whose turn it is.
LEMMA TurnsFact ==
  ASSUME NEW t \in Nat, NEW n \in 1..3, NEW r \in 0..(n - 1)
  PROVE  \E k \in 1..n : (t + k - 1) % n = r
<1>1. CASE n = 1
  BY <1>1
<1>2. CASE n = 2
  <2>1. t % 2 \in {0, 1} /\ (t + 1) % 2 \in {0, 1} /\ (t + 1) % 2 # t % 2
    OBVIOUS
  <2> QED
    BY <1>2, <2>1
<1>3. CASE n = 3
  <2>1. /\ t % 3 \in {0, 1, 2} /\ (t + 1) % 3 \in {0, 1, 2} /\ (t + 2) % 3 \in {0, 1, 2}
        /\ (t + 1) % 3 # t % 3 /\ (t + 2) % 3 # t % 3 /\ (t + 2) % 3 # (t + 1) % 3
    OBVIOUS
  <2> QED
    BY <1>3, <2>1
<1> QED
  BY <1>1, <1>2, <1>3

\* As many turns in a row as there are enabled endpoints, up to three, are
\* everyone's turn.
LEMMA EveryTurn ==
  ASSUME NEW p \in Pools, NEW t \in Nat, NEW m \in Nat, NEW i \in Enabled(p),
         Cardinality(Enabled(p)) <= m, Cardinality(Enabled(p)) <= 3
  PROVE  \E k \in 1..m : AtTurn(p, t + k - 1) = p[i].id
<1> DEFINE n == Cardinality(Enabled(p))
<1>1. n \in Nat /\ Ahead(p, i) \in 0..(n - 1)
  BY EnabledFact, AheadFact
<1> HIDE DEF n
<1>2. n \in 1..3 /\ n <= m
  BY <1>1 DEF n
<1>3. PICK k \in 1..n : (t + k - 1) % n = Ahead(p, i)
  BY <1>1, <1>2, TurnsFact
<1>4. k \in 1..m /\ t + k - 1 \in Nat
  BY <1>2
<1>5. AtTurn(p, t + k - 1) = p[i].id
  BY <1>3, <1>4, AtTurnFact DEF n
<1> QED
  BY <1>4, <1>5

-----------------------------------------------------------------------------
(* The extractions *)

\* One more try.
LEMMA TriedFact ==
  ASSUME NEW s, Listed(s), NEW v
  PROVE  /\ Listed(Append(s, v)) /\ Len(s) \in Nat /\ Len(Append(s, v)) = Len(s) + 1
         /\ \A k \in 1..Len(s) : Append(s, v)[k] = s[k]
         /\ Append(s, v)[Len(s) + 1] = v
<1>1. PICK S : s \in Seq(S)
  BY DEF Listed
<1> DEFINE T == S \cup {v}
<1>2. s \in Seq(T) /\ v \in T
  BY <1>1
<1> HIDE DEF T
<1> QED
  BY <1>2 DEF Listed

\* What an extraction tried are its tries.
LEMMA TriedSet ==
  ASSUME NEW s, Listed(s), NEW k \in 1..Len(s)
  PROVE  s[k] \in ToSet(s)
<1>1. PICK S : s \in Seq(S)
  BY DEF Listed
<1> QED
  BY <1>1 DEF ToSet

\* An extraction comes to another step, ...
LEMMA StepFact ==
  ASSUME NEW x, Shaped(x), NEW s, NEW y, y = [x EXCEPT !.step = s]
  PROVE  /\ Shaped(y) /\ y.step = s /\ y.how = x.how /\ y.pool = x.pool /\ y.tried = x.tried
         /\ y.crossed = x.crossed
<1>1. y = Extracting(s, x.how, x.text, x.rules, x.pool, x.tried, x.crossed, x.answer, x.resources)
  BY DEF Extracting, Shaped
<1> QED
  BY <1>1 DEF Extracting, Shaped

\* ... has tried more, ...
LEMMA AskFact ==
  ASSUME NEW x, Shaped(x), NEW s, NEW y, y = [x EXCEPT !.tried = s]
  PROVE  /\ Shaped(y) /\ y.step = x.step /\ y.how = x.how /\ y.pool = x.pool /\ y.tried = s
         /\ y.crossed = x.crossed
<1>1. y = Extracting(x.step, x.how, x.text, x.rules, x.pool, s, x.crossed, x.answer, x.resources)
  BY DEF Extracting, Shaped
<1> QED
  BY <1>1 DEF Extracting, Shaped

\* ... or another one has taken a turn.
LEMMA CrossFact ==
  ASSUME NEW x, Shaped(x), NEW b, NEW y, y = [x EXCEPT !.crossed = b]
  PROVE  /\ Shaped(y) /\ y.step = x.step /\ y.how = x.how /\ y.pool = x.pool /\ y.tried = x.tried
         /\ y.crossed = b
<1>1. y = Extracting(x.step, x.how, x.text, x.rules, x.pool, x.tried, b, x.answer, x.resources)
  BY DEF Extracting, Shaped
<1> QED
  BY <1>1 DEF Extracting, Shaped

\* An extraction turns to x, and the others keep their tries and the turn.
LEMMA KeepTries ==
  ASSUME TriesInv, NEW e \in Extractors, NEW x, Tried(x, turn),
         task' = [task EXCEPT ![e] = x], UNCHANGED <<pool, turn>>
  PROVE  TriesInv'
<1>1. task' = [d \in Extractors |-> IF d = e THEN x ELSE task[d]]
  BY DEF TriesInv
<1> QED
  BY <1>1 DEF TriesInv

\* What an extraction at work is.
LEMMA AtWork ==
  ASSUME TriesInv, NEW e \in Extractors, task[e].step \in {"choose", "call"}
  PROVE  /\ Shaped(task[e]) /\ task[e].pool \in Pools /\ Listed(task[e].tried) /\ turn \in Nat
         /\ ~task[e].crossed => Consecutive(task[e], turn)
<1>1. task[e] # NoTask
  BY DEF NoTask
<1> QED
  BY <1>1 DEF TriesInv, Tried

\* An extraction is done.
LEMMA ResultFact ==
  ASSUME TriesInv, NEW e \in Extractors, task[e].step \in {"choose", "call"},
         NEW how, NEW answer, NEW resources, Result(e, how, answer, resources), UNCHANGED <<pool, turn>>,
         how = "fallback" => \/ Cardinality(Enabled(task[e].pool)) > 3 \/ task[e].crossed
                             \/ \A i \in Enabled(task[e].pool) :
                                  task[e].pool[i].id \in ToSet(task[e].tried)
  PROVE  TriesInv'
<1> DEFINE old == task[e]
           x == Extracting("done", how, old.text, old.rules, old.pool, old.tried, old.crossed, answer,
                           resources)
<1>1. task' = [task EXCEPT ![e] = x]
  BY DEF Result, Extracting
<1>2. /\ Shaped(x) /\ x.step = "done" /\ x.how = how /\ x.pool = old.pool /\ x.tried = old.tried
      /\ x.crossed = old.crossed
  BY DEF Extracting, Shaped
<1> HIDE DEF x
<1>3. Tried(x, turn)
  BY <1>2, AtWork DEF Tried, FellBack
<1> QED
  BY <1>1, <1>3, KeepTries

\* An extraction begins with no try.
LEMMA KeepBeginExtraction ==
  ASSUME TriesInv, NEW e \in Extractors, BeginExtraction(e)
  PROVE  TriesInv'
<1>1. PICK text \in Texts[e], mode \in {"rule", "ai"} :
        LET r    == RuleResources(text)
            asks == r # <<>> /\ mode = "ai" /\ pool # <<>>
        IN task' = [task EXCEPT ![e] =
             [step |-> IF asks THEN "choose" ELSE "done", how |-> "unasked", text |-> text,
              rules |-> r, pool |-> pool, tried |-> <<>>, crossed |-> FALSE, answer |-> <<>>,
              resources |-> r]]
  BY DEF BeginExtraction
<1> DEFINE rules == RuleResources(text)
           step  == IF rules # <<>> /\ mode = "ai" /\ pool # <<>> THEN "choose" ELSE "done"
           x == Extracting(step, "unasked", text, rules, pool, <<>>, FALSE, <<>>, rules)
<1>2. task' = [task EXCEPT ![e] = x]
  BY <1>1 DEF Extracting
<1>3. step \in {"choose", "done"}
  OBVIOUS
<1> HIDE DEF step, rules
<1>4. /\ Shaped(x) /\ x.step = step /\ x.how = "unasked" /\ x.pool = pool /\ x.tried = <<>>
  BY DEF Extracting, Shaped
<1> HIDE DEF x
<1>5. Listed(<<>>) /\ Len(<<>>) = 0
  BY DEF Listed
<1>6. Consecutive(x, turn)
  BY <1>4, <1>5 DEF Consecutive, TriesInv
<1>7. Tried(x, turn)
  BY <1>3, <1>4, <1>5, <1>6 DEF Tried, FellBack, TriesInv
<1> QED
  BY <1>2, <1>7, KeepTries DEF BeginExtraction

\* The turn goes on by one, for the extraction whose it is and past the others
\* that are between two tries.
LEMMA KeepChoose ==
  ASSUME TriesInv, NEW e \in Extractors, Choose(e)
  PROVE  TriesInv'
<1>1. task[e].step = "choose" /\ UNCHANGED pool
  BY DEF Choose
<1>2. CASE /\ Enabled(task[e].pool) = {}
           /\ Result(e, "fallback", <<>>, task[e].rules) /\ UNCHANGED turn
  BY <1>1, <1>2, ResultFact
<1>3. CASE /\ Enabled(task[e].pool) # {}
           /\ turn' = turn + 1
           /\ task' = [d \in Extractors |->
                CASE d = e -> Asking(e)
                  [] d # e /\ task[d].step \in {"choose", "call"} /\ task[d].tried # <<>>
                       -> [task[d] EXCEPT !.crossed = TRUE]
                  [] OTHER -> task[d]]
  <2>1. turn \in Nat /\ turn' \in Nat /\ pool' \in Pools
    BY <1>1, <1>3 DEF TriesInv
  <2>2. Tried(Asking(e), turn + 1)
    <3> DEFINE old == task[e]
               v == AtTurn(old.pool, turn)
               y == [old EXCEPT !.step = "call"]
               z == [y EXCEPT !.tried = Append(old.tried, v)]
    <3>1. Shaped(old) /\ old.pool \in Pools /\ Listed(old.tried)
          /\ (~old.crossed => Consecutive(old, turn))
      BY <1>1, AtWork
    <3> HIDE DEF old
    <3>2. /\ Shaped(y) /\ y.step = "call" /\ y.pool = old.pool /\ y.tried = old.tried
          /\ y.crossed = old.crossed
      BY <3>1, StepFact
    <3> HIDE DEF y, v
    <3>3. /\ Shaped(z) /\ z.step = "call" /\ z.pool = old.pool /\ z.tried = Append(old.tried, v)
          /\ z.crossed = old.crossed
      BY <3>2, AskFact
    <3>4. Asking(e) = z
      BY <3>2 DEF Asking, old, y, v, z
    <3> HIDE DEF z
    <3>5. /\ Listed(z.tried) /\ Len(old.tried) \in Nat /\ Len(z.tried) = Len(old.tried) + 1
          /\ \A k \in 1..Len(old.tried) : z.tried[k] = old.tried[k]
          /\ z.tried[Len(old.tried) + 1] = v
      BY <3>1, <3>3, TriedFact
    <3>6. ASSUME ~old.crossed PROVE Consecutive(z, turn + 1)
      <4>1. /\ Len(old.tried) <= turn
            /\ \A k \in 1..Len(old.tried) :
                 old.tried[k] = AtTurn(old.pool, turn - Len(old.tried) + k - 1)
        BY <3>1, <3>6 DEF Consecutive
      <4>2. Len(z.tried) <= turn + 1
        BY <2>1, <3>5, <4>1
      <4>3. SUFFICES ASSUME NEW k \in 1..Len(z.tried)
                     PROVE  z.tried[k] = AtTurn(z.pool, (turn + 1) - Len(z.tried) + k - 1)
        BY <4>2 DEF Consecutive
      <4>4. (turn + 1) - Len(z.tried) + k - 1 = turn - Len(old.tried) + k - 1
        BY <2>1, <3>5
      <4>5. CASE k \in 1..Len(old.tried)
        BY <3>3, <3>5, <4>1, <4>4, <4>5
      <4>6. CASE k = Len(old.tried) + 1
        <5>1. turn - Len(old.tried) + k - 1 = turn
          BY <2>1, <3>5, <4>6
        <5> QED
          BY <3>3, <3>5, <4>4, <4>6, <5>1 DEF v
      <4> QED
        BY <3>5, <4>5, <4>6
    <3> QED
      BY <3>1, <3>3, <3>4, <3>5, <3>6 DEF Tried, FellBack
  <2>3. ASSUME NEW d \in Extractors, d # e
        PROVE  Tried(task'[d], turn + 1)
    <3>1. CASE task[d].step \in {"choose", "call"} /\ task[d].tried # <<>>
      <4>1. task'[d] = [task[d] EXCEPT !.crossed = TRUE]
        BY <1>3, <2>3, <3>1
      <4>2. Shaped(task[d]) /\ task[d].pool \in Pools /\ Listed(task[d].tried)
        BY <3>1, AtWork
      <4> DEFINE x == task'[d]
      <4>3. /\ Shaped(x) /\ x.step = task[d].step /\ x.pool = task[d].pool
            /\ x.tried = task[d].tried /\ x.crossed = TRUE
        BY <4>1, <4>2, CrossFact
      <4> HIDE DEF x
      <4>4. Tried(x, turn + 1)
        BY <3>1, <4>2, <4>3 DEF Tried, FellBack
      <4> QED
        BY <4>4 DEF x
    <3>2. CASE ~(task[d].step \in {"choose", "call"} /\ task[d].tried # <<>>)
      <4>1. task'[d] = task[d] /\ Tried(task[d], turn)
        BY <1>3, <2>3, <3>2 DEF TriesInv
      <4>2. ASSUME task[d].step \in {"choose", "call"} PROVE Consecutive(task[d], turn + 1)
        <5>1. task[d].tried = <<>> /\ Len(<<>>) = 0
          BY <3>2, <4>2
        <5> QED
          BY <2>1, <5>1 DEF Consecutive
      <4> QED
        BY <4>1, <4>2 DEF Tried
    <3> QED
      BY <3>1, <3>2
  <2> QED
    BY <1>3, <2>1, <2>2, <2>3 DEF TriesInv
<1> QED
  BY <1>2, <1>3 DEF Choose

\* After the last try every enabled endpoint had its turn.
LEMMA KeepCallFails ==
  ASSUME TriesInv, NEW e \in Extractors, CallFails(e)
  PROVE  TriesInv'
<1> DEFINE old == task[e]
<1>1. old.step = "call" /\ UNCHANGED <<pool, turn>>
  BY DEF CallFails
<1>2. /\ Shaped(old) /\ old.pool \in Pools /\ Listed(old.tried) /\ turn \in Nat
      /\ ~old.crossed => Consecutive(old, turn)
  BY <1>1, AtWork
<1>3. CASE Len(old.tried) = Tries(old.pool) /\ Result(e, "fallback", <<>>, old.rules)
  <2>1. ASSUME ~old.crossed, Cardinality(Enabled(old.pool)) <= 3, NEW i \in Enabled(old.pool)
        PROVE  old.pool[i].id \in ToSet(old.tried)
    <3> DEFINE p == old.pool
               m == Len(old.tried)
    <3>1. /\ Cardinality(Enabled(p)) \in Nat /\ Len(p) \in Nat
          /\ Cardinality(Enabled(p)) <= Len(p)
      BY <1>2, EnabledFact
    <3>2. m \in Nat /\ Cardinality(Enabled(p)) <= m
      BY <1>3, <2>1, <3>1 DEF Tries
    <3>3. m <= turn /\ \A k \in 1..m : old.tried[k] = AtTurn(p, turn - m + k - 1)
      BY <1>2, <2>1 DEF Consecutive
    <3> HIDE DEF m
    <3>4. turn - m \in Nat
      BY <1>2, <3>2, <3>3
    <3>5. PICK k \in 1..m : AtTurn(p, turn - m + k - 1) = p[i].id
      BY <1>2, <2>1, <3>2, <3>4, EveryTurn
    <3> QED
      BY <1>2, <3>3, <3>5, TriedSet DEF m
  <2>2. Cardinality(Enabled(old.pool)) \in Nat
    BY <1>2, EnabledFact
  <2>3. \/ Cardinality(Enabled(old.pool)) > 3 \/ old.crossed
        \/ \A i \in Enabled(old.pool) : old.pool[i].id \in ToSet(old.tried)
    BY <2>1, <2>2
  <2> QED
    BY <1>1, <1>3, <2>3, ResultFact
<1>4. CASE task' = [task EXCEPT ![e].step = "choose"]
  <2> DEFINE x == [old EXCEPT !.step = "choose"]
  <2>1. task' = [task EXCEPT ![e] = x]
    BY <1>4
  <2> HIDE DEF old
  <2>2. /\ Shaped(x) /\ x.step = "choose" /\ x.pool = old.pool /\ x.tried = old.tried
        /\ x.crossed = old.crossed
    BY <1>2, StepFact
  <2> HIDE DEF x
  <2>3. ~old.crossed => Consecutive(x, turn)
    BY <1>2, <2>2 DEF Consecutive
  <2>4. Tried(x, turn)
    BY <1>2, <2>2, <2>3 DEF Tried, FellBack
  <2> QED
    BY <1>1, <2>1, <2>4, KeepTries
<1> QED
  BY <1>3, <1>4 DEF CallFails

\* A model's answer is no fallback.
LEMMA KeepCallAnswers ==
  ASSUME TriesInv, NEW e \in Extractors, CallAnswers(e)
  PROVE  TriesInv'
<1>1. task[e].step = "call" /\ UNCHANGED <<pool, turn>>
  BY DEF CallAnswers
<1>2. PICK answer, resources : Result(e, "answer", answer, resources)
  BY DEF CallAnswers
<1> QED
  BY <1>1, <1>2, ResultFact

\* At first nobody has tried anything.
LEMMA TriesInit == ExtractionInit => TriesInv
BY DEF ExtractionInit, TriesInv, Tried

\* Every step keeps the invariant.
LEMMA TriesStep ==
  ASSUME TriesInv, [ExtractionNext]_extractionVars
  PROVE  TriesInv'
<1>1. CASE SetEndpoints
  BY <1>1 DEF SetEndpoints, TriesInv
<1>2. ASSUME NEW e \in Extractors,
             BeginExtraction(e) \/ Choose(e) \/ CallFails(e) \/ CallAnswers(e)
      PROVE  TriesInv'
  BY <1>2, KeepBeginExtraction, KeepChoose, KeepCallFails, KeepCallAnswers
<1>3. CASE UNCHANGED extractionVars
  BY <1>3 DEF extractionVars, TriesInv
<1> QED
  BY <1>1, <1>2, <1>3 DEF ExtractionNext

\* Extractions choose endpoints by turns, and the tries of one that no other
\* took a turn from are consecutive ones (select_endpoint, ai_extractor.rs).
THEOREM TriesInvariance == ExtractionSpec => []TriesInv
<1>1. TriesInv /\ [ExtractionNext]_extractionVars => TriesInv'
  BY TriesStep
<1> QED
  BY <1>1, TriesInit, PTL DEF ExtractionSpec

\* Of three endpoints or less every one is tried before the rules' resources
\* stand in for a model's, unless another extraction took turns in between
\* (select_endpoint and ai_extract_batch, ai_extractor.rs).
THEOREM FallbackHolds == ExtractionSpec => []FallbackAccounted
<1>1. TriesInv => FallbackAccounted
  BY DEF TriesInv, Tried, FellBack, FallbackAccounted, Begun
<1> QED
  BY <1>1, TriesInvariance, PTL

=============================================================================

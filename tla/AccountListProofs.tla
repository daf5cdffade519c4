------------------------- MODULE AccountListProofs --------------------------
(***************************************************************************)
(* For any accounts and bounds: the types, RowsMatch and DefaultShown.     *)
(*                                                                         *)
(* Neither is inductive: what the UI will show is what the last snapshot   *)
(* on its way says, whatever was shown before.  As long as no other        *)
(* snapshot is to be taken (Coming), that last one, or else what is shown, *)
(* is the state of the core.                                               *)
(***************************************************************************)
EXTENDS AccountList, SequenceTheorems, TLAPS

Snapshots == [do : {"reset"}, rows : SUBSET Accounts, default : OrNone(Accounts), init : BOOLEAN]
Defaults == [do : {"default"}, account : OrNone(Accounts)]
Others == [do : {"initLists", "resetData", "notInitialized"}]
Closures == Snapshots \cup Defaults \cup Others
Orders == [do : {"update", "start"}]

Typed == /\ TypeOK
         /\ toUi \in Seq(Closures) /\ toSdk \in Seq(Orders)

\* Before the list is connected, it is about to be.
ListsToCome == ~connected => \E i \in DOMAIN toUi : toUi[i].do = "initLists"

\* A snapshot is to be taken: asked for, or by a closure that will ask for it.
Coming ==
  \/ toSdk # <<>>
  \/ \E i \in DOMAIN toUi : toUi[i].do \in {"initLists", "resetData"}

\* The last snapshot on its way, or what is shown, has the core's accounts.
LastOf(S, i) ==
  /\ i \in DOMAIN toUi /\ toUi[i].do \in S
  /\ \A j \in DOMAIN toUi : j > i => toUi[j].do \notin S
NoneOf(S) == \A i \in DOMAIN toUi : toUi[i].do \notin S

Rewrites == {"reset"}
RowsRight ==
  /\ \A i \in DOMAIN toUi : LastOf(Rewrites, i) => toUi[i].rows = accounts
  /\ NoneOf(Rewrites) => rows = accounts /\ have = (accounts # {})

\* The last closure that will set the default account, or the one shown.
Says == {"reset", "default"}
Right(a) == a = default \/ (missed /\ a = NoAccount)
Said(c) == IF c.do = "reset" THEN c.default ELSE c.account
DefaultRight ==
  /\ \A i \in DOMAIN toUi : LastOf(Says, i) => Right(Said(toUi[i]))
  /\ NoneOf(Says) => Right(shown)

IInv == Typed /\ ListsToCome /\ (~Coming => RowsRight /\ DefaultRight)

-----------------------------------------------------------------------------
(* What is posted follows what was there.                                  *)
LEMMA Posted ==
  ASSUME NEW posts \in Seq(Closures), toUi \in Seq(Closures), toUi' = toUi \o posts
  PROVE  /\ toUi' \in Seq(Closures)
         /\ DOMAIN toUi = 1 .. Len(toUi) /\ Len(toUi) \in Nat /\ Len(posts) \in Nat
         /\ DOMAIN toUi' = 1 .. Len(toUi) + Len(posts)
         /\ \A i \in DOMAIN toUi : i \in DOMAIN toUi' /\ toUi'[i] = toUi[i]
         /\ \A i \in 1 .. Len(posts) : toUi'[Len(toUi) + i] = posts[i]
<1>1. /\ toUi \o posts \in Seq(Closures)
      /\ Len(toUi \o posts) = Len(toUi) + Len(posts)
      /\ \A i \in 1 .. Len(toUi) + Len(posts) :
           (toUi \o posts)[i] = IF i <= Len(toUi) THEN toUi[i] ELSE posts[i - Len(toUi)]
  BY ConcatProperties
<1>2. /\ Len(toUi) \in Nat /\ DOMAIN toUi = 1 .. Len(toUi)
      /\ Len(posts) \in Nat
      /\ DOMAIN (toUi \o posts) = 1 .. Len(toUi) + Len(posts)
  BY <1>1, LenProperties
<1>3. \A i \in 1 .. Len(posts) : /\ Len(toUi) + i \in 1 .. Len(toUi) + Len(posts)
                                 /\ ~(Len(toUi) + i <= Len(toUi))
                                 /\ (Len(toUi) + i) - Len(toUi) = i
  BY <1>2
<1> QED
  BY <1>1, <1>2, <1>3

(* One closure posted.                                                     *)
LEMMA Appended ==
  ASSUME NEW c \in Closures, toUi \in Seq(Closures), toUi' = Append(toUi, c)
  PROVE  <<c>> \in Seq(Closures) /\ toUi' = toUi \o <<c>> /\ Len(<<c>>) = 1 /\ <<c>>[1] = c
<1>1. <<c>> \in Seq(Closures)
  OBVIOUS
<1>2. toUi' = toUi \o <<c>>
  BY <1>1, AppendIsConcat
<1> QED
  BY <1>1, <1>2

(* The UI thread takes the first closure.                                  *)
LEMMA Popped ==
  ASSUME NEW what, toUi \in Seq(Closures), UiRuns(what)
  PROVE  /\ toUi' \in Seq(Closures)
         /\ Head(toUi) = toUi[1] /\ toUi[1] \in Closures /\ toUi[1].do = what
         /\ 1 \in DOMAIN toUi /\ Len(toUi) \in Nat \ {0}
         /\ DOMAIN toUi = 1 .. Len(toUi) /\ DOMAIN toUi' = 1 .. Len(toUi) - 1
         /\ \A i \in DOMAIN toUi' : i + 1 \in DOMAIN toUi /\ toUi'[i] = toUi[i + 1]
         /\ \A i \in DOMAIN toUi : i # 1 => i - 1 \in DOMAIN toUi' /\ toUi'[i - 1] = toUi[i]
<1>1. toUi # <<>> /\ toUi' = Tail(toUi) /\ Head(toUi).do = what
  BY DEF UiRuns
<1>2. /\ Head(toUi) \in Closures /\ Tail(toUi) \in Seq(Closures)
      /\ Len(Tail(toUi)) = Len(toUi) - 1
      /\ \A i \in 1 .. Len(Tail(toUi)) : Tail(toUi)[i] = toUi[i + 1]
  BY <1>1, HeadTailProperties
<1>3. Len(toUi) \in Nat \ {0} /\ Head(toUi) = toUi[1] /\ DOMAIN toUi = 1 .. Len(toUi)
  BY <1>1, EmptySeq, LenProperties
<1>4. DOMAIN toUi' = 1 .. Len(toUi) - 1
  BY <1>1, <1>2, LenProperties
<1>5. \A i \in DOMAIN toUi' : i + 1 \in DOMAIN toUi /\ toUi'[i] = toUi[i + 1]
  BY <1>1, <1>2, <1>3, <1>4
<1>6. \A i \in DOMAIN toUi : i # 1 => i - 1 \in DOMAIN toUi' /\ (i - 1) + 1 = i
  BY <1>3, <1>4
<1> QED
  BY <1>1, <1>2, <1>3, <1>4, <1>5, <1>6

-----------------------------------------------------------------------------
(* The last closure of a kind: after a post of that kind ...               *)
LEMMA PostIsLast ==
  ASSUME NEW S, NEW posts \in Seq(Closures), toUi \in Seq(Closures),
         toUi' = toUi \o posts, posts # <<>>, posts[Len(posts)].do \in S
  PROVE  /\ ~NoneOf(S)'
         /\ \A i \in DOMAIN toUi' : LastOf(S, i)' => toUi'[i] = posts[Len(posts)]
<1> DEFINE n == Len(toUi) + Len(posts)
<1>1. Len(posts) \in Nat \ {0}
  BY EmptySeq, LenProperties
<1>2. n \in DOMAIN toUi' /\ toUi'[n] = posts[Len(posts)] /\ DOMAIN toUi' = 1 .. n /\ n \in Nat
  BY <1>1, Posted
<1>3. ~NoneOf(S)'
  BY <1>2 DEF NoneOf
<1>4. ASSUME NEW i \in DOMAIN toUi', LastOf(S, i)' PROVE i = n
  <2>1. \A j \in DOMAIN toUi' : j > i => toUi'[j].do \notin S
    BY <1>4 DEF LastOf
  <2>2. ~(n > i) /\ i \in 1 .. n /\ n \in Nat
    BY <1>2, <2>1
  <2> HIDE DEF n
  <2> QED
    BY <2>2
<1> QED
  BY <1>2, <1>3, <1>4

(* ... after posts of other kinds ...                                      *)
LEMMA PostKeepsLast ==
  ASSUME NEW S, NEW posts \in Seq(Closures), toUi \in Seq(Closures),
         toUi' = toUi \o posts, \A i \in 1 .. Len(posts) : posts[i].do \notin S
  PROVE  /\ NoneOf(S)' => NoneOf(S)
         /\ \A i \in DOMAIN toUi' : LastOf(S, i)' => LastOf(S, i) /\ toUi'[i] = toUi[i]
<1>1. NoneOf(S)' => NoneOf(S)
  <2>1. \A i \in DOMAIN toUi : i \in DOMAIN toUi' /\ toUi'[i] = toUi[i]
    BY Posted
  <2> QED
    BY <2>1 DEF NoneOf
<1>2. ASSUME NEW i \in DOMAIN toUi', LastOf(S, i)' PROVE LastOf(S, i) /\ toUi'[i] = toUi[i]
  <2>1. toUi'[i].do \in S /\ \A j \in DOMAIN toUi' : j > i => toUi'[j].do \notin S
    BY <1>2 DEF LastOf
  <2>2. i \in DOMAIN toUi
    <3>1. SUFFICES ASSUME i \notin DOMAIN toUi PROVE FALSE
      OBVIOUS
    <3>2. i - Len(toUi) \in 1 .. Len(posts) /\ Len(toUi) + (i - Len(toUi)) = i
      BY <3>1, Posted
    <3> QED
      BY <2>1, <3>2, Posted
  <2> QED
    BY <2>1, <2>2, Posted DEF LastOf
<1> QED
  BY <1>1, <1>2

(* ... and when the first one is taken.                                    *)
LEMMA PopKeepsLast ==
  ASSUME NEW S, NEW what, toUi \in Seq(Closures), UiRuns(what)
  PROVE  /\ \A i \in DOMAIN toUi' : LastOf(S, i)' => LastOf(S, i + 1) /\ toUi'[i] = toUi[i + 1]
         /\ NoneOf(S)' => IF what \in S THEN LastOf(S, 1) ELSE NoneOf(S)
<1>1. ASSUME NEW i \in DOMAIN toUi', LastOf(S, i)'
      PROVE  LastOf(S, i + 1) /\ toUi'[i] = toUi[i + 1]
  <2>1. toUi'[i].do \in S /\ \A j \in DOMAIN toUi' : j > i => toUi'[j].do \notin S
    BY <1>1 DEF LastOf
  <2>2. i + 1 \in DOMAIN toUi /\ toUi'[i] = toUi[i + 1] /\ i \in Nat \ {0}
    BY Popped
  <2>3. ASSUME NEW j \in DOMAIN toUi, j > i + 1 PROVE toUi[j].do \notin S
    <3>1. j # 1 /\ j - 1 > i
      BY <2>2, <2>3, Popped
    <3> QED
      BY <2>1, <3>1, Popped
  <2> QED
    BY <2>1, <2>2, <2>3 DEF LastOf
<1>2. ASSUME NoneOf(S)' PROVE \A j \in DOMAIN toUi : j # 1 => toUi[j].do \notin S
  BY <1>2, Popped DEF NoneOf
<1>3. 1 \in DOMAIN toUi /\ toUi[1].do = what /\ \A j \in DOMAIN toUi : j > 1 => j # 1
  BY Popped
<1> QED
  BY <1>1, <1>2, <1>3 DEF LastOf, NoneOf

-----------------------------------------------------------------------------
(* A snapshot posted last makes both right.                                *)
LEMMA SnapshotLast ==
  ASSUME NEW posts \in Seq(Closures), toUi \in Seq(Closures), toUi' = toUi \o posts,
         posts # <<>>, NEW init, posts[Len(posts)] = Snapshot(init)
  PROVE  RowsRight' /\ DefaultRight'
<1>1. /\ Snapshot(init).do = "reset" /\ Snapshot(init).rows = accounts'
      /\ Snapshot(init).default = default'
  BY DEF Snapshot
<1>2. RowsRight'
  <2>1. Snapshot(init).do \in Rewrites
    BY <1>1 DEF Rewrites
  <2>2. /\ ~NoneOf(Rewrites)'
        /\ \A i \in DOMAIN toUi' : LastOf(Rewrites, i)' => toUi'[i] = Snapshot(init)
    BY <2>1, PostIsLast
  <2> QED
    BY <1>1, <2>2 DEF RowsRight, Rewrites
<1>3. DefaultRight'
  <2>1. Snapshot(init).do \in Says
    BY <1>1 DEF Says
  <2>2. /\ ~NoneOf(Says)'
        /\ \A i \in DOMAIN toUi' : LastOf(Says, i)' => toUi'[i] = Snapshot(init)
    BY <2>1, PostIsLast
  <2> QED
    BY <1>1, <2>2 DEF DefaultRight, Says, Said, Right
<1> QED
  BY <1>2, <1>3

(* What a handler posts: typed, and no snapshot is to come that was not.   *)
LEMMA HandledStep ==
  ASSUME Typed, ListsToCome, NEW posts \in Seq(Closures), Handled(posts),
         toSdk' = toSdk, connected' = connected
  PROVE  /\ toUi' \in Seq(Closures) /\ toSdk' \in Seq(Orders) /\ ListsToCome'
         /\ ~Coming' => ~Coming /\ toUi' = toUi \o posts
<1>1. CASE connected
  <2>1. toUi' = toUi \o posts
    BY <1>1 DEF Handled
  <2> QED
    BY <1>1, <2>1, Posted DEF Typed, ListsToCome, Coming
<1>2. CASE ~connected
  <2>1. toUi' = toUi
    BY <1>2 DEF Handled
  <2> QED
    BY <1>2, <2>1 DEF Typed, ListsToCome, Coming
<1> QED
  BY <1>1, <1>2 DEF Typed, TypeOK

(* A closure of the UI thread that asks for no snapshot.                   *)
LEMMA UiStep ==
  ASSUME Typed, ListsToCome, NEW what \in {"reset", "default", "notInitialized"}, UiRuns(what),
         toSdk' = toSdk, connected' = connected
  PROVE  /\ toUi' \in Seq(Closures) /\ toSdk' \in Seq(Orders) /\ ListsToCome'
         /\ ~Coming' => ~Coming
<1>1. toUi \in Seq(Closures) /\ toSdk \in Seq(Orders)
  BY DEF Typed
<1>2. ASSUME NEW i \in DOMAIN toUi, toUi[i].do \in {"initLists", "resetData"}
      PROVE  i - 1 \in DOMAIN toUi' /\ toUi'[i - 1].do = toUi[i].do
  BY <1>1, <1>2, Popped
<1>3. ListsToCome'
  BY <1>2 DEF ListsToCome
<1>4. ~Coming' => ~Coming
  BY <1>2 DEF Coming
<1> QED
  BY <1>1, <1>3, <1>4, Popped

-----------------------------------------------------------------------------
\* A snapshot is typed, and its default account is one of its rows.
Fits(c) == c.do = "reset" => c.rows \subseteq Accounts /\ c.default \in OrNone(c.rows)
AllFit == \A i \in DOMAIN toUi : Fits(toUi[i])

LEMMA SnapshotFits ==
  ASSUME NEW init \in BOOLEAN, accounts' \subseteq Accounts, default' \in OrNone(accounts')
  PROVE  Snapshot(init) \in Closures /\ Fits(Snapshot(init))
<1>1. Snapshot(init) \in Snapshots
  BY DEF Snapshot, Snapshots, OrNone
<1>2. Fits(Snapshot(init))
  BY DEF Snapshot, Fits
<1> QED
  BY <1>1, <1>2 DEF Closures

LEMMA OthersFit ==
  ASSUME NEW c \in Defaults \cup Others
  PROVE  c \in Closures /\ Fits(c) /\ c.do # "reset"
BY DEF Defaults, Others, Closures, Fits

LEMMA FoundFits ==
  ASSUME NEW a \in OrNone(Accounts)
  PROVE  Found(a) \in Defaults
BY DEF Found, Defaults, OrNone

LEMMA DoFits ==
  ASSUME NEW what \in {"initLists", "resetData", "notInitialized"}
  PROVE  Do(what) \in Others /\ Do(what).do = what
BY DEF Do, Others

LEMMA PostsFit ==
  ASSUME AllFit, toUi \in Seq(Closures), NEW posts \in Seq(Closures),
         \A i \in 1 .. Len(posts) : Fits(posts[i]),
         toUi' = toUi \o posts \/ toUi' = toUi
  PROVE  AllFit'
<1>1. CASE toUi' = toUi
  BY <1>1 DEF AllFit, Fits, OrNone
<1>2. CASE toUi' = toUi \o posts
  <2>1. ASSUME NEW i \in DOMAIN toUi' PROVE Fits(toUi'[i])
    <3>1. CASE i \in DOMAIN toUi
      BY <1>2, <3>1, Posted DEF AllFit
    <3>2. CASE i \notin DOMAIN toUi
      <4>1. i - Len(toUi) \in 1 .. Len(posts) /\ Len(toUi) + (i - Len(toUi)) = i
        BY <1>2, <3>2, Posted
      <4>2. toUi'[Len(toUi) + (i - Len(toUi))] = posts[i - Len(toUi)]
        BY <1>2, <4>1, Posted
      <4> QED
        BY <4>1, <4>2
    <3> QED
      BY <3>1, <3>2
  <2>2. (\A i \in DOMAIN toUi' : Fits(toUi'[i])) <=> AllFit'
    BY DEF AllFit, Fits, OrNone
  <2> QED
    BY <2>1, <2>2
<1> QED
  BY <1>1, <1>2

LEMMA PostFits ==
  ASSUME TypeOK, toUi \in Seq(Closures), NEW c \in Closures, Fits(c),
         toUi' = toUi \o <<c>> \/ toUi' = toUi
  PROVE  AllFit'
<1>1. AllFit
  BY DEF TypeOK, AllFit, Fits
<1>2. <<c>> \in Seq(Closures) /\ Len(<<c>>) = 1 /\ <<c>>[1] = c
  OBVIOUS
<1>3. \A i \in 1 .. Len(<<c>>) : Fits(<<c>>[i])
  BY <1>2
<1> QED
  BY <1>1, <1>2, <1>3, PostsFit

LEMMA PopFits ==
  ASSUME NEW what, AllFit, toUi \in Seq(Closures), UiRuns(what)
  PROVE  AllFit'
<1>1. \A i \in DOMAIN toUi' : i + 1 \in DOMAIN toUi /\ toUi'[i] = toUi[i + 1]
  BY Popped
<1> QED
  BY <1>1 DEF AllFit, Fits, OrNone

LEMMA TypesFit ==
  ASSUME TypeOK PROVE AllFit
BY DEF TypeOK, AllFit, Fits

(* Something else, then a snapshot.                                        *)
LEMMA ThenSnapshot ==
  ASSUME NEW before \in Seq(Defaults \cup Others), NEW c \in Closures, Fits(c)
  PROVE  /\ before \o <<c>> \in Seq(Closures) /\ before \o <<c>> # <<>>
         /\ (before \o <<c>>)[Len(before \o <<c>>)] = c
         /\ \A i \in 1 .. Len(before \o <<c>>) : Fits((before \o <<c>>)[i])
<1>1. before \in Seq(Closures)
  <2>1. Defaults \cup Others \subseteq Closures
    BY DEF Closures
  <2> QED
    BY <2>1
<1>2. <<c>> \in Seq(Closures) /\ Len(<<c>>) = 1 /\ <<c>>[1] = c
  OBVIOUS
<1>3. /\ before \o <<c>> \in Seq(Closures)
      /\ Len(before \o <<c>>) = Len(before) + 1
      /\ \A i \in 1 .. Len(before) + 1 :
           (before \o <<c>>)[i] = IF i <= Len(before) THEN before[i] ELSE <<c>>[i - Len(before)]
  BY <1>1, <1>2, ConcatProperties
<1>4. Len(before) \in Nat /\ \A i \in 1 .. Len(before) : before[i] \in Defaults \cup Others
  BY LenProperties
<1>5. (before \o <<c>>)[Len(before) + 1] = c
  <2>1. /\ Len(before) + 1 \in 1 .. Len(before) + 1 /\ ~(Len(before) + 1 <= Len(before))
        /\ (Len(before) + 1) - Len(before) = 1
    BY <1>4
  <2> QED
    BY <1>2, <1>3, <2>1
<1>6. ASSUME NEW i \in 1 .. Len(before) + 1 PROVE Fits((before \o <<c>>)[i])
  <2>1. CASE i <= Len(before)
    BY <1>3, <1>4, <2>1, OthersFit
  <2>2. CASE ~(i <= Len(before))
    <3>1. i = Len(before) + 1
      BY <1>4, <2>2
    <3> QED
      BY <1>5, <3>1
  <2> QED
    BY <2>1, <2>2
<1>7. before \o <<c>> # <<>>
  BY <1>3, <1>4, EmptySeq
<1> QED
  BY <1>3, <1>5, <1>6, <1>7

-----------------------------------------------------------------------------
LEMMA InitInv == Init => IInv
<1> SUFFICES ASSUME Init PROVE IInv
  OBVIOUS
<1>1. Do("initLists") \in Others /\ Do("initLists").do = "initLists"
  BY DoFits
<1>2. /\ <<Do("initLists")>> \in Seq(Closures) /\ Len(<<Do("initLists")>>) = 1
      /\ <<Do("initLists")>>[1] = Do("initLists")
      /\ DOMAIN <<Do("initLists")>> = 1 .. 1
  BY <1>1 DEF Closures
<1>3. toUi = <<Do("initLists")>> /\ toSdk = <<>>
  BY DEF Init
<1>4. \A i \in DOMAIN toUi : toUi[i].do = "initLists"
  BY <1>1, <1>2, <1>3
<1>5. Typed
  <2>1. \A i \in DOMAIN toUi : toUi[i].do # "reset"
    BY <1>4
  <2>2. restarts \in 0 .. MaxRestarts
    BY AccountListAssumption DEF Init
  <2>3. TypeOK
    BY <2>1, <2>2 DEF Init, TypeOK, OrNone
  <2> QED
    BY <1>2, <1>3, <2>3, EmptySeq DEF Typed
<1>6. 1 \in DOMAIN toUi
  BY <1>2, <1>3
<1> QED
  BY <1>4, <1>5, <1>6 DEF IInv, ListsToCome, Coming

(* A handler that ends with a snapshot.                                    *)
LEMMA HandledSnapshot ==
  ASSUME IInv, NEW before \in Seq(Defaults \cup Others), NEW init \in BOOLEAN,
         accounts' \subseteq Accounts, default' \in OrNone(accounts'),
         Handled(before \o <<Snapshot(init)>>),
         on' = on, restarts' = restarts, toSdk' = toSdk, ui' = ui,
         initialized' \in BOOLEAN, missed' \in BOOLEAN, raced' \in BOOLEAN
  PROVE  IInv'
<1> DEFINE posts == before \o <<Snapshot(init)>>
<1>1. Snapshot(init) \in Closures /\ Fits(Snapshot(init))
  BY SnapshotFits
<1>2. /\ posts \in Seq(Closures) /\ posts # <<>> /\ posts[Len(posts)] = Snapshot(init)
      /\ \A i \in 1 .. Len(posts) : Fits(posts[i])
  BY <1>1, ThenSnapshot
<1> HIDE DEF posts
<1>3. /\ connected' = connected /\ rows' = rows /\ have' = have /\ shown' = shown
      /\ proxy' = proxy
  BY DEF ui
<1>4. /\ toUi' \in Seq(Closures) /\ toSdk' \in Seq(Orders) /\ ListsToCome'
      /\ ~Coming' => ~Coming /\ toUi' = toUi \o posts
  BY <1>2, <1>3, HandledStep DEF IInv, posts
<1>5. AllFit'
  <2>1. toUi' = toUi \o posts \/ toUi' = toUi
    BY DEF Handled, posts
  <2> QED
    BY <1>2, <2>1, PostsFit, TypesFit DEF IInv, Typed
<1>6. TypeOK'
  BY <1>3, <1>5 DEF IInv, Typed, TypeOK, AllFit, Fits, OrNone
<1>7. ~Coming' => RowsRight' /\ DefaultRight'
  <2>1. toUi \in Seq(Closures)
    BY DEF IInv, Typed
  <2> QED
    BY <1>2, <1>4, <2>1, SnapshotLast
<1> QED
  BY <1>4, <1>6, <1>7 DEF IInv, Typed

LEMMA NothingBefore ==
  ASSUME NEW c \in Closures
  PROVE  <<>> \in Seq(Defaults \cup Others) /\ <<>> \o <<c>> = <<c>>
<1>1. <<c>> \in Seq(Closures)
  OBVIOUS
<1> QED
  BY <1>1, EmptySeq, ConcatEmptySeq

LEMMA OneBefore ==
  ASSUME NEW c \in Defaults \cup Others
  PROVE  <<c>> \in Seq(Defaults \cup Others)
OBVIOUS

LEMMA AddStep ==
  ASSUME IInv, NEW a \in Accounts, Add(a) PROVE IInv'
<1>1. accounts' \subseteq Accounts /\ default' \in OrNone(accounts')
  BY DEF IInv, Typed, TypeOK, Add, OrNone
<1>2. Snapshot(TRUE) \in Closures
  BY <1>1, SnapshotFits
<1>3. <<>> \in Seq(Defaults \cup Others) /\ <<>> \o <<Snapshot(TRUE)>> = <<Snapshot(TRUE)>>
  BY <1>2, NothingBefore
<1>4. /\ Handled(<<>> \o <<Snapshot(TRUE)>>)
      /\ on' = on /\ restarts' = restarts /\ toSdk' = toSdk /\ ui' = ui
      /\ initialized' \in BOOLEAN /\ missed' \in BOOLEAN /\ raced' \in BOOLEAN
  BY <1>3 DEF Add, IInv, Typed, TypeOK, ui
<1> QED
  BY <1>1, <1>3, <1>4, HandledSnapshot

LEMMA BearerStep ==
  ASSUME IInv, BearerAccountAdded PROVE IInv'
<1> DEFINE before == IF initialized THEN <<Do("notInitialized")>> ELSE <<>>
<1>1. accounts' \subseteq Accounts /\ default' \in OrNone(accounts')
  BY DEF IInv, Typed, TypeOK, BearerAccountAdded, OrNone
<1>2. before \in Seq(Defaults \cup Others)
  <2>1. <<Do("notInitialized")>> \in Seq(Defaults \cup Others)
    BY DoFits, OneBefore
  <2> QED
    BY <2>1, EmptySeq
<1>3. Handled(before \o <<Snapshot(TRUE)>>)
  BY DEF BearerAccountAdded
<1>4. /\ on' = on /\ restarts' = restarts /\ toSdk' = toSdk /\ ui' = ui
      /\ initialized' \in BOOLEAN /\ missed' \in BOOLEAN /\ raced' \in BOOLEAN
  BY DEF BearerAccountAdded, InitOnItsWay, IInv, Typed, TypeOK, ui
<1> QED
  BY <1>1, <1>2, <1>3, <1>4, HandledSnapshot

LEMMA RemoveStep ==
  ASSUME IInv, NEW a \in Accounts, Remove(a) PROVE IInv'
<1> DEFINE gone == IF default = a THEN NoAccount ELSE default
           lost == IF gone # default THEN <<Found(gone)>> ELSE <<>>
           next == IF default' # gone THEN <<Found(default')>> ELSE <<>>
<1>1. accounts \subseteq Accounts /\ default \in OrNone(accounts) /\ accounts' = accounts \ {a}
  BY DEF IInv, Typed, TypeOK, Remove
<1>2. default' \in IF gone = NoAccount /\ accounts' # {} THEN accounts' ELSE {gone}
  BY DEF Remove
<1>3. default' \in OrNone(accounts') /\ gone \in OrNone(Accounts) /\ default' \in OrNone(Accounts)
  BY <1>1, <1>2 DEF OrNone
<1>4. lost \o next \in Seq(Defaults \cup Others)
  <2>1. Found(gone) \in Defaults /\ Found(default') \in Defaults
    BY <1>3, FoundFits
  <2>2. /\ <<Found(gone)>> \in Seq(Defaults \cup Others)
        /\ <<Found(default')>> \in Seq(Defaults \cup Others)
        /\ <<>> \in Seq(Defaults \cup Others)
    BY <2>1, OneBefore, EmptySeq
  <2>3. lost \in Seq(Defaults \cup Others) /\ next \in Seq(Defaults \cup Others)
    BY <2>2
  <2> HIDE DEF lost, next
  <2> QED
    BY <2>3, ConcatProperties
<1>5. Handled(lost \o next \o <<Snapshot(FALSE)>>)
  BY DEF Remove
<1>6. /\ on' = on /\ restarts' = restarts /\ toSdk' = toSdk /\ ui' = ui
      /\ initialized' \in BOOLEAN /\ missed' \in BOOLEAN /\ raced' \in BOOLEAN
  BY DEF Remove, IInv, Typed, TypeOK, ui
<1>7. accounts' \subseteq Accounts
  BY <1>1
<1> HIDE DEF gone, lost, next
<1> QED
  BY <1>3, <1>4, <1>5, <1>6, <1>7, HandledSnapshot

LEMMA MakeDefaultStep ==
  ASSUME IInv, NEW a \in Accounts, MakeDefault(a) PROVE IInv'
<1> DEFINE c == Found(a)
<1>1. c \in Defaults /\ c \in Closures /\ Fits(c) /\ c.do = "default"
  <2>1. a \in OrNone(Accounts)
    BY DEF OrNone
  <2>2. c \in Defaults
    BY <2>1, FoundFits
  <2> QED
    BY <2>2, OthersFit DEF Defaults
<1>2. Said(c) = IF a \in rows THEN a ELSE NoAccount
  BY DEF Found, Said
<1> HIDE DEF c
<1>3. <<c>> \in Seq(Closures) /\ <<c>> # <<>> /\ Len(<<c>>) = 1 /\ <<c>>[1] = c
  BY <1>1
<1>4. /\ Handled(<<c>>) /\ toSdk' = toSdk /\ default' = a /\ missed' = (a \notin rows)
      /\ UNCHANGED <<on, accounts, restarts, connected, rows, have, shown, proxy, initialized, raced>>
  BY DEF MakeDefault, ui, c
<1>5. /\ toUi' \in Seq(Closures) /\ toSdk' \in Seq(Orders) /\ ListsToCome'
      /\ ~Coming' => ~Coming /\ toUi' = toUi \o <<c>>
  BY <1>3, <1>4, HandledStep DEF IInv
<1>6. AllFit'
  <2>1. toUi' = toUi \o <<c>> \/ toUi' = toUi
    BY <1>4 DEF Handled
  <2> QED
    BY <1>1, <2>1, PostFits DEF IInv, Typed
<1>7. TypeOK'
  BY <1>4, <1>6 DEF MakeDefault, IInv, Typed, TypeOK, AllFit, Fits, OrNone
<1>8. ASSUME ~Coming' PROVE RowsRight' /\ DefaultRight'
  <2>1. RowsRight /\ toUi' = toUi \o <<c>> /\ toUi \in Seq(Closures)
    BY <1>5, <1>8 DEF IInv, Typed
  <2>2. RowsRight'
    <3>1. \A i \in 1 .. Len(<<c>>) : <<c>>[i].do \notin Rewrites
      BY <1>1, <1>3 DEF Rewrites
    <3>2. /\ NoneOf(Rewrites)' => NoneOf(Rewrites)
          /\ \A i \in DOMAIN toUi' :
               LastOf(Rewrites, i)' => LastOf(Rewrites, i) /\ toUi'[i] = toUi[i]
      BY <1>3, <2>1, <3>1, PostKeepsLast
    <3>3. \A i : LastOf(Rewrites, i) => i \in DOMAIN toUi
      BY DEF LastOf
    <3> QED
      BY <1>4, <2>1, <3>2, <3>3 DEF RowsRight, Rewrites
  <2>3. DefaultRight'
    <3>1. <<c>>[Len(<<c>>)] = c /\ c.do \in Says
      BY <1>1, <1>3 DEF Says
    <3>2. /\ ~NoneOf(Says)'
          /\ \A i \in DOMAIN toUi' : LastOf(Says, i)' => toUi'[i] = c
      BY <1>3, <2>1, <3>1, PostIsLast
    <3>3. Said(c) = default' \/ (missed' /\ Said(c) = NoAccount)
      BY <1>2, <1>4
    <3> QED
      BY <3>2, <3>3 DEF DefaultRight, Says, Said, Right
  <2> QED
    BY <2>2, <2>3
<1> QED
  BY <1>5, <1>7, <1>8 DEF IInv, Typed

LEMMA StopStep ==
  ASSUME IInv, StopCore PROVE IInv'
<1>1. Do("resetData") \in Closures /\ Fits(Do("resetData")) /\ Do("resetData").do = "resetData"
  BY DoFits, OthersFit
<1>2. toUi' = Append(toUi, Do("resetData")) /\ toUi \in Seq(Closures)
  BY DEF StopCore, IInv, Typed
<1>3. /\ <<Do("resetData")>> \in Seq(Closures) /\ toUi' = toUi \o <<Do("resetData")>>
      /\ Len(<<Do("resetData")>>) = 1 /\ <<Do("resetData")>>[1] = Do("resetData")
  BY <1>1, <1>2, Appended
<1>4. Len(toUi) + 1 \in DOMAIN toUi' /\ toUi'[Len(toUi) + 1] = Do("resetData")
  BY <1>2, <1>3, Posted
<1>5. Coming'
  BY <1>1, <1>4 DEF Coming
<1>6. AllFit'
  BY <1>1, <1>2, <1>3, PostFits DEF IInv, Typed
<1>7. TypeOK'
  <2>1. restarts' \in 0 .. MaxRestarts
    BY AccountListAssumption DEF StopCore, IInv, Typed, TypeOK
  <2> QED
    BY <1>6, <2>1 DEF StopCore, ui, history, IInv, Typed, TypeOK, AllFit, Fits, OrNone
<1>8. toUi' \in Seq(Closures) /\ toSdk' \in Seq(Orders) /\ connected'
  BY <1>2, <1>3, Posted DEF StopCore, ui, IInv, Typed
<1> QED
  BY <1>5, <1>7, <1>8 DEF IInv, Typed, ListsToCome

(* The SDK thread takes the first of its closures.                         *)
LEMMA OrderTaken ==
  ASSUME NEW what, toSdk \in Seq(Orders), SdkRuns(what) PROVE toSdk' \in Seq(Orders)
<1>1. toSdk # <<>> /\ toSdk' = Tail(toSdk)
  BY DEF SdkRuns
<1> QED
  BY <1>1, HeadTailProperties

LEMMA StartStep ==
  ASSUME IInv, StartCore PROVE IInv'
<1> DEFINE s == Snapshot(FALSE)
           d == Do("initLists")
<1>1. accounts' \subseteq Accounts /\ default' \in OrNone(accounts')
  BY DEF StartCore, OrNone
<1>2. s \in Closures /\ Fits(s)
  BY <1>1, SnapshotFits
<1>3. d \in Closures /\ Fits(d) /\ d.do = "initLists"
  BY DoFits, OthersFit
<1>4. PICK posts \in {<<s, d>>, <<d, s>>} : toUi' = toUi \o posts
  BY DEF StartCore
<1>5. toUi \in Seq(Closures) /\ toSdk \in Seq(Orders)
  BY DEF IInv, Typed
<1> HIDE DEF s, d
<1>6. /\ posts \in Seq(Closures) /\ Len(posts) = 2
      /\ \E k \in 1 .. 2 : posts[k] = d
      /\ \A k \in 1 .. 2 : Fits(posts[k])
  <2>1. CASE posts = <<s, d>>
    BY <1>2, <1>3, <2>1
  <2>2. CASE posts = <<d, s>>
    BY <1>2, <1>3, <2>2
  <2> QED
    BY <1>4, <2>1, <2>2
<1>7. toUi' \in Seq(Closures) /\ Coming' /\ ListsToCome'
  <2>1. PICK k \in 1 .. 2 : posts[k] = d
    BY <1>6
  <2>2. /\ Len(toUi) + k \in DOMAIN toUi' /\ toUi'[Len(toUi) + k] = d
        /\ toUi' \in Seq(Closures)
    <3>1. /\ toUi' \in Seq(Closures) /\ Len(toUi) \in Nat
          /\ DOMAIN toUi' = 1 .. Len(toUi) + Len(posts)
          /\ \A i \in 1 .. Len(posts) : toUi'[Len(toUi) + i] = posts[i]
      BY <1>4, <1>5, <1>6, Posted
    <3> QED
      BY <1>6, <2>1, <3>1
  <2> QED
    BY <1>3, <2>2 DEF Coming, ListsToCome
<1>8. AllFit'
  BY <1>4, <1>5, <1>6, PostsFit, TypesFit DEF IInv, Typed
<1>9. TypeOK'
  BY <1>1, <1>8 DEF StartCore, ui, IInv, Typed, TypeOK, AllFit, Fits, OrNone
<1>10. toSdk' \in Seq(Orders)
  BY <1>5, OrderTaken DEF StartCore
<1> QED
  BY <1>7, <1>9, <1>10 DEF IInv, Typed

LEMMA RunUpdateStep ==
  ASSUME IInv, RunUpdate PROVE IInv'
<1> DEFINE s == Snapshot(TRUE)
<1>1. accounts' \subseteq Accounts /\ default' \in OrNone(accounts')
  BY DEF RunUpdate, IInv, Typed, TypeOK, OrNone
<1>2. s \in Closures /\ Fits(s)
  BY <1>1, SnapshotFits
<1>3. toUi' = Append(toUi, s) /\ toUi \in Seq(Closures) /\ toSdk \in Seq(Orders)
  BY DEF RunUpdate, IInv, Typed
<1> HIDE DEF s
<1>4. <<s>> \in Seq(Closures) /\ toUi' = toUi \o <<s>> /\ Len(<<s>>) = 1 /\ <<s>>[1] = s
  BY <1>2, <1>3, Appended
<1>5. AllFit'
  BY <1>2, <1>3, <1>4, PostFits DEF IInv, Typed
<1>6. TypeOK'
  BY <1>1, <1>5 DEF RunUpdate, ui, IInv, Typed, TypeOK, AllFit, Fits, OrNone
<1>7. RowsRight' /\ DefaultRight'
  <2>1. <<s>> # <<>> /\ <<s>>[Len(<<s>>)] = Snapshot(TRUE)
    BY <1>4 DEF s
  <2> QED
    BY <1>3, <1>4, <2>1, SnapshotLast
<1>8. ListsToCome'
  BY <1>3, <1>4, Posted DEF RunUpdate, ui, IInv, ListsToCome
<1>9. toUi' \in Seq(Closures) /\ toSdk' \in Seq(Orders)
  BY <1>3, <1>4, Posted, OrderTaken DEF RunUpdate
<1> QED
  BY <1>6, <1>7, <1>8, <1>9 DEF IInv, Typed

LEMMA InitListsStep ==
  ASSUME IInv, InitLists PROVE IInv'
<1>1. UiRuns("initLists") /\ toSdk' = Append(toSdk, Do("update")) /\ connected'
  BY DEF InitLists
<1>2. toUi' \in Seq(Closures) /\ AllFit'
  BY <1>1, Popped, PopFits, TypesFit DEF IInv, Typed
<1>3. Do("update") \in Orders /\ toSdk \in Seq(Orders)
  BY DEF Do, Orders, IInv, Typed
<1>4. toSdk' \in Seq(Orders) /\ toSdk' # <<>>
  BY <1>1, <1>3, AppendProperties
<1>5. TypeOK'
  BY <1>2 DEF InitLists, sdk, IInv, Typed, TypeOK, AllFit, Fits, OrNone
<1> QED
  BY <1>1, <1>2, <1>4, <1>5 DEF IInv, Typed, ListsToCome, Coming

LEMMA ResetDataStep ==
  ASSUME IInv, ResetData PROVE IInv'
<1>1. UiRuns("resetData") /\ toSdk' = Append(toSdk, Do("start")) /\ connected' = connected
  BY DEF ResetData
<1>2. /\ toUi' \in Seq(Closures) /\ AllFit'
      /\ toUi[1].do = "resetData"
      /\ \A i \in DOMAIN toUi : i # 1 => i - 1 \in DOMAIN toUi' /\ toUi'[i - 1] = toUi[i]
  BY <1>1, Popped, PopFits, TypesFit DEF IInv, Typed
<1>3. Do("start") \in Orders /\ toSdk \in Seq(Orders)
  BY DEF Do, Orders, IInv, Typed
<1>4. toSdk' \in Seq(Orders) /\ toSdk' # <<>>
  BY <1>1, <1>3, AppendProperties
<1>5. TypeOK'
  BY <1>2 DEF ResetData, sdk, history, IInv, Typed, TypeOK, AllFit, Fits, OrNone
<1>6. ListsToCome'
  BY <1>1, <1>2 DEF IInv, ListsToCome
<1> QED
  BY <1>2, <1>4, <1>5, <1>6 DEF IInv, Typed, Coming

LEMMA ResetStep ==
  ASSUME IInv, Reset PROVE IInv'
<1>1. /\ UiRuns("reset") /\ toSdk' = toSdk /\ connected' = connected
      /\ toUi \in Seq(Closures)
      /\ UNCHANGED <<on, accounts, default, restarts, missed, raced>>
  BY DEF Reset, sdk, history, IInv, Typed
<1>2. /\ toUi' \in Seq(Closures) /\ AllFit' /\ 1 \in DOMAIN toUi
      /\ Head(toUi) = toUi[1] /\ toUi[1] \in Closures /\ toUi[1].do = "reset"
  BY <1>1, Popped, PopFits, TypesFit DEF IInv, Typed
<1>3. /\ rows' = toUi[1].rows /\ have' = (toUi[1].rows # {}) /\ shown' = toUi[1].default
      /\ Fits(toUi[1])
  BY <1>2, TypesFit DEF Reset, IInv, Typed, AllFit
<1>4. initialized' \in BOOLEAN /\ proxy' \in BOOLEAN
  <2>1. CASE Head(toUi).init
    BY <2>1 DEF Reset, SetInitialized, IInv, Typed, TypeOK
  <2>2. CASE ~Head(toUi).init
    BY <2>2 DEF Reset, IInv, Typed, TypeOK
  <2> QED
    BY <2>1, <2>2
<1>5. TypeOK'
  <2>1. rows' \subseteq Accounts /\ shown' \in OrNone(Accounts) /\ have' \in BOOLEAN
    BY <1>2, <1>3 DEF Fits, OrNone
  <2> QED
    BY <1>1, <1>2, <1>4, <2>1 DEF IInv, Typed, TypeOK, AllFit, Fits, OrNone
<1>6. toSdk' \in Seq(Orders) /\ ListsToCome' /\ (~Coming' => ~Coming)
  BY <1>1, UiStep DEF IInv
<1>7. ASSUME ~Coming' PROVE RowsRight' /\ DefaultRight'
  <2>1. RowsRight /\ DefaultRight
    BY <1>6, <1>7 DEF IInv
  <2>2. RowsRight'
    <3>1. /\ \A i \in DOMAIN toUi' : LastOf(Rewrites, i)'
               => LastOf(Rewrites, i + 1) /\ toUi'[i] = toUi[i + 1]
          /\ NoneOf(Rewrites)' => LastOf(Rewrites, 1)
      BY <1>1, PopKeepsLast DEF Rewrites
    <3>2. \A i : LastOf(Rewrites, i) => i \in DOMAIN toUi
      BY DEF LastOf
    <3> QED
      BY <1>1, <1>3, <2>1, <3>1, <3>2 DEF RowsRight, Rewrites
  <2>3. DefaultRight'
    <3>1. /\ \A i \in DOMAIN toUi' : LastOf(Says, i)'
               => LastOf(Says, i + 1) /\ toUi'[i] = toUi[i + 1]
          /\ NoneOf(Says)' => LastOf(Says, 1)
      BY <1>1, PopKeepsLast DEF Says
    <3>2. \A i : LastOf(Says, i) => i \in DOMAIN toUi
      BY DEF LastOf
    <3>3. Said(toUi[1]) = shown'
      BY <1>2, <1>3 DEF Said
    <3> QED
      BY <1>1, <2>1, <3>1, <3>2, <3>3 DEF DefaultRight, Says, Said, Right
  <2> QED
    BY <2>2, <2>3
<1> QED
  BY <1>2, <1>5, <1>6, <1>7 DEF IInv, Typed

LEMMA SetDefaultStep ==
  ASSUME IInv, SetDefaultAccount PROVE IInv'
<1>1. /\ UiRuns("default") /\ toSdk' = toSdk /\ connected' = connected
      /\ toUi \in Seq(Closures)
      /\ UNCHANGED <<on, accounts, default, restarts, rows, have, initialized, proxy, missed, raced>>
  BY DEF SetDefaultAccount, sdk, history, IInv, Typed
<1>2. /\ toUi' \in Seq(Closures) /\ AllFit'
      /\ Head(toUi) = toUi[1] /\ toUi[1] \in Closures /\ toUi[1].do = "default"
  BY <1>1, Popped, PopFits, TypesFit DEF IInv, Typed
<1>3. shown' = toUi[1].account
  BY <1>2 DEF SetDefaultAccount
<1>4. TypeOK'
  <2>1. toUi[1] \in Defaults
    BY <1>2 DEF Closures, Snapshots, Others
  <2>2. shown' \in OrNone(Accounts)
    BY <1>3, <2>1 DEF Defaults
  <2> QED
    BY <1>1, <1>2, <2>2 DEF IInv, Typed, TypeOK, AllFit, Fits, OrNone
<1>5. toSdk' \in Seq(Orders) /\ ListsToCome' /\ (~Coming' => ~Coming)
  BY <1>1, UiStep DEF IInv
<1>6. ASSUME ~Coming' PROVE RowsRight' /\ DefaultRight'
  <2>1. RowsRight /\ DefaultRight
    BY <1>5, <1>6 DEF IInv
  <2>2. RowsRight'
    <3>1. /\ \A i \in DOMAIN toUi' : LastOf(Rewrites, i)'
               => LastOf(Rewrites, i + 1) /\ toUi'[i] = toUi[i + 1]
          /\ NoneOf(Rewrites)' => NoneOf(Rewrites)
      BY <1>1, PopKeepsLast DEF Rewrites
    <3>2. \A i : LastOf(Rewrites, i) => i \in DOMAIN toUi
      BY DEF LastOf
    <3> QED
      BY <1>1, <2>1, <3>1, <3>2 DEF RowsRight, Rewrites
  <2>3. DefaultRight'
    <3>1. /\ \A i \in DOMAIN toUi' : LastOf(Says, i)'
               => LastOf(Says, i + 1) /\ toUi'[i] = toUi[i + 1]
          /\ NoneOf(Says)' => LastOf(Says, 1)
      BY <1>1, PopKeepsLast DEF Says
    <3>2. \A i : LastOf(Says, i) => i \in DOMAIN toUi
      BY DEF LastOf
    <3>3. Said(toUi[1]) = shown'
      BY <1>2, <1>3 DEF Said
    <3> QED
      BY <1>1, <2>1, <3>1, <3>2, <3>3 DEF DefaultRight, Says, Said, Right
  <2> QED
    BY <2>2, <2>3
<1> QED
  BY <1>2, <1>4, <1>5, <1>6 DEF IInv, Typed

LEMMA NotInitializedStep ==
  ASSUME IInv, NotInitialized PROVE IInv'
<1>1. /\ UiRuns("notInitialized") /\ toSdk' = toSdk /\ connected' = connected
      /\ toUi \in Seq(Closures) /\ proxy' = FALSE
      /\ UNCHANGED <<on, accounts, default, restarts, rows, have, shown, initialized, missed, raced>>
  BY DEF NotInitialized, sdk, history, IInv, Typed
<1>2. toUi' \in Seq(Closures) /\ AllFit'
  BY <1>1, Popped, PopFits, TypesFit DEF IInv, Typed
<1>3. TypeOK'
  BY <1>1, <1>2 DEF IInv, Typed, TypeOK, AllFit, Fits, OrNone
<1>4. toSdk' \in Seq(Orders) /\ ListsToCome' /\ (~Coming' => ~Coming)
  BY <1>1, UiStep DEF IInv
<1>5. ASSUME ~Coming' PROVE RowsRight' /\ DefaultRight'
  <2>1. RowsRight /\ DefaultRight
    BY <1>4, <1>5 DEF IInv
  <2>2. ASSUME NEW S \in {Rewrites, Says}
        PROVE  /\ \A i \in DOMAIN toUi' : LastOf(S, i)'
                    => /\ LastOf(S, i + 1) /\ toUi'[i] = toUi[i + 1]
                       /\ i + 1 \in DOMAIN toUi
               /\ NoneOf(S)' => NoneOf(S)
    <3>1. "notInitialized" \notin S
      BY DEF Rewrites, Says
    <3>2. /\ \A i \in DOMAIN toUi' : LastOf(S, i)' => LastOf(S, i + 1) /\ toUi'[i] = toUi[i + 1]
          /\ NoneOf(S)' => NoneOf(S)
      BY <1>1, <3>1, PopKeepsLast
    <3> QED
      BY <3>2 DEF LastOf
  <2>3. RowsRight'
    BY <1>1, <2>1, <2>2 DEF RowsRight, Rewrites
  <2>4. DefaultRight'
    BY <1>1, <2>1, <2>2 DEF DefaultRight, Says, Said, Right
  <2> QED
    BY <2>3, <2>4
<1> QED
  BY <1>2, <1>3, <1>4, <1>5 DEF IInv, Typed

LEMMA StutterStep ==
  ASSUME IInv, UNCHANGED vars PROVE IInv'
<1>1. /\ UNCHANGED <<on, accounts, default, restarts, toSdk, connected, rows, have, shown, proxy>>
      /\ UNCHANGED <<initialized, toUi, missed, raced>>
  BY DEF vars, sdk, ui, history
<1>2. Typed'
  BY <1>1 DEF IInv, Typed, TypeOK
<1>3. ListsToCome' /\ (Coming' <=> Coming)
  BY <1>1 DEF IInv, ListsToCome, Coming
<1>4. (RowsRight => RowsRight') /\ (DefaultRight => DefaultRight')
  BY <1>1 DEF RowsRight, DefaultRight, LastOf, NoneOf, Right, Said
<1> QED
  BY <1>2, <1>3, <1>4 DEF IInv

LEMMA NextInv == IInv /\ [Next]_vars => IInv'
<1> SUFFICES ASSUME IInv, [Next]_vars PROVE IInv'
  OBVIOUS
<1>1. CASE SdkThread
  BY <1>1, StartStep, RunUpdateStep DEF SdkThread
<1>2. CASE UiThread
  BY <1>2, InitListsStep, ResetDataStep, ResetStep, SetDefaultStep, NotInitializedStep
     DEF UiThread
<1>3. CASE BearerAccountAdded
  BY <1>3, BearerStep
<1>4. CASE StopCore
  BY <1>4, StopStep
<1>5. ASSUME NEW a \in Accounts, Add(a) \/ MakeDefault(a) \/ Remove(a) PROVE IInv'
  BY <1>5, AddStep, MakeDefaultStep, RemoveStep
<1>6. CASE UNCHANGED vars
  BY <1>6, StutterStep
<1> QED
  BY <1>1, <1>2, <1>3, <1>4, <1>5, <1>6 DEF Next

-----------------------------------------------------------------------------
(* The inductive invariant: what comes last is the core's state, unless    *)
(* another snapshot is to be taken.                                        *)
THEOREM Invariance == Spec => []IInv
<1>1. Init => IInv
  BY InitInv
<1>2. IInv /\ [Next]_vars => IInv'
  BY NextInv
<1> QED
  BY <1>1, <1>2, PTL DEF Spec

(* Every variable keeps its type, and a snapshot's default account is one  *)
(* of its rows (lUpdate, AccountList.cpp:52-84).                           *)
THEOREM TypeCorrect == Spec => []TypeOK
<1>1. IInv => TypeOK
  BY DEF IInv, Typed
<1> QED
  BY <1>1, Invariance, PTL

\* Settled, no closure is there to be the last one.
LEMMA SettledIsQuiet ==
  ASSUME Settled, IInv
  PROVE  ~Coming /\ RowsRight /\ DefaultRight /\ \A S : NoneOf(S)
<1>1. toSdk = <<>> /\ toUi = <<>>
  BY DEF Settled
<1>2. DOMAIN toUi = {}
  BY <1>1
<1>3. ~Coming
  BY <1>1, <1>2 DEF Coming
<1> QED
  BY <1>2, <1>3 DEF IInv, NoneOf

(* When nothing is on its way the rows QML shows are the core's accounts   *)
(* (the answer to lUpdate, AccountList.cpp:70-81, against the handlers     *)
(* that post it).                                                          *)
THEOREM RowsAreTheAccounts == Spec => []RowsMatch
<1>1. IInv => RowsMatch
  BY SettledIsQuiet DEF RowsMatch, RowsRight
<1> QED
  BY <1>1, Invariance, PTL

(* And the default account it shows is the core's, but for a change made   *)
(* before its row was there (setDefaultAccount, AccountList.cpp:86-95).    *)
THEOREM DefaultIsShown == Spec => []DefaultShown
<1>1. IInv => DefaultShown
  BY SettledIsQuiet DEF DefaultShown, DefaultRight, Right
<1> QED
  BY <1>1, Invariance, PTL
=============================================================================

-------------------------- MODULE ParseCache_proofs --------------------------
(***************************************************************************)
(* The parse cache never hands out the parse of another text, for every    *)
(* number of processes of each kind, contents and writes of the file.      *)
(***************************************************************************)
EXTENDS ParseCache, TLAPS

\* A process is of one kind, and 0 stands for a missing file.
KindsApart == /\ Batches \cap Bases = {} /\ Batches \cap Scans = {} /\ Bases \cap Scans = {}
              /\ Contents \subseteq Nat \ {0}

-----------------------------------------------------------------------------
(* The shape of a run                                                      *)

Places == {"look", "open", "sidecar", "confirm", "rehash", "rehashed", "stat", "read", "parse", "store",
           "write", "write errors", "indexed", "done"}
Texts == Contents \cup {0}
Prints == [key : Keys \cup {NoKey}, text : Texts]
Firsts == [tree : Texts, errs : Texts, print : Prints]
Run == [at : Places, pass : {"index", "judge"}, key : Keys \cup {NoKey}, byText : BOOLEAN, text : Texts,
        tree : Texts, errs : Texts, first : Firsts, hash : Texts, judged : BOOLEAN]

\* What an entry of that name should hold, by what the file has held, and the names that
\* stand for a text the file has had.
Held(h, k) == IF k \in StampKeys THEN h[k[2]] ELSE k[2]
Known(h, k) == k = NoKey \/ (k \in StampKeys /\ Held(h, k) \in Contents)
Current(r, now) == r.key # NoKey /\ r.key = now

\* What a fingerprint says of the parse it was taken with.
PrintTrue(h, parse) ==
    /\ Known(h, parse.print.key)
    /\ parse.print.key # NoKey => parse.tree = Held(h, parse.print.key) /\ parse.errs = parse.tree
    /\ parse.print.key = NoKey /\ parse.print.text # 0 => parse.tree = parse.print.text /\ parse.errs = parse.tree

\* What a run knows, by where it is: a tree that was found under a name is what the name
\* stands for; a text that was read is what the stamp stands for if the file still has the
\* stamp, and a batch run has made sure of that before it keeps the stamp.
Found(h, r) == r.key # NoKey /\ ~r.byText /\ r.tree = Held(h, r.key)
Parsed(r) == /\ r.text \in Contents /\ r.tree = r.text /\ r.errs = r.text /\ r.hash = r.text
             /\ r.byText => r.key = NoKey

Knows(p, r, h, now) ==
    /\ r.at = "look" => ~r.byText
    /\ r.at \in {"open", "sidecar", "parse"} => (r.byText <=> r.key = NoKey) /\ (r.byText => r.text \in Contents)
    /\ r.at = "sidecar" => r.tree = Held(h, Name(r))
    /\ r.at \in {"confirm", "rehash", "rehashed"} => Found(h, r) /\ (p \notin Bases => r.errs = r.tree)
    /\ r.at = "rehashed" /\ Current(r, now) => r.text = Held(h, r.key)
    /\ r.at = "parse" => r.text \in Contents /\ (Current(r, now) => r.text = Held(h, r.key))
    /\ r.at \in {"store", "write", "write errors"} => Parsed(r)
    /\ r.at = "store" /\ r.key # NoKey /\ (p \notin Scans \/ Current(r, now)) => r.text = Held(h, r.key)
    /\ r.at \in {"write", "write errors"} /\ r.key # NoKey => r.text = Held(h, r.key)

\* What it keeps of the passes that are over.
Remembers(p, r, h) ==
    /\ p \in Batches /\ (r.pass = "judge" \/ r.at = "indexed") => PrintTrue(h, r.first)
    /\ p \in Scans => r.pass = "index" /\ (r.at = "indexed" => r.hash \in {0, r.first.tree})
    /\ r.judged => /\ r.at = "done"
                   /\ p \in Batches => r.first.print = NoPrint \/ (r.tree = r.first.tree /\ r.errs = r.tree)

Fits(p, r, h, now) == Known(h, r.key) /\ Knows(p, r, h, now) /\ Remembers(p, r, h)

\* What the file holds is what its stamp stands for.
SourceOK ==
    /\ source \in [content : Texts, stamp : Stamps \cup {0}]
    /\ history \in [Stamps -> Texts]
    /\ source.stamp = 0 => source.content = 0
    /\ source.stamp # 0 => source.content \in Contents /\ history[source.stamp] = source.content

EntriesOK == /\ ast \in [Keys -> Texts] /\ errors \in [Keys -> Texts]
             /\ \A k \in Keys : ast[k] \in {0, Held(history, k)} /\ errors[k] \in {0, Held(history, k)}

CacheInv == /\ SourceOK /\ EntriesOK
            /\ process \in [Processes -> Run]
            /\ \A p \in Processes : Fits(p, process[p], history, SourceCacheKey)

-----------------------------------------------------------------------------
(* Names                                                                   *)

LEMMA Names ==
    ASSUME KindsApart, SourceOK
    PROVE  /\ NoKey \notin Keys /\ 0 \notin Contents /\ 0 \notin Stamps
           /\ \A c \in Contents : ByText(c) \in Keys /\ ByText(c) \notin StampKeys /\ Held(history, ByText(c)) = c
           /\ \A k \in StampKeys : k \in Keys /\ k # NoKey
           /\ SourceCacheKey \in Keys \cup {NoKey} /\ Known(history, SourceCacheKey)
           /\ SourceCacheKey # NoKey => source.content = Held(history, SourceCacheKey) /\ source.content \in Contents
<1>1. NoKey \notin Keys /\ 0 \notin Contents /\ 0 \notin Stamps
  BY DEF KindsApart, NoKey, Keys, StampKeys, ByStamp, ByText, Stamps
<1>2. \A c \in Contents : ByText(c) \in Keys /\ ByText(c) \notin StampKeys /\ Held(history, ByText(c)) = c
  BY DEF Keys, StampKeys, ByStamp, ByText, Held
<1>3. \A k \in StampKeys : k \in Keys /\ k # NoKey
  BY <1>1 DEF Keys
<1>4. source.stamp # 0 => /\ SourceCacheKey = ByStamp(source.stamp) /\ SourceCacheKey \in StampKeys
                          /\ Held(history, SourceCacheKey) = history[source.stamp]
  BY DEF SourceCacheKey, StampKeys, ByStamp, Held, SourceOK
<1>5. source.stamp = 0 => SourceCacheKey = NoKey
  BY DEF SourceCacheKey
<1> QED
  BY <1>1, <1>2, <1>3, <1>4, <1>5 DEF Known, SourceOK

\* A step of a run leaves the others what they know.
LEMMA RunStep ==
    ASSUME CacheInv, NEW p \in Processes, NEW r \in Run, process' = [process EXCEPT ![p] = r],
           UNCHANGED <<source, history>>, EntriesOK', Fits(p, r, history, SourceCacheKey)
    PROVE  CacheInv'
<1>1. process' \in [Processes -> Run] /\ process'[p] = r /\ \A q \in Processes \ {p} : process'[q] = process[q]
  BY DEF CacheInv
<1>2. SourceOK' /\ SourceCacheKey' = SourceCacheKey /\ history' = history
  BY DEF CacheInv, SourceOK, SourceCacheKey
<1>3. \A q \in Processes : Fits(q, process'[q], history, SourceCacheKey)
  BY <1>1 DEF CacheInv
<1>4. (\A q \in Processes : Fits(q, process[q], history, SourceCacheKey))'
  BY <1>2, <1>3
<1> QED
  BY <1>1, <1>2, <1>4 DEF CacheInv

-----------------------------------------------------------------------------
(* Where a run goes                                                        *)

AlikeButAt(n, r) ==
    /\ n.pass = r.pass /\ n.key = r.key /\ n.byText = r.byText /\ n.text = r.text /\ n.tree = r.tree
    /\ n.errs = r.errs /\ n.first = r.first /\ n.hash = r.hash /\ n.judged = r.judged

LEMMA RunFields ==
    ASSUME NEW r \in Run
    PROVE  /\ r.at \in Places /\ r.pass \in {"index", "judge"} /\ r.key \in Keys \cup {NoKey} /\ r.byText \in BOOLEAN
           /\ r.text \in Texts /\ r.tree \in Texts /\ r.errs \in Texts /\ r.first \in Firsts /\ r.hash \in Texts
           /\ r.judged \in BOOLEAN
BY DEF Run

\* It is enough that what it takes along fits the place it goes to.
LEMMA GoesStep ==
    ASSUME CacheInv, NEW p \in Processes, NEW r \in Run, NEW at \in Places, Goes(p, at, r),
           UNCHANGED <<source, history>>, EntriesOK',
           \A n \in Run : n.at = at /\ AlikeButAt(n, r) => Fits(p, n, history, SourceCacheKey)
    PROVE  CacheInv'
<1> DEFINE n == [r EXCEPT !.at = at]
<1>1. n \in Run /\ n.at = at
  BY DEF Run
<1>2. AlikeButAt(n, r)
  BY DEF Run, AlikeButAt
<1>3. process' = [process EXCEPT ![p] = n]
  BY DEF Goes
<1>4. Fits(p, n, history, SourceCacheKey)
  BY <1>1, <1>2
<1> HIDE DEF n
<1> QED
  BY <1>1, <1>3, <1>4, RunStep

\* A parse comes with a true fingerprint, and the hash of a scan is the parse's.
LEMMA ObtainedStep ==
    ASSUME CacheInv, NEW p \in Processes, NEW r \in Run, NEW print \in Prints, Obtained(p, r, print),
           UNCHANGED <<source, history>>, EntriesOK', Known(history, r.key), ~r.judged,
           p \in Batches => PrintTrue(history, [tree |-> r.tree, errs |-> r.errs, print |-> print]),
           p \in Batches /\ r.pass = "judge" => PrintTrue(history, r.first),
           p \in Scans => r.pass = "index" /\ r.hash \in {0, r.tree}
    PROVE  CacheInv'
<1> DEFINE now == [tree |-> r.tree, errs |-> r.errs, print |-> print]
           noted == [r EXCEPT !.first = now]
           judged == [r EXCEPT !.judged = print = r.first.print]
<1>1. CASE r.pass = "index"
  <2>1. now \in Firsts /\ now.tree = r.tree /\ now.errs = r.errs /\ now.print = print
    BY RunFields DEF Firsts
  <2> HIDE DEF now
  <2>2. noted \in Run /\ noted.first = now
    BY <2>1 DEF Run
  <2>3. noted.pass = r.pass /\ noted.key = r.key /\ noted.tree = r.tree
    BY DEF Run
  <2>4. noted.hash = r.hash /\ noted.judged = r.judged
    BY DEF Run
  <2>5. Goes(p, "indexed", noted)
    BY <1>1 DEF Obtained, now
  <2> HIDE DEF noted
  <2>6. ASSUME NEW n \in Run, n.at = "indexed", AlikeButAt(n, noted) PROVE Fits(p, n, history, SourceCacheKey)
    <3>1. n.key = r.key /\ n.first = now /\ n.hash = r.hash /\ ~n.judged /\ n.pass = "index"
      BY <1>1, <2>2, <2>3, <2>4, <2>6 DEF AlikeButAt
    <3>2. Knows(p, n, history, SourceCacheKey)
      BY <2>6 DEF Knows
    <3>3. p \in Batches => PrintTrue(history, now)
      BY DEF now
    <3>4. Remembers(p, n, history)
      BY <2>1, <3>1, <3>3 DEF Remembers
    <3> QED
      BY <3>1, <3>2, <3>4 DEF Fits
  <2> QED
    BY <2>2, <2>5, <2>6, GoesStep DEF Places
<1>2. CASE r.pass # "index"
  <2>1. r.pass = "judge" /\ p \notin Scans
    BY <1>2, RunFields
  <2>2. judged \in Run /\ (judged.judged <=> print = r.first.print)
    BY DEF Run
  <2>3. judged.pass = r.pass /\ judged.key = r.key /\ judged.tree = r.tree
    BY DEF Run
  <2>4. judged.errs = r.errs /\ judged.first = r.first
    BY DEF Run
  <2>5. Goes(p, "done", judged)
    BY <1>2 DEF Obtained
  <2> HIDE DEF judged
  <2>6. ASSUME NEW n \in Run, n.at = "done", AlikeButAt(n, judged) PROVE Fits(p, n, history, SourceCacheKey)
    <3>1. n.key = r.key /\ n.first = r.first /\ n.tree = r.tree /\ n.errs = r.errs /\ n.pass = "judge"
      BY <2>1, <2>3, <2>4, <2>6 DEF AlikeButAt
    <3>2. n.judged => print = r.first.print
      BY <2>2, <2>6 DEF AlikeButAt
    <3>3. Knows(p, n, history, SourceCacheKey)
      BY <2>6 DEF Knows
    <3>4. ASSUME p \in Batches, n.judged
          PROVE  r.first.print = NoPrint \/ (r.tree = r.first.tree /\ r.errs = r.tree)
      <4>1. PrintTrue(history, r.first) /\ PrintTrue(history, now) /\ now.print = r.first.print
        BY <2>1, <3>2, <3>4
      <4>2. r.first.print \in Prints
        BY RunFields DEF Firsts
      <4>3. r.first.print.key = NoKey /\ r.first.print.text = 0 => r.first.print = NoPrint
        BY <4>2 DEF Prints, NoPrint
      <4>4. now.tree = r.tree /\ now.errs = r.errs
        OBVIOUS
      <4> HIDE DEF now
      <4> QED
        BY <4>1, <4>3, <4>4 DEF PrintTrue
    <3>5. Remembers(p, n, history)
      BY <2>1, <2>6, <3>1, <3>4 DEF Remembers
    <3> QED
      BY <3>1, <3>3, <3>5 DEF Fits
  <2> QED
    BY <2>2, <2>5, <2>6, GoesStep DEF Places
<1> QED
  BY <1>1, <1>2

-----------------------------------------------------------------------------
(* The cache is tried                                                      *)

LEMMA SameEntries ==
    ASSUME EntriesOK, UNCHANGED <<history, ast, errors>>
    PROVE  EntriesOK'
BY DEF EntriesOK, Held

LEMMA TheRun ==
    ASSUME KindsApart, CacheInv, NEW p \in Processes
    PROVE  /\ process[p] \in Run /\ Known(history, process[p].key)
           /\ Knows(p, process[p], history, SourceCacheKey) /\ Remembers(p, process[p], history)
           /\ SourceCacheKey \in Keys \cup {NoKey} /\ Known(history, SourceCacheKey)
BY Names DEF CacheInv, Fits

LEMMA LookStep ==
    ASSUME KindsApart, CacheInv, NEW p \in Processes, Look(p)
    PROVE  CacheInv'
<1> DEFINE was == process[p]
           r == [was EXCEPT !.key = SourceCacheKey]
           at == IF SourceCacheKey = NoKey THEN "stat" ELSE "open"
<1>1. was \in Run /\ was.at = "look" /\ Knows(p, was, history, SourceCacheKey) /\ Remembers(p, was, history)
  BY TheRun DEF Look, At
<1>2. SourceCacheKey \in Keys \cup {NoKey} /\ Known(history, SourceCacheKey)
  BY TheRun
<1>3. Goes(p, at, r) /\ UNCHANGED <<source, history, ast, errors>>
  BY DEF Look
<1> HIDE DEF was
<1>4. r \in Run /\ r.key = SourceCacheKey
  BY <1>1, <1>2 DEF Run
<1>5. r.byText = was.byText /\ r.pass = was.pass /\ r.first = was.first
  BY <1>1 DEF Run
<1>6. r.judged = was.judged
  BY <1>1 DEF Run
<1> HIDE DEF r
<1>7. ASSUME NEW n \in Run, n.at = at, AlikeButAt(n, r) PROVE Fits(p, n, history, SourceCacheKey)
  <2>1. n.key = SourceCacheKey /\ ~n.byText /\ n.pass = was.pass /\ n.first = was.first /\ ~n.judged
    BY <1>1, <1>4, <1>5, <1>6, <1>7 DEF AlikeButAt, Knows, Remembers
  <2>2. n.at \in {"stat", "open"} /\ (n.at = "open" => n.key # NoKey)
    BY <1>7, <2>1
  <2>3. Knows(p, n, history, SourceCacheKey)
    BY <2>1, <2>2 DEF Knows
  <2>4. Remembers(p, n, history)
    BY <1>1, <2>1, <2>2 DEF Remembers
  <2> QED
    BY <1>2, <2>1, <2>3, <2>4 DEF Fits
<1>8. at \in Places
  BY DEF Places
<1> QED
  BY <1>3, <1>4, <1>7, <1>8, GoesStep, SameEntries DEF CacheInv

\* The name of a run that looks, and where it goes on without an entry.
LEMMA LooksUnderAName ==
    ASSUME KindsApart, CacheInv, NEW p \in Processes, process[p].at \in {"open", "sidecar"}
    PROVE  /\ Name(process[p]) \in Keys
           /\ ~process[p].byText => process[p].key # NoKey /\ Name(process[p]) = process[p].key
           /\ process[p].byText => process[p].key = NoKey /\ process[p].text \in Contents
                                   /\ Held(history, Name(process[p])) = process[p].text
<1> DEFINE r == process[p]
<1>1. r \in Run /\ Known(history, r.key) /\ (r.byText <=> r.key = NoKey) /\ (r.byText => r.text \in Contents)
  BY TheRun DEF Knows
<1> HIDE DEF r
<1>2. CASE r.byText
  BY <1>1, <1>2, Names DEF CacheInv, Name, r
<1>3. CASE ~r.byText
  BY <1>1, <1>3, Names DEF CacheInv, Name, Known, r
<1> QED
  BY <1>2, <1>3

LEMMA MissedStep ==
    ASSUME KindsApart, CacheInv, NEW p \in Processes, process[p].at \in {"open", "sidecar"},
           Goes(p, Missed(process[p]), process[p]), UNCHANGED <<source, history, ast, errors>>
    PROVE  CacheInv'
<1> DEFINE r == process[p]
<1>1. r \in Run /\ Known(history, r.key) /\ Knows(p, r, history, SourceCacheKey) /\ Remembers(p, r, history)
  BY TheRun
<1>2. (r.byText <=> r.key = NoKey) /\ (r.byText => r.text \in Contents)
  BY <1>1 DEF Knows
<1>3. r.at \notin {"indexed", "done"}
  OBVIOUS
<1> HIDE DEF r
<1>4. ASSUME NEW n \in Run, n.at = Missed(r), AlikeButAt(n, r) PROVE Fits(p, n, history, SourceCacheKey)
  <2>1. n.at \in {"parse", "stat"} /\ (n.at = "parse" => n.byText)
    BY <1>4 DEF Missed, AlikeButAt
  <2>2. Known(history, n.key) /\ (n.byText <=> n.key = NoKey) /\ (n.byText => n.text \in Contents)
    BY <1>1, <1>2, <1>4 DEF AlikeButAt
  <2>3. Knows(p, n, history, SourceCacheKey)
    BY <2>1, <2>2 DEF Knows, Current
  <2>4. Remembers(p, n, history)
    BY <1>1, <1>3, <1>4, <2>1 DEF Remembers, AlikeButAt
  <2> QED
    BY <2>2, <2>3, <2>4 DEF Fits
<1>5. Missed(r) \in Places
  BY DEF Missed, Places
<1> QED
  BY <1>1, <1>4, <1>5, GoesStep, SameEntries DEF CacheInv, r

LEMMA PrintOfFile ==
    ASSUME NEW r \in Run
    PROVE  /\ FromFile(r) \in Prints /\ FromFile(r).key = r.key
           /\ FromFile(r).text = IF r.byText THEN r.text ELSE 0
BY RunFields DEF FromFile, Prints, Texts

LEMMA OpenTreeStep ==
    ASSUME KindsApart, CacheInv, NEW p \in Processes, OpenTree(p)
    PROVE  CacheInv'
<1> DEFINE was == process[p]
           r == [was EXCEPT !.tree = ast[Name(was)]]
<1>1. was \in Run /\ Known(history, was.key) /\ Remembers(p, was, history) /\ was.at = "open"
  BY TheRun DEF OpenTree, At
<1>2. UNCHANGED <<source, history, ast, errors>> /\ EntriesOK'
  BY SameEntries DEF OpenTree, CacheInv
<1>3. /\ Name(was) \in Keys
      /\ ~was.byText => was.key # NoKey /\ Name(was) = was.key
      /\ was.byText => was.key = NoKey /\ was.text \in Contents /\ Held(history, Name(was)) = was.text
  BY <1>1, LooksUnderAName
<1>4. ast[Name(was)] \in Texts /\ (ast[Name(was)] # 0 => ast[Name(was)] = Held(history, Name(was)))
  BY <1>3 DEF CacheInv, EntriesOK
<1>5. CASE ast[Name(was)] = 0 /\ Goes(p, Missed(was), was)
  BY <1>1, <1>2, <1>5, MissedStep
<1>6. ASSUME ast[Name(was)] # 0
      PROVE  /\ r \in Run /\ r.tree = Held(history, Name(was)) /\ r.key = was.key /\ r.byText = was.byText
             /\ r.text = was.text /\ r.pass = was.pass /\ r.first = was.first /\ ~r.judged /\ Name(r) = Name(was)
  <2> HIDE DEF was
  <2>1. r \in Run /\ r.tree = Held(history, Name(was))
    BY <1>1, <1>4, <1>6 DEF Run
  <2>2. r.key = was.key /\ r.byText = was.byText /\ r.text = was.text
    BY <1>1 DEF Run
  <2>3. r.pass = was.pass /\ r.first = was.first /\ r.judged = was.judged
    BY <1>1 DEF Run
  <2> QED
    BY <1>1, <2>1, <2>2, <2>3 DEF Remembers, Name
<1>7. CASE ast[Name(was)] # 0 /\ p \notin Bases /\ Goes(p, "sidecar", r)
  <2> HIDE DEF r, was
  <2>1. ASSUME NEW n \in Run, n.at = "sidecar", AlikeButAt(n, r) PROVE Fits(p, n, history, SourceCacheKey)
    <3>1. Name(n) = Name(r)
      BY <2>1 DEF AlikeButAt, Name
    <3>2. Knows(p, n, history, SourceCacheKey)
      BY <1>3, <1>6, <1>7, <2>1, <3>1 DEF Knows, AlikeButAt
    <3>3. Remembers(p, n, history)
      BY <1>1, <1>6, <1>7, <2>1 DEF Remembers, AlikeButAt
    <3> QED
      BY <1>1, <1>6, <1>7, <2>1, <3>2, <3>3 DEF Fits, AlikeButAt
  <2> QED
    BY <1>2, <1>6, <1>7, <2>1, GoesStep DEF Places
<1>8. CASE ast[Name(was)] # 0 /\ p \in Bases /\ ~was.byText /\ Goes(p, "confirm", r)
  <2> HIDE DEF r, was
  <2>1. ASSUME NEW n \in Run, n.at = "confirm", AlikeButAt(n, r) PROVE Fits(p, n, history, SourceCacheKey)
    <3>1. Knows(p, n, history, SourceCacheKey)
      BY <1>3, <1>6, <1>8, <2>1 DEF Knows, AlikeButAt, Found
    <3>2. Remembers(p, n, history)
      BY <1>1, <1>6, <1>8, <2>1 DEF Remembers, AlikeButAt
    <3> QED
      BY <1>1, <1>6, <1>8, <2>1, <3>1, <3>2 DEF Fits, AlikeButAt
  <2> QED
    BY <1>2, <1>6, <1>8, <2>1, GoesStep DEF Places
<1>9. CASE ast[Name(was)] # 0 /\ p \in Bases /\ was.byText /\ Obtained(p, r, FromFile(r))
  <2> HIDE DEF r, was
  <2>1. p \notin Batches /\ p \notin Scans
    BY <1>9 DEF KindsApart
  <2> QED
    BY <1>1, <1>2, <1>6, <1>9, <2>1, PrintOfFile, ObtainedStep
<1> QED
  BY <1>5, <1>7, <1>8, <1>9 DEF OpenTree

LEMMA OpenErrorsStep ==
    ASSUME KindsApart, CacheInv, NEW p \in Processes, OpenErrors(p)
    PROVE  CacheInv'
<1> DEFINE was == process[p]
           r == [was EXCEPT !.errs = errors[Name(was)]]
           hashed == [r EXCEPT !.hash = was.text]
<1>1. was \in Run /\ Known(history, was.key) /\ Remembers(p, was, history) /\ was.at = "sidecar"
      /\ was.tree = Held(history, Name(was))
  BY TheRun DEF OpenErrors, At, Knows
<1>2. UNCHANGED <<source, history, ast, errors>> /\ EntriesOK'
  BY SameEntries DEF OpenErrors, CacheInv
<1>3. /\ Name(was) \in Keys
      /\ ~was.byText => was.key # NoKey /\ Name(was) = was.key
      /\ was.byText => was.key = NoKey /\ was.text \in Contents /\ Held(history, Name(was)) = was.text
  BY <1>1, LooksUnderAName
<1>4. errors[Name(was)] \in Texts /\ (errors[Name(was)] # 0 => errors[Name(was)] = was.tree)
  BY <1>1, <1>3 DEF CacheInv, EntriesOK
<1>5. CASE errors[Name(was)] = 0 /\ Goes(p, Missed(was), was)
  BY <1>1, <1>2, <1>5, MissedStep
<1>6. ASSUME errors[Name(was)] # 0
      PROVE  /\ r \in Run /\ r.errs = was.tree /\ r.tree = was.tree /\ r.key = was.key /\ r.byText = was.byText
             /\ r.text = was.text /\ r.pass = was.pass /\ r.first = was.first /\ ~r.judged
  <2> HIDE DEF was
  <2>1. r \in Run /\ r.errs = was.tree
    BY <1>1, <1>4, <1>6 DEF Run
  <2>2. r.key = was.key /\ r.byText = was.byText /\ r.text = was.text
    BY <1>1 DEF Run
  <2>3. r.pass = was.pass /\ r.first = was.first /\ r.judged = was.judged
    BY <1>1 DEF Run
  <2>4. r.tree = was.tree
    BY <1>1 DEF Run
  <2> QED
    BY <1>1, <2>1, <2>2, <2>3, <2>4 DEF Remembers
<1>7. CASE errors[Name(was)] # 0 /\ ~was.byText /\ Goes(p, "confirm", r)
  <2> HIDE DEF r, was
  <2>1. ASSUME NEW n \in Run, n.at = "confirm", AlikeButAt(n, r) PROVE Fits(p, n, history, SourceCacheKey)
    <3>1. Knows(p, n, history, SourceCacheKey)
      BY <1>1, <1>3, <1>6, <1>7, <2>1 DEF Knows, AlikeButAt, Found
    <3>2. Remembers(p, n, history)
      BY <1>1, <1>6, <1>7, <2>1 DEF Remembers, AlikeButAt
    <3> QED
      BY <1>1, <1>6, <1>7, <2>1, <3>1, <3>2 DEF Fits, AlikeButAt
  <2> QED
    BY <1>2, <1>6, <1>7, <2>1, GoesStep DEF Places
<1>8. CASE errors[Name(was)] # 0 /\ was.byText /\ Obtained(p, hashed, FromFile(r))
  <2> DEFINE print == FromFile(r)
  <2> HIDE DEF r, was
  <2>1. print \in Prints /\ print.key = NoKey /\ print.text = was.text
    BY <1>3, <1>6, <1>8, PrintOfFile
  <2>2. hashed \in Run /\ hashed.hash = was.text
    BY <1>1, <1>6, <1>8 DEF Run
  <2>3. hashed.tree = was.tree /\ hashed.errs = was.tree /\ hashed.key = NoKey
    BY <1>3, <1>6, <1>8 DEF Run
  <2>4. hashed.pass = was.pass /\ hashed.first = was.first /\ ~hashed.judged
    BY <1>6, <1>8 DEF Run
  <2> HIDE DEF hashed, print
  <2>5. PrintTrue(history, [tree |-> hashed.tree, errs |-> hashed.errs, print |-> print])
    BY <1>1, <1>3, <1>8, <2>1, <2>3 DEF PrintTrue, Known
  <2>6. Known(history, hashed.key) /\ was.text = was.tree
    BY <1>1, <1>3, <1>8, <2>3 DEF Known
  <2>7. Obtained(p, hashed, print)
    BY <1>8 DEF print
  <2> QED
    BY <1>1, <1>2, <2>1, <2>2, <2>3, <2>4, <2>5, <2>6, <2>7, ObtainedStep DEF Remembers
<1> QED
  BY <1>5, <1>7, <1>8 DEF OpenErrors

\* What was found under a stamp is handed out with that stamp.
LEMMA FoundIsTrue ==
    ASSUME NEW p \in Processes, NEW r \in Run, Found(history, r), Known(history, r.key), p \notin Bases => r.errs = r.tree,
           KindsApart
    PROVE  /\ FromFile(r) \in Prints
           /\ p \in Batches => PrintTrue(history, [tree |-> r.tree, errs |-> r.errs, print |-> FromFile(r)])
<1> DEFINE print == FromFile(r)
<1>1. print \in Prints /\ print.key = r.key
  BY PrintOfFile
<1> HIDE DEF print
<1>2. p \in Batches => r.errs = r.tree
  BY DEF KindsApart
<1>3. p \in Batches => PrintTrue(history, [tree |-> r.tree, errs |-> r.errs, print |-> print])
  BY <1>1, <1>2 DEF PrintTrue, Found
<1> QED
  BY <1>1, <1>3 DEF print

LEMMA ConfirmStep ==
    ASSUME KindsApart, CacheInv, NEW p \in Processes, Confirm(p)
    PROVE  CacheInv'
<1> DEFINE r == process[p]
<1>1. r \in Run /\ Known(history, r.key) /\ Remembers(p, r, history) /\ r.at = "confirm"
      /\ Found(history, r) /\ (p \notin Bases => r.errs = r.tree)
  BY TheRun DEF Confirm, At, Knows
<1>2. UNCHANGED <<source, history, ast, errors>> /\ EntriesOK'
  BY SameEntries DEF Confirm, CacheInv
<1>3. CASE Goes(p, "stat", r)
  <2> HIDE DEF r
  <2>1. ASSUME NEW n \in Run, n.at = "stat", AlikeButAt(n, r) PROVE Fits(p, n, history, SourceCacheKey)
    BY <1>1, <2>1 DEF AlikeButAt, Fits, Knows, Remembers
  <2> QED
    BY <1>1, <1>2, <1>3, <2>1, GoesStep DEF Places
<1>4. CASE p \in Scans /\ Goes(p, "rehash", r)
  <2> HIDE DEF r
  <2>1. ASSUME NEW n \in Run, n.at = "rehash", AlikeButAt(n, r) PROVE Fits(p, n, history, SourceCacheKey)
    <3>1. Found(history, n) /\ (p \notin Bases => n.errs = n.tree)
      BY <1>1, <2>1 DEF AlikeButAt, Found
    <3> QED
      BY <1>1, <2>1, <3>1 DEF AlikeButAt, Fits, Knows, Remembers
  <2> QED
    BY <1>1, <1>2, <1>4, <2>1, GoesStep DEF Places
<1>5. CASE p \notin Scans /\ Obtained(p, r, FromFile(r))
  <2> HIDE DEF r
  <2> QED
    BY <1>1, <1>2, <1>5, FoundIsTrue, ObtainedStep DEF Remembers
<1> QED
  BY <1>3, <1>4, <1>5 DEF Confirm

LEMMA RehashStep ==
    ASSUME KindsApart, CacheInv, NEW p \in Processes, Rehash(p)
    PROVE  CacheInv'
<1> DEFINE was == process[p]
           r == [was EXCEPT !.text = source.content]
<1>1. was \in Run /\ Known(history, was.key) /\ Remembers(p, was, history) /\ was.at = "rehash"
      /\ Found(history, was) /\ (p \notin Bases => was.errs = was.tree)
  BY TheRun DEF Rehash, At, Knows
<1>2. UNCHANGED <<source, history, ast, errors>> /\ EntriesOK'
  BY SameEntries DEF Rehash, CacheInv
<1>3. source.content \in Texts /\ (SourceCacheKey # NoKey => source.content = Held(history, SourceCacheKey))
  BY Names DEF CacheInv, SourceOK
<1>4. Goes(p, "rehashed", r)
  BY DEF Rehash
<1> HIDE DEF was
<1>5. r \in Run /\ r.text = source.content
  BY <1>1, <1>3 DEF Run
<1>6. r.key = was.key /\ r.byText = was.byText /\ r.tree = was.tree
  BY <1>1 DEF Run
<1>7. r.pass = was.pass /\ r.first = was.first /\ r.judged = was.judged
  BY <1>1 DEF Run
<1>8. r.errs = was.errs
  BY <1>1 DEF Run
<1> HIDE DEF r
<1>9. ASSUME NEW n \in Run, n.at = "rehashed", AlikeButAt(n, r) PROVE Fits(p, n, history, SourceCacheKey)
  <2>1. Found(history, n) /\ (p \notin Bases => n.errs = n.tree) /\ n.key = was.key /\ n.text = source.content
    BY <1>1, <1>5, <1>6, <1>8, <1>9 DEF AlikeButAt, Found
  <2>2. Current(n, SourceCacheKey) => n.text = Held(history, n.key)
    BY <1>3, <2>1 DEF Current
  <2>3. Knows(p, n, history, SourceCacheKey)
    BY <1>9, <2>1, <2>2 DEF Knows
  <2>4. Remembers(p, n, history)
    BY <1>1, <1>7, <1>9 DEF Remembers, AlikeButAt
  <2> QED
    BY <1>1, <2>1, <2>3, <2>4 DEF Fits
<1> QED
  BY <1>2, <1>4, <1>5, <1>9, GoesStep DEF Places

\* The hash of a scan is that of the tree it found, or none.
LEMMA RehashedStep ==
    ASSUME KindsApart, CacheInv, NEW p \in Processes, Rehashed(p)
    PROVE  CacheInv'
<1> DEFINE was == process[p]
           hash == IF SourceCacheKey = was.key THEN was.text ELSE 0
           r == [was EXCEPT !.hash = hash]
           print == FromFile(was)
<1>1. was \in Run /\ Known(history, was.key) /\ Remembers(p, was, history) /\ was.at = "rehashed"
      /\ Found(history, was) /\ (p \notin Bases => was.errs = was.tree)
      /\ (Current(was, SourceCacheKey) => was.text = Held(history, was.key))
  BY TheRun DEF Rehashed, At, Knows
<1>2. UNCHANGED <<source, history, ast, errors>> /\ EntriesOK' /\ Obtained(p, r, print)
  BY SameEntries DEF Rehashed, CacheInv
<1> HIDE DEF was
<1>3. hash \in {0, was.tree}
  BY <1>1 DEF Found, Current
<1>4. /\ print \in Prints
      /\ p \in Batches => PrintTrue(history, [tree |-> was.tree, errs |-> was.errs, print |-> print])
  BY <1>1, FoundIsTrue
<1>5. was.tree \in Texts
  BY <1>1, RunFields
<1> HIDE DEF hash, print
<1>6. r \in Run /\ r.hash = hash
  BY <1>1, <1>3, <1>5 DEF Run, Texts
<1>7. r.key = was.key /\ r.tree = was.tree /\ r.errs = was.errs
  BY <1>1 DEF Run
<1>8. r.pass = was.pass /\ r.first = was.first /\ r.judged = was.judged
  BY <1>1 DEF Run
<1> HIDE DEF r
<1> QED
  BY <1>1, <1>2, <1>3, <1>4, <1>6, <1>7, <1>8, ObtainedStep DEF Remembers

-----------------------------------------------------------------------------
(* The file is read and parsed                                             *)

LEMMA StatStep ==
    ASSUME KindsApart, CacheInv, NEW p \in Processes, Stat(p)
    PROVE  CacheInv'
<1> DEFINE was == process[p]
           r == [was EXCEPT !.key = SourceCacheKey]
<1>1. was \in Run /\ was.at = "stat" /\ Remembers(p, was, history)
  BY TheRun DEF Stat, At
<1>2. SourceCacheKey \in Keys \cup {NoKey} /\ Known(history, SourceCacheKey)
  BY TheRun
<1>3. Goes(p, "read", r) /\ UNCHANGED <<source, history, ast, errors>>
  BY DEF Stat
<1> HIDE DEF was
<1>4. r \in Run /\ r.key = SourceCacheKey
  BY <1>1, <1>2 DEF Run
<1>5. r.pass = was.pass /\ r.first = was.first /\ r.judged = was.judged
  BY <1>1 DEF Run
<1> HIDE DEF r
<1>6. ASSUME NEW n \in Run, n.at = "read", AlikeButAt(n, r) PROVE Fits(p, n, history, SourceCacheKey)
  <2>1. Knows(p, n, history, SourceCacheKey)
    BY <1>6 DEF Knows
  <2>2. Remembers(p, n, history)
    BY <1>1, <1>5, <1>6 DEF Remembers, AlikeButAt
  <2> QED
    BY <1>2, <1>4, <1>6, <2>1, <2>2 DEF Fits, AlikeButAt
<1> QED
  BY <1>3, <1>4, <1>6, GoesStep, SameEntries DEF CacheInv, Places

LEMMA ReadStep ==
    ASSUME KindsApart, CacheInv, NEW p \in Processes, Read(p)
    PROVE  CacheInv'
<1> DEFINE was == process[p]
           mid == [was EXCEPT !.text = source.content]
           r == [was EXCEPT !.text = source.content, !.byText = was.key = NoKey]
           at == IF was.key = NoKey THEN "open" ELSE "parse"
<1>1. was \in Run /\ Known(history, was.key) /\ Remembers(p, was, history) /\ was.at = "read"
  BY TheRun DEF Read, At
<1>2. UNCHANGED <<source, history, ast, errors>> /\ EntriesOK'
  BY SameEntries DEF Read, CacheInv
<1>3. /\ source.content \in Texts /\ (source.content # 0 => source.content \in Contents)
      /\ SourceCacheKey # NoKey => source.content = Held(history, SourceCacheKey)
  BY Names DEF CacheInv, SourceOK, Texts
<1>4. CASE Goes(p, "done", was)
  <2> HIDE DEF was
  <2>1. ASSUME NEW n \in Run, n.at = "done", AlikeButAt(n, was) PROVE Fits(p, n, history, SourceCacheKey)
    BY <1>1, <2>1 DEF AlikeButAt, Fits, Knows, Remembers
  <2> QED
    BY <1>1, <1>2, <1>4, <2>1, GoesStep DEF Places
<1>5. CASE source.content # 0 /\ Goes(p, at, r)
  <2> HIDE DEF was
  <2>1. r \in Run /\ r.text = source.content
    BY <1>1, <1>3 DEF Run
  <2>2. r.byText <=> was.key = NoKey
    BY <1>1 DEF Run
  <2>3. r.key = was.key /\ r.pass = was.pass
    BY <1>1 DEF Run
  <2>4. r.first = was.first /\ r.judged = was.judged
    BY <1>1 DEF Run
  <2> HIDE DEF r
  <2>5. ASSUME NEW n \in Run, n.at = at, AlikeButAt(n, r) PROVE Fits(p, n, history, SourceCacheKey)
    <3>1. n.key = was.key /\ (n.byText <=> n.key = NoKey) /\ n.text \in Contents /\ n.text = source.content
      BY <1>3, <1>5, <2>1, <2>2, <2>3, <2>5 DEF AlikeButAt
    <3>2. n.at \in {"open", "parse"} /\ (Current(n, SourceCacheKey) => n.text = Held(history, n.key))
      BY <1>3, <2>5, <3>1 DEF Current
    <3>3. Knows(p, n, history, SourceCacheKey)
      BY <3>1, <3>2 DEF Knows
    <3>4. Remembers(p, n, history)
      BY <1>1, <2>3, <2>4, <2>5, <3>2 DEF Remembers, AlikeButAt
    <3> QED
      BY <1>1, <3>1, <3>3, <3>4 DEF Fits
  <2>6. at \in Places
    BY DEF Places
  <2> QED
    BY <1>2, <1>5, <2>1, <2>5, <2>6, GoesStep
<1> QED
  BY <1>4, <1>5 DEF Read

\* A batch run keeps the stamp only if the file still has it.
LEMMA ParseStep ==
    ASSUME KindsApart, CacheInv, NEW p \in Processes, Parse(p)
    PROVE  CacheInv'
<1> DEFINE was == process[p]
           r == [was EXCEPT !.tree = was.text, !.errs = was.text, !.hash = was.text, !.key = Kept(p, was)]
<1>1. was \in Run /\ Known(history, was.key) /\ Remembers(p, was, history) /\ was.at = "parse"
      /\ (was.byText <=> was.key = NoKey) /\ was.text \in Contents
      /\ (Current(was, SourceCacheKey) => was.text = Held(history, was.key))
  BY TheRun DEF Parse, At, Knows
<1>2. UNCHANGED <<source, history, ast, errors>> /\ EntriesOK' /\ Goes(p, "store", r)
  BY SameEntries DEF Parse, CacheInv
<1> HIDE DEF was
<1>3. Kept(p, was) \in {NoKey, was.key} /\ (p \in Scans \/ Kept(p, was) \in {NoKey, SourceCacheKey})
  BY DEF Kept
<1>4. Known(history, Kept(p, was)) /\ Kept(p, was) \in Keys \cup {NoKey}
  BY <1>1, <1>3, RunFields DEF Known
<1>5. /\ Kept(p, was) # NoKey => was.key = Kept(p, was)
      /\ Kept(p, was) # NoKey /\ p \notin Scans => Kept(p, was) = SourceCacheKey
  BY <1>3
<1> DEFINE kept == Kept(p, was)
<1> HIDE DEF kept
<1>6. r \in Run /\ r.text = was.text
  <2>1. was.text \in Texts /\ kept \in Keys \cup {NoKey}
    BY <1>1, <1>4 DEF Texts, kept
  <2> QED
    BY <1>1, <2>1 DEF Run, kept
<1>7. r.tree = was.text /\ r.errs = was.text
  BY <1>1 DEF Run
<1>8. r.hash = was.text /\ r.key = Kept(p, was)
  BY <1>1 DEF Run
<1>9. r.pass = was.pass /\ r.first = was.first
  BY <1>1 DEF Run
<1>10. r.judged = was.judged /\ r.byText = was.byText
  BY <1>1 DEF Run
<1> HIDE DEF r
<1>11. ASSUME NEW n \in Run, n.at = "store", AlikeButAt(n, r) PROVE Fits(p, n, history, SourceCacheKey)
  <2>1. n.text = was.text /\ n.key = Kept(p, was) /\ Parsed(n)
    BY <1>1, <1>5, <1>6, <1>7, <1>8, <1>10, <1>11 DEF AlikeButAt, Parsed
  <2>2. n.key # NoKey /\ (p \notin Scans \/ Current(n, SourceCacheKey)) => n.text = Held(history, n.key)
    BY <1>1, <1>5, <2>1 DEF Current
  <2>3. Knows(p, n, history, SourceCacheKey)
    BY <1>11, <2>1, <2>2 DEF Knows
  <2>4. Remembers(p, n, history)
    BY <1>1, <1>9, <1>10, <1>11 DEF Remembers, AlikeButAt
  <2> QED
    BY <1>4, <2>1, <2>3, <2>4 DEF Fits
<1> QED
  BY <1>2, <1>6, <1>11, GoesStep DEF Places

-----------------------------------------------------------------------------
(* The parse is stored                                                     *)

\* A batch run that holds a parse holds it under the name it goes by.
LEMMA ParsedIsTrue ==
    ASSUME NEW p \in Processes, NEW r \in Run, Parsed(r), Known(history, r.key),
           p \in Batches /\ r.key # NoKey => r.text = Held(history, r.key)
    PROVE  /\ FromFile(r) \in Prints
           /\ p \in Batches => PrintTrue(history, [tree |-> r.tree, errs |-> r.errs, print |-> FromFile(r)])
<1> DEFINE print == FromFile(r)
<1>1. print \in Prints /\ print.key = r.key /\ print.text = IF r.byText THEN r.text ELSE 0
  BY PrintOfFile
<1> HIDE DEF print
<1>2. p \in Batches => PrintTrue(history, [tree |-> r.tree, errs |-> r.errs, print |-> print])
  BY <1>1 DEF PrintTrue, Parsed
<1> QED
  BY <1>1, <1>2 DEF print

LEMMA StoreStep ==
    ASSUME KindsApart, CacheInv, NEW p \in Processes, Store(p)
    PROVE  CacheInv'
<1> DEFINE r == process[p]
<1>1. r \in Run /\ Known(history, r.key) /\ Remembers(p, r, history) /\ r.at = "store" /\ Parsed(r)
      /\ (r.key # NoKey /\ (p \notin Scans \/ Current(r, SourceCacheKey)) => r.text = Held(history, r.key))
  BY TheRun DEF Store, At, Knows
<1>2. UNCHANGED <<source, history, ast, errors>> /\ EntriesOK'
  BY SameEntries DEF Store, CacheInv
<1>3. CASE r.key \in {NoKey, SourceCacheKey} /\ Goes(p, "write", r)
  <2> HIDE DEF r
  <2>1. ASSUME NEW n \in Run, n.at = "write", AlikeButAt(n, r) PROVE Fits(p, n, history, SourceCacheKey)
    <3>1. Parsed(n) /\ n.key = r.key /\ n.text = r.text
      BY <1>1, <2>1 DEF AlikeButAt, Parsed
    <3>2. n.key # NoKey => n.text = Held(history, n.key)
      BY <1>1, <1>3, <3>1 DEF Current
    <3>3. Knows(p, n, history, SourceCacheKey)
      BY <2>1, <3>1, <3>2 DEF Knows
    <3>4. Remembers(p, n, history)
      BY <1>1, <2>1 DEF Remembers, AlikeButAt
    <3> QED
      BY <1>1, <3>1, <3>3, <3>4 DEF Fits
  <2> QED
    BY <1>1, <1>2, <1>3, <2>1, GoesStep DEF Places
<1>4. CASE r.key \notin {NoKey, SourceCacheKey} /\ Obtained(p, r, FromFile(r))
  <2> HIDE DEF r
  <2>1. p \in Batches /\ r.key # NoKey => r.text = Held(history, r.key)
    BY <1>1 DEF KindsApart
  <2> QED
    BY <1>1, <1>2, <1>4, <2>1, ParsedIsTrue, ObtainedStep DEF Remembers, Parsed
<1> QED
  BY <1>3, <1>4 DEF Store

\* A name is written with the parse of what it stands for, or emptied.
LEMMA EntryWritten ==
    ASSUME EntriesOK, NEW k \in Keys, NEW tree \in {ast[k], 0, Held(history, k)}, NEW errs \in {errors[k], 0, Held(history, k)},
           tree \in Texts, errs \in Texts, history' = history,
           ast' = [ast EXCEPT ![k] = tree], errors' = [errors EXCEPT ![k] = errs]
    PROVE  EntriesOK'
<1>1. ast' \in [Keys -> Texts] /\ errors' \in [Keys -> Texts]
  BY DEF EntriesOK
<1>2. ASSUME NEW key \in Keys
      PROVE  ast'[key] \in {0, Held(history, key)} /\ errors'[key] \in {0, Held(history, key)}
  BY DEF EntriesOK
<1>3. (\A key \in Keys : ast[key] \in {0, Held(history, key)} /\ errors[key] \in {0, Held(history, key)})'
  BY <1>2
<1> QED
  BY <1>1, <1>3 DEF EntriesOK

LEMMA EntryOfParsed ==
    ASSUME KindsApart, CacheInv, NEW r \in Run, Parsed(r), Known(history, r.key),
           r.key # NoKey => r.text = Held(history, r.key)
    PROVE  Entry(r) \in Keys /\ Held(history, Entry(r)) = r.text /\ r.text \in Texts
<1>1. CASE r.key = NoKey
  BY <1>1, Names DEF CacheInv, Entry, Parsed, Texts
<1>2. CASE r.key # NoKey
  BY <1>2, Names DEF CacheInv, Entry, Parsed, Texts, Known
<1> QED
  BY <1>1, <1>2

LEMMA WriteTreeStep ==
    ASSUME KindsApart, CacheInv, NEW p \in Processes, WriteTree(p)
    PROVE  CacheInv'
<1> DEFINE r == process[p]
<1>1. r \in Run /\ Known(history, r.key) /\ Remembers(p, r, history) /\ r.at = "write" /\ Parsed(r)
      /\ (r.key # NoKey => r.text = Held(history, r.key))
  BY TheRun DEF WriteTree, At, Knows
<1>2. UNCHANGED <<source, history, errors>> /\ EntriesOK
  BY DEF WriteTree, CacheInv
<1>3. CASE ast' = [ast EXCEPT ![Entry(r)] = r.tree] /\ Goes(p, "write errors", r)
  <2> HIDE DEF r
  <2>1. Entry(r) \in Keys /\ Held(history, Entry(r)) = r.text /\ r.text \in Texts /\ r.tree = r.text
    BY <1>1, EntryOfParsed DEF Parsed
  <2>2. errors' = [errors EXCEPT ![Entry(r)] = errors[Entry(r)]] /\ errors[Entry(r)] \in Texts
    BY <1>2, <2>1 DEF EntriesOK
  <2>3. EntriesOK'
    BY <1>2, <1>3, <2>1, <2>2, EntryWritten
  <2>4. ASSUME NEW n \in Run, n.at = "write errors", AlikeButAt(n, r) PROVE Fits(p, n, history, SourceCacheKey)
    <3>1. Parsed(n) /\ n.key = r.key /\ n.text = r.text
      BY <1>1, <2>4 DEF AlikeButAt, Parsed
    <3>2. Knows(p, n, history, SourceCacheKey)
      BY <1>1, <2>4, <3>1 DEF Knows
    <3>3. Remembers(p, n, history)
      BY <1>1, <2>4 DEF Remembers, AlikeButAt
    <3> QED
      BY <1>1, <3>1, <3>2, <3>3 DEF Fits
  <2> QED
    BY <1>1, <1>2, <1>3, <2>3, <2>4, GoesStep DEF Places
<1>4. CASE UNCHANGED ast /\ Obtained(p, r, FromFile(r))
  <2> HIDE DEF r
  <2> QED
    BY <1>1, <1>2, <1>4, ParsedIsTrue, SameEntries, ObtainedStep DEF Remembers, Parsed
<1> QED
  BY <1>3, <1>4 DEF WriteTree

LEMMA WriteErrorsStep ==
    ASSUME KindsApart, CacheInv, NEW p \in Processes, WriteErrors(p)
    PROVE  CacheInv'
<1> DEFINE r == process[p]
<1>1. r \in Run /\ Known(history, r.key) /\ Remembers(p, r, history) /\ r.at = "write errors" /\ Parsed(r)
      /\ (r.key # NoKey => r.text = Held(history, r.key))
  BY TheRun DEF WriteErrors, At, Knows
<1>2. UNCHANGED <<source, history>> /\ EntriesOK /\ Obtained(p, r, FromFile(r))
  BY DEF WriteErrors, CacheInv
<1>3. \/ errors' = [errors EXCEPT ![Entry(r)] = r.errs] /\ UNCHANGED ast
      \/ errors' = [errors EXCEPT ![Entry(r)] = 0] /\ ast' = [ast EXCEPT ![Entry(r)] = 0]
  BY DEF WriteErrors
<1> HIDE DEF r
<1>4. Entry(r) \in Keys /\ Held(history, Entry(r)) = r.text /\ r.text \in Texts /\ r.errs = r.text
  BY <1>1, EntryOfParsed DEF Parsed
<1>5. ast = [ast EXCEPT ![Entry(r)] = ast[Entry(r)]] /\ ast[Entry(r)] \in Texts /\ 0 \in Texts
  BY <1>2, <1>4 DEF EntriesOK, Texts
<1>6. EntriesOK'
  BY <1>2, <1>3, <1>4, <1>5, EntryWritten
<1> QED
  BY <1>1, <1>2, <1>6, ParsedIsTrue, ObtainedStep DEF Remembers, Parsed

-----------------------------------------------------------------------------
(* The second pass, and the steps around                                   *)

LEMMA RecheckStep ==
    ASSUME KindsApart, CacheInv, NEW p \in Processes, Recheck(p)
    PROVE  CacheInv'
<1> DEFINE was == process[p]
           over == [was EXCEPT !.pass = "judge"]
           r == [Idle EXCEPT !.pass = "judge", !.first = was.first]
<1>1. was \in Run /\ Known(history, was.key) /\ Remembers(p, was, history) /\ was.at = "indexed" /\ p \in Batches
  BY TheRun DEF Recheck, At
<1>2. UNCHANGED <<source, history, ast, errors>> /\ EntriesOK' /\ p \notin Scans
  BY <1>1, SameEntries DEF Recheck, CacheInv, KindsApart
<1>3. PrintTrue(history, was.first) /\ ~was.judged
  BY <1>1 DEF Remembers
<1>4. CASE Goes(p, "done", over)
  <2> HIDE DEF was
  <2>1. over \in Run /\ over.pass = "judge"
    BY <1>1 DEF Run
  <2>2. over.key = was.key /\ over.first = was.first /\ over.judged = was.judged
    BY <1>1 DEF Run
  <2> HIDE DEF over
  <2>3. ASSUME NEW n \in Run, n.at = "done", AlikeButAt(n, over) PROVE Fits(p, n, history, SourceCacheKey)
    BY <1>1, <1>2, <1>3, <2>1, <2>2, <2>3 DEF AlikeButAt, Fits, Knows, Remembers
  <2> QED
    BY <1>2, <1>4, <2>1, <2>3, GoesStep DEF Places
<1>5. CASE Goes(p, "look", r)
  <2> HIDE DEF was
  <2>1. r \in Run /\ r.key = NoKey /\ r.byText = FALSE /\ r.first = was.first /\ ~r.judged
    BY <1>1, RunFields DEF Run, Idle, Texts, Places, Firsts, Prints, NoPrint
  <2> HIDE DEF r
  <2>2. ASSUME NEW n \in Run, n.at = "look", AlikeButAt(n, r) PROVE Fits(p, n, history, SourceCacheKey)
    BY <1>2, <1>3, <2>1, <2>2 DEF AlikeButAt, Fits, Knows, Remembers, Known
  <2> QED
    BY <1>2, <1>5, <2>1, <2>2, GoesStep DEF Places
<1> QED
  BY <1>4, <1>5 DEF Recheck

LEMMA KillStep ==
    ASSUME KindsApart, CacheInv, NEW p \in Processes, Kill(p)
    PROVE  CacheInv'
<1> DEFINE r == process[p]
<1>1. r \in Run /\ Known(history, r.key) /\ Remembers(p, r, history) /\ r.at \notin {"done", "indexed"}
  BY TheRun DEF Kill
<1>2. UNCHANGED <<source, history, ast, errors>> /\ EntriesOK' /\ Goes(p, "done", r)
  BY SameEntries DEF Kill, CacheInv
<1> HIDE DEF r
<1>3. ASSUME NEW n \in Run, n.at = "done", AlikeButAt(n, r) PROVE Fits(p, n, history, SourceCacheKey)
  BY <1>1, <1>3 DEF AlikeButAt, Fits, Knows, Remembers
<1> QED
  BY <1>1, <1>2, <1>3, GoesStep DEF Places

\* What happens to the cache or the file leaves the runs alone.
LEMMA AroundStep ==
    ASSUME CacheInv, UNCHANGED process, SourceOK', EntriesOK',
           \A p \in Processes, r \in Run :
              Fits(p, r, history, SourceCacheKey) => Fits(p, r, history', SourceCacheKey')
    PROVE  CacheInv'
<1>1. process' \in [Processes -> Run]
  BY DEF CacheInv
<1>2. \A p \in Processes : Fits(p, process'[p], history', SourceCacheKey')
  BY DEF CacheInv
<1>3. (\A p \in Processes : Fits(p, process[p], history, SourceCacheKey))'
  BY <1>2
<1> QED
  BY <1>1, <1>3 DEF CacheInv

LEMMA RemoveStep ==
    ASSUME CacheInv, NEW k \in Keys, RemoveTree(k) \/ RemoveErrors(k)
    PROVE  CacheInv'
<1>1. UNCHANGED <<source, history, process>> /\ EntriesOK
  BY DEF RemoveTree, RemoveErrors, CacheInv
<1>2. ast[k] \in Texts /\ errors[k] \in Texts /\ 0 \in Texts
  BY <1>1 DEF EntriesOK, Texts
<1>3. EntriesOK'
  <2>1. CASE RemoveTree(k)
    <3>1. errors' = [errors EXCEPT ![k] = errors[k]]
      BY <1>1, <2>1 DEF EntriesOK, RemoveTree
    <3> QED
      BY <1>1, <1>2, <2>1, <3>1, EntryWritten DEF RemoveTree
  <2>2. CASE RemoveErrors(k)
    <3>1. ast' = [ast EXCEPT ![k] = ast[k]]
      BY <1>1, <2>2 DEF EntriesOK, RemoveErrors
    <3> QED
      BY <1>1, <1>2, <2>2, <3>1, EntryWritten DEF RemoveErrors
  <2> QED
    BY <2>1, <2>2
<1>4. SourceOK' /\ SourceCacheKey' = SourceCacheKey /\ history' = history
  BY <1>1 DEF CacheInv, SourceOK, SourceCacheKey
<1> QED
  BY <1>1, <1>3, <1>4, AroundStep

\* A stamp the file never had is in nobody's hands.
LEMMA NewStamp ==
    ASSUME KindsApart, SourceOK, NEW n \in Stamps, history[n] = 0, NEW c \in Contents,
           NEW k, Known(history, k)
    PROVE  /\ k # ByStamp(n) /\ Known([history EXCEPT ![n] = c], k)
           /\ k # NoKey => Held([history EXCEPT ![n] = c], k) = Held(history, k)
<1>1. 0 \notin Contents
  BY DEF KindsApart
<1>2. ASSUME NEW m \in Stamps, k = ByStamp(m)
      PROVE  /\ m # n /\ Held(history, k) = history[m]
             /\ Held([history EXCEPT ![n] = c], k) = [history EXCEPT ![n] = c][m]
  BY <1>1, <1>2 DEF Held, Known, ByStamp, StampKeys, NoKey
<1>3. CASE k = NoKey
  BY <1>3 DEF Known, NoKey, ByStamp
<1>4. CASE k # NoKey
  <2>1. PICK m \in Stamps : k = ByStamp(m)
    BY <1>4 DEF Known, StampKeys
  <2>2. m # n /\ Held(history, k) = history[m] /\ Held([history EXCEPT ![n] = c], k) = [history EXCEPT ![n] = c][m]
    BY <1>2, <2>1
  <2>3. [history EXCEPT ![n] = c][m] = history[m]
    BY <2>2 DEF SourceOK
  <2> QED
    BY <1>4, <2>1, <2>2, <2>3 DEF Known, ByStamp
<1> QED
  BY <1>3, <1>4

LEMMA NewStampFits ==
    ASSUME KindsApart, SourceOK, NEW n \in Stamps, history[n] = 0, NEW c \in Contents,
           NEW p \in Processes, NEW r \in Run, Fits(p, r, history, SourceCacheKey)
    PROVE  Fits(p, r, [history EXCEPT ![n] = c], ByStamp(n))
<1> DEFINE h == [history EXCEPT ![n] = c]
<1>1. /\ r.key # ByStamp(n) /\ Known(h, r.key) /\ Knows(p, r, history, SourceCacheKey) /\ Remembers(p, r, history)
      /\ r.key # NoKey => Held(h, r.key) = Held(history, r.key)
  BY NewStamp DEF Fits
<1>2. ASSUME NEW k, Known(history, k)
      PROVE  Known(h, k) /\ (k # NoKey => Held(h, k) = Held(history, k))
  BY <1>2, NewStamp
<1> HIDE DEF h
<1>3. ~Current(r, ByStamp(n))
  BY <1>1 DEF Current
<1>4. r.at = "sidecar" => Held(h, Name(r)) = Held(history, Name(r))
  <2>1. CASE r.byText
    <3>1. ByText(r.text) \notin StampKeys
      BY DEF ByText, StampKeys, ByStamp
    <3> QED
      BY <2>1, <3>1 DEF Name, Held
  <2>2. CASE ~r.byText
    BY <1>1, <2>2 DEF Name, Knows
  <2> QED
    BY <2>1, <2>2
<1>5. PrintTrue(history, r.first) => PrintTrue(h, r.first)
  BY <1>2 DEF PrintTrue
<1>6. Remembers(p, r, h)
  BY <1>1, <1>5 DEF Remembers
<1>7. r.at = "store" /\ r.key # NoKey /\ p \notin Scans => r.text = Held(h, r.key)
  BY <1>1 DEF Knows
<1>8. r.at \in {"write", "write errors"} /\ r.key # NoKey => r.text = Held(h, r.key)
  BY <1>1 DEF Knows
<1>9. Found(history, r) => Found(h, r)
  BY <1>1 DEF Found
<1>10. r.at = "sidecar" => r.tree = Held(h, Name(r))
  BY <1>1, <1>4 DEF Knows
<1>11. /\ r.at = "look" => ~r.byText
       /\ r.at \in {"open", "sidecar", "parse"} => (r.byText <=> r.key = NoKey) /\ (r.byText => r.text \in Contents)
       /\ r.at \in {"store", "write", "write errors"} => Parsed(r)
       /\ r.at \in {"confirm", "rehash", "rehashed"} => Found(history, r) /\ (p \notin Bases => r.errs = r.tree)
       /\ r.at = "parse" => r.text \in Contents
  BY <1>1 DEF Knows
<1>12. Knows(p, r, h, ByStamp(n))
  BY <1>3, <1>7, <1>8, <1>9, <1>10, <1>11 DEF Knows
<1>13. Fits(p, r, h, ByStamp(n))
  BY <1>1, <1>6, <1>12 DEF Fits
<1> QED
  BY <1>13 DEF h

LEMMA WriteStep ==
    ASSUME KindsApart, CacheInv, NEW c \in Contents, Write(c)
    PROVE  CacheInv'
<1>1. PICK n \in Stamps : /\ history[n] = 0 /\ source' = [content |-> c, stamp |-> n]
                          /\ history' = [history EXCEPT ![n] = c] /\ UNCHANGED <<ast, errors, process>>
  BY DEF Write
<1>2. SourceOK /\ EntriesOK /\ n # 0 /\ n \in Nat
  BY DEF CacheInv, Stamps
<1>3. source'.stamp = n /\ source'.content = c /\ history' \in [Stamps -> Texts] /\ history'[n] = c
  BY <1>1, <1>2 DEF SourceOK, Texts
<1>4. SourceOK'
  BY <1>1, <1>2, <1>3 DEF SourceOK, Texts
<1>5. SourceCacheKey' = ByStamp(n)
  BY <1>2, <1>3 DEF SourceCacheKey
<1>6. EntriesOK'
  <2>1. ASSUME NEW k \in Keys
        PROVE  ast[k] \in {0, Held(history', k)} /\ errors[k] \in {0, Held(history', k)}
    <3>1. ast[k] \in {0, Held(history, k)} /\ errors[k] \in {0, Held(history, k)}
      BY <1>2 DEF EntriesOK
    <3>2. CASE k \in StampKeys
      <4>1. PICK m \in Stamps : k = ByStamp(m)
        BY <3>2 DEF StampKeys
      <4>2. Held(history, k) = history[m] /\ Held(history', k) = history'[m]
        BY <3>2, <4>1 DEF Held, ByStamp
      <4>3. history'[m] = history[m] \/ history[m] = 0
        BY <1>1, <1>2 DEF SourceOK
      <4> QED
        BY <3>1, <4>2, <4>3
    <3>3. CASE k \notin StampKeys
      BY <3>1, <3>3 DEF Held
    <3> QED
      BY <3>2, <3>3
  <2>2. (\A k \in Keys : ast[k] \in {0, Held(history, k)} /\ errors[k] \in {0, Held(history, k)})'
    BY <1>1, <2>1
  <2>3. ast' \in [Keys -> Texts] /\ errors' \in [Keys -> Texts]
    BY <1>1, <1>2 DEF EntriesOK
  <2> QED
    BY <2>2, <2>3 DEF EntriesOK
<1>7. \A p \in Processes, r \in Run :
         Fits(p, r, history, SourceCacheKey) => Fits(p, r, history', SourceCacheKey')
  BY <1>1, <1>2, <1>5, NewStampFits
<1> QED
  BY <1>1, <1>4, <1>6, <1>7, AroundStep

LEMMA DeleteStep ==
    ASSUME CacheInv, Delete
    PROVE  CacheInv'
<1>1. source' = [content |-> 0, stamp |-> 0] /\ UNCHANGED <<history, ast, errors, process>> /\ SourceOK /\ EntriesOK
  BY DEF Delete, CacheInv
<1>2. SourceOK' /\ EntriesOK'
  BY <1>1, SameEntries DEF SourceOK, Texts
<1>3. SourceCacheKey' = NoKey
  BY <1>1 DEF SourceCacheKey
<1>4. ASSUME NEW p \in Processes, NEW r \in Run, Fits(p, r, history, SourceCacheKey) PROVE Fits(p, r, history, NoKey)
  <2>1. ~Current(r, NoKey)
    BY DEF Current
  <2>2. Knows(p, r, history, NoKey)
    BY <1>4, <2>1 DEF Fits, Knows
  <2> QED
    BY <1>4, <2>2 DEF Fits
<1> QED
  BY <1>1, <1>2, <1>3, <1>4, AroundStep

-----------------------------------------------------------------------------
(* The theorem                                                             *)

LEMMA InitCache ==
    ASSUME KindsApart, Init
    PROVE  CacheInv
<1>1. SourceOK
  <2>1. 0 \notin Stamps
    BY DEF Stamps
  <2>2. source \in [content : Texts, stamp : Stamps \cup {0}] /\ history \in [Stamps -> Texts]
    BY DEF Init, Texts
  <2>3. /\ source.stamp = 0 => source.content = 0
        /\ source.stamp # 0 => source.content \in Contents /\ source.stamp \in Stamps
    BY <2>1 DEF Init
  <2> QED
    BY <2>2, <2>3 DEF Init, SourceOK
<1>2. EntriesOK
  BY DEF Init, EntriesOK, Texts
<1> DEFINE Absentee == [Idle EXCEPT !.at = "done"]
<1>3. /\ Idle \in Run /\ Idle.at = "look" /\ Idle.key = NoKey
      /\ Absentee \in Run /\ Absentee.at = "done" /\ Absentee.key = NoKey
  BY DEF Idle, Run, Places, Texts, Firsts, Prints, NoPrint
<1>4. /\ Idle.byText = FALSE /\ Idle.pass = "index" /\ Idle.judged = FALSE
      /\ Absentee.byText = FALSE /\ Absentee.pass = "index" /\ Absentee.judged = FALSE
  BY DEF Idle
<1>5. process \in [Processes -> {Idle, Absentee}]
  BY DEF Init
<1> HIDE DEF Absentee
<1>6. \A p \in Processes : Fits(p, Idle, history, SourceCacheKey) /\ Fits(p, Absentee, history, SourceCacheKey)
  BY <1>3, <1>4 DEF Fits, Knows, Remembers, Known
<1>7. process \in [Processes -> Run] /\ \A p \in Processes : Fits(p, process[p], history, SourceCacheKey)
  BY <1>3, <1>5, <1>6
<1> QED
  BY <1>1, <1>2, <1>7 DEF CacheInv

LEMMA NextCache ==
    ASSUME KindsApart, CacheInv, [Next]_vars
    PROVE  CacheInv'
<1>1. ASSUME NEW p \in Processes, LoadOrParse(p) PROVE CacheInv'
  BY <1>1, LookStep, OpenTreeStep, OpenErrorsStep, ConfirmStep, RehashStep, RehashedStep, StatStep, ReadStep,
     ParseStep, StoreStep, WriteTreeStep, WriteErrorsStep DEF LoadOrParse
<1>2. ASSUME NEW p \in Processes, Recheck(p) \/ Kill(p) PROVE CacheInv'
  BY <1>2, RecheckStep, KillStep
<1>3. ASSUME NEW k \in Keys, RemoveTree(k) \/ RemoveErrors(k) PROVE CacheInv'
  BY <1>3, RemoveStep
<1>4. ASSUME NEW c \in Contents, Write(c) PROVE CacheInv'
  BY <1>4, WriteStep
<1>5. CASE Delete
  BY <1>5, DeleteStep
<1>6. CASE UNCHANGED vars
  <2>1. SourceOK' /\ EntriesOK' /\ SourceCacheKey' = SourceCacheKey /\ UNCHANGED <<history, process>>
    BY <1>6, SameEntries DEF vars, CacheInv, SourceOK, SourceCacheKey
  <2> QED
    BY <2>1, AroundStep
<1> QED
  BY <1>1, <1>2, <1>3, <1>4, <1>5, <1>6 DEF Next

LEMMA CacheIsTrue ==
    ASSUME CacheInv
    PROVE  ParsedAsStamped
<1>1. EntriesTrue
  BY DEF CacheInv, EntriesOK, EntriesTrue, Held
<1>2. JudgedAsIndexed
  BY DEF CacheInv, Fits, Remembers, JudgedAsIndexed, Processes
<1>3. HashesMatch
  BY DEF CacheInv, Fits, Remembers, HashesMatch, Processes
<1> QED
  BY <1>1, <1>2, <1>3 DEF ParsedAsStamped

\* No process is ever given, and none ever leaves behind in the cache, the parse of another
\* text than it asked for, however many batch runs, base game runs and scans share the cache,
\* whoever writes, prunes or dies in between (workspace.rs: load_path, store_path; driver:
\* load_or_parse, validate_selected).  The hypothesis names what the numbers stand for: a
\* process is of one kind, and no content has the number of a missing file.
THEOREM ParsedAsStampedHolds ==
    ASSUME KindsApart
    PROVE  Spec => []ParsedAsStamped
<1>1. Init => CacheInv
  BY InitCache
<1>2. CacheInv /\ [Next]_vars => CacheInv'
  BY NextCache
<1>3. CacheInv => ParsedAsStamped
  BY CacheIsTrue
<1> QED
  BY <1>1, <1>2, <1>3, PTL DEF Spec
====

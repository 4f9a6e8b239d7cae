-------------------------- MODULE AccessPolicy_proofs --------------------------
(***************************************************************************)
(* Theorems about AccessPolicy, for every file system, every set of        *)
(* configurations and any number of loads, edits and links that move.      *)
(***************************************************************************)
EXTENDS AccessPolicy, SequenceFacts, TLAPS

\* The place a load has settled on: the one of --config, or a candidate before
\* which every other lacked its file at some time of the load.
Found ==
  IF explicit THEN place = "explicit"
  ELSE place \in ToSet(Candidates) /\ \A c \in Before(place) : nil \in seen[c]

\* Nothing was there: each candidate lacked its file at some time.
NothingFound == ~explicit /\ conf = DefaultConfig /\ \A c \in ToSet(Candidates) : nil \in seen[c]

\* The inductive invariant: what a load in each phase knows, and that the
\* histories hold what the files hold now.
LoadIsHonest ==
  /\ files \in [Places -> Configs \cup {nil}]
  /\ seen \in [Places -> SUBSET (Configs \cup {nil})]
  /\ Loading => \A c \in Places : files[c] \in seen[c]
  /\ lphase \in {"idle", "find", "read", "exited"} => conf = DefaultConfig
  /\ lphase \in {"read", "resolve", "repos"} => Found
  /\ lphase \in {"resolve", "repos"} => conf \in seen[place]
  /\ lphase = "build" => IF place = "none" THEN NothingFound ELSE Found /\ conf \in seen[place]

-----------------------------------------------------------------------------
\* The candidates, in their order and each once.
LEMMA CandidatesAreThree ==
  /\ xdgSet => ToSet(Candidates) = {"local", "xdg", "home"}
  /\ ~xdgSet => ToSet(Candidates) = {"local", "home"}
  /\ ToSet(Candidates) \subseteq Places \ {"explicit", "none"}
BY DEF ToSet, Candidates, Places

\* findConfigFile returns the first candidate whose file is there.
LEMMA FirstOfIsFirst ==
  ASSUME \E n \in DOMAIN Candidates : Present(Candidates[n])
  PROVE  /\ FirstOf(Candidates) \in ToSet(Candidates)
         /\ \A c \in Before(FirstOf(Candidates)) : ~Present(c)
<1> DEFINE at(c) == CHOOSE k \in DOMAIN Candidates : Candidates[k] = c
           first(c) == Present(c) /\ \A n \in DOMAIN Candidates : Present(Candidates[n]) => n >= at(c)
<1>1. \A n \in DOMAIN Candidates : at(Candidates[n]) = n
  BY DEF Candidates
<1>2. \E c \in ToSet(Candidates) : first(c)
  <2>1. PICK n \in DOMAIN Candidates :
          Present(Candidates[n]) /\ \A m \in DOMAIN Candidates : Present(Candidates[m]) => m >= n
    BY DEF Candidates
  <2>2. Candidates[n] \in ToSet(Candidates)
    BY DEF ToSet
  <2> HIDE DEF at
  <2>3. QED BY <1>1, <2>1, <2>2
<1>3. FirstOf(Candidates) \in ToSet(Candidates) /\ first(FirstOf(Candidates))
  <2> HIDE DEF at
  <2> SUFFICES (CHOOSE c \in ToSet(Candidates) : first(c)) \in ToSet(Candidates)
                 /\ first(CHOOSE c \in ToSet(Candidates) : first(c))
    BY DEF FirstOf, at
  <2> HIDE DEF first
  <2> QED BY <1>2
<1>4. ASSUME NEW c \in Before(FirstOf(Candidates)), Present(c) PROVE FALSE
  <2>1. PICK m \in DOMAIN Candidates, n \in DOMAIN Candidates :
          Candidates[m] = c /\ Candidates[n] = FirstOf(Candidates) /\ m < n
    BY <1>4 DEF Before
  <2>2. at(FirstOf(Candidates)) = n
    BY <1>1, <2>1
  <2>3. m >= n
    <3> HIDE DEF at
    <3> QED BY <1>3, <1>4, <2>1, <2>2
  <2>4. m \in Nat /\ n \in Nat
    BY DEF Candidates
  <2>5. QED BY <2>1, <2>3, <2>4
<1>5. QED BY <1>3, <1>4

-----------------------------------------------------------------------------
\* No step changes the options, so none changes what the candidates are.
LEMMA CandidatesStay ==
  ASSUME UNCHANGED input
  PROVE  explicit' = explicit /\ Candidates' = Candidates /\ \A p : Before(p)' = Before(p)
BY DEF input, Candidates, Before

\* What a step that leaves the phase and what was found alone needs: the
\* histories only grow and hold the files as they are now.
LEMMA HonestWhileHistoryGrows ==
  ASSUME LoadIsHonest, UNCHANGED <<input, lphase, place, conf>>,
         files' \in [Places -> Configs \cup {nil}],
         seen' \in [Places -> SUBSET (Configs \cup {nil})],
         \A c \in Places : seen[c] \subseteq seen'[c],
         Loading => \A c \in Places : files'[c] \in seen'[c]
  PROVE  LoadIsHonest'
<1>1. explicit' = explicit /\ Candidates' = Candidates /\ \A p : Before(p)' = Before(p)
  BY CandidatesStay
<1>2. ToSet(Candidates) \subseteq Places /\ "explicit" \in Places /\ "none" \notin ToSet(Candidates)
  BY CandidatesAreThree DEF Places
<1>3. \A p : Before(p) \subseteq ToSet(Candidates)
  BY DEF Before
<1>4. Found => Found'
  BY <1>1, <1>2, <1>3 DEF Found
<1>5. NothingFound => NothingFound'
  BY <1>1, <1>2 DEF NothingFound, DefaultConfig
<1>6. Found => place \in Places /\ (conf \in seen[place] => conf' \in seen'[place'])
  BY <1>2 DEF Found
<1>7. Loading' = Loading
  BY DEF Loading
<1> HIDE DEF Found, NothingFound
<1>8. QED BY <1>4, <1>5, <1>6, <1>7 DEF LoadIsHonest, DefaultConfig

\* A load that fails leaves no file found and the defaults as its content.
LEMMA FailIsHonest ==
  ASSUME LoadIsHonest, Fail PROVE LoadIsHonest'
<1>1. lphase' \in {"idle", "exited"} /\ conf' = DefaultConfig' /\ files' = files
  BY DEF Fail, Unloaded, DefaultConfig
<1>2. seen' \in [Places -> SUBSET (Configs \cup {nil})]
  BY DEF Fail, Unloaded, NothingSeen
<1>3. QED BY <1>1, <1>2 DEF LoadIsHonest, Loading

LEMMA InitIsHonest == Init => LoadIsHonest
BY DEF Init, LoadIsHonest, Loading, NothingSeen

\* Every step keeps the load honest.
LEMMA NextIsHonest == LoadIsHonest /\ [Next]_vars => LoadIsHonest'
<1> SUFFICES ASSUME LoadIsHonest, [Next]_vars PROVE LoadIsHonest'
  OBVIOUS
<1>1. CASE StartLoad
  <2>1. UNCHANGED <<files, conf>> /\ lphase' = "find" /\ lphase = "idle"
    BY <1>1 DEF StartLoad
  <2>2. seen' = [c \in Places |-> {files[c]}]
    BY <1>1 DEF StartLoad
  <2>3. seen' \in [Places -> SUBSET (Configs \cup {nil})] /\ \A c \in Places : files'[c] \in seen'[c]
    BY <2>1, <2>2 DEF LoadIsHonest
  <2>4. QED BY <2>1, <2>3 DEF LoadIsHonest, DefaultConfig
<1>2. CASE FindExplicit
  <2>1. CASE Fail
    BY <2>1, FailIsHonest
  <2>2. CASE place' = "explicit" /\ UNCHANGED <<conf, patterns, repos>> /\ GoOn("read")
    <3>1. lphase' = "read" /\ lphase = "find" /\ UNCHANGED <<explicit, files, seen, conf>> /\ explicit
      BY <1>2, <2>2 DEF FindExplicit, GoOn, input
    <3>2. Found'
      BY <2>2, <3>1 DEF Found
    <3>3. QED BY <3>1, <3>2 DEF LoadIsHonest, Loading, DefaultConfig
  <2>3. QED BY <1>2, <2>1, <2>2 DEF FindExplicit
<1>3. CASE FindFirst
  <2>1. lphase = "find" /\ ~explicit /\ UNCHANGED <<input, files, seen, conf>>
    BY <1>3 DEF FindFirst, GoOn
  <2>2. explicit' = explicit /\ Candidates' = Candidates /\ \A p : Before(p)' = Before(p)
    BY <2>1, CandidatesStay
  <2>3. \A c \in ToSet(Candidates) : c \in Places /\ (~Present(c) => nil \in seen[c])
    BY <2>1, CandidatesAreThree DEF LoadIsHonest, Loading, Present
  <2>4. CASE /\ \E n \in DOMAIN Candidates : Present(Candidates[n])
             /\ place' = FirstOf(Candidates) /\ GoOn("read")
    <3>1. place' \in ToSet(Candidates) /\ \A c \in Before(place') : ~Present(c)
      BY <2>4, FirstOfIsFirst
    <3>2. Before(place') \subseteq ToSet(Candidates)
      BY DEF Before
    <3>3. Found'
      BY <2>1, <2>2, <2>3, <3>1, <3>2 DEF Found
    <3>4. lphase' = "read"
      BY <2>4 DEF GoOn
    <3>5. QED BY <2>1, <3>3, <3>4 DEF LoadIsHonest, Loading, DefaultConfig
  <2>5. CASE /\ \A n \in DOMAIN Candidates : ~Present(Candidates[n])
             /\ place' = "none" /\ GoOn("build")
    <3>1. \A c \in ToSet(Candidates) : nil \in seen[c]
      BY <2>3, <2>5 DEF ToSet
    <3>2. conf' = DefaultConfig'
      BY <2>1 DEF LoadIsHonest, DefaultConfig
    <3>3. NothingFound'
      BY <2>1, <2>2, <3>1, <3>2 DEF NothingFound
    <3>4. lphase' = "build"
      BY <2>5 DEF GoOn
    <3>5. QED BY <2>1, <2>5, <3>3, <3>4 DEF LoadIsHonest, Loading
  <2>6. QED BY <1>3, <2>4, <2>5 DEF FindFirst
<1>4. CASE ReadConfig
  <2>1. CASE Fail
    BY <2>1, FailIsHonest
  <2>2. CASE conf' = files[place] /\ UNCHANGED <<place, patterns, repos>> /\ GoOn("resolve")
    <3>1. lphase' = "resolve" /\ lphase = "read" /\ UNCHANGED <<input, files, seen, place>>
      BY <1>4, <2>2 DEF ReadConfig, GoOn
    <3>2. Found /\ Found'
      BY <3>1, CandidatesStay DEF LoadIsHonest, Found
    <3>3. place \in Places
      BY <3>2, CandidatesAreThree DEF Found, Places
    <3>4. conf' \in seen'[place']
      BY <2>2, <3>1, <3>3 DEF LoadIsHonest, Loading
    <3>5. QED BY <3>1, <3>2, <3>4 DEF LoadIsHonest, Loading
  <2>3. QED BY <1>4, <2>1, <2>2 DEF ReadConfig
<1>5. CASE ResolvePatterns \/ ResolveRepos
  <2>1. /\ lphase \in {"resolve", "repos"} /\ lphase' \in {"repos", "build"}
        /\ UNCHANGED <<input, files, seen, place, conf>>
    BY <1>5 DEF ResolvePatterns, ResolveRepos, GoOn
  <2>2. Found /\ Found'
    BY <2>1, CandidatesStay DEF LoadIsHonest, Found
  <2>3. place' # "none"
    BY <2>1, <2>2, CandidatesAreThree DEF Found
  <2>4. QED BY <2>1, <2>2, <2>3 DEF LoadIsHonest, Loading
<1>6. CASE Build
  <2>1. CASE Fail
    BY <2>1, FailIsHonest
  <2>2. CASE lphase' = "idle" /\ Unloaded /\ UNCHANGED files
    <3>1. seen' \in [Places -> SUBSET (Configs \cup {nil})] /\ conf' = DefaultConfig'
      BY <2>2 DEF Unloaded, NothingSeen, DefaultConfig
    <3>2. QED BY <2>2, <3>1 DEF LoadIsHonest, Loading
  <2>3. QED BY <1>6, <2>1, <2>2 DEF Build
<1>7. CASE EditConfig
  <2>1. PICK c \in Places, x \in Configs \cup {nil} :
          /\ files' = [files EXCEPT ![c] = x]
          /\ seen' = IF Loading THEN [seen EXCEPT ![c] = @ \cup {x}] ELSE seen
    BY <1>7 DEF EditConfig
  <2>2. UNCHANGED <<input, lphase, place, conf>>
    BY <1>7 DEF EditConfig, load
  <2>3. /\ files' \in [Places -> Configs \cup {nil}]
        /\ seen' \in [Places -> SUBSET (Configs \cup {nil})]
        /\ \A d \in Places : seen[d] \subseteq seen'[d]
    BY <2>1 DEF LoadIsHonest
  <2>4. Loading => \A d \in Places : files'[d] \in seen'[d]
    BY <2>1 DEF LoadIsHonest
  <2>5. QED BY <2>2, <2>3, <2>4, HonestWhileHistoryGrows
<1>8. CASE Relink \/ (\E p \in Requests : Check(p)) \/ UNCHANGED vars
  <2>1. UNCHANGED <<input, lphase, place, conf>> /\ UNCHANGED <<files, seen>>
    BY <1>8 DEF Relink, Check, vars, load
  <2>2. QED BY <2>1, HonestWhileHistoryGrows DEF LoadIsHonest
<1>9. QED BY <1>1, <1>2, <1>3, <1>4, <1>5, <1>6, <1>7, <1>8 DEF Next, Load

-----------------------------------------------------------------------------
\* The rules a step installs, under the invariant.
LEMMA InstallsOneFile ==
  ASSUME LoadIsHonest, [Next]_vars, rules' # rules
  PROVE  LET before == IF rules'.from = "none" THEN ToSet(Candidates) ELSE Before(rules'.from)
         IN /\ explicit => rules'.from = "explicit"
            /\ \A c \in before : ~explicit => nil \in seen[c]
            /\ IF rules'.from = "none" THEN rules'.read = DefaultConfig
               ELSE rules'.read \in seen[rules'.from] /\ rules'.from \in ToSet(Candidates) \cup {"explicit"}
<1>1. Build /\ ~Fail
  BY DEF Next, Load, StartLoad, FindExplicit, FindFirst, ReadConfig, ResolvePatterns, ResolveRepos,
         Build, GoOn, Fail, EditConfig, Relink, Check, vars
<1>2. lphase = "build" /\ rules'.from = place /\ rules'.read = conf
  BY <1>1 DEF Build
<1>3. CASE place = "none"
  BY <1>2, <1>3 DEF LoadIsHonest, NothingFound
<1>4. CASE place # "none"
  BY <1>2, <1>4 DEF LoadIsHonest, Found
<1>5. QED BY <1>3, <1>4

\* Whatever happens to the files while they are loaded, the rules in force are
\* one content of one file, the first that could have been there (Load,
\* findConfigFile): for every configuration, file system and number of edits.
THEOREM RulesAreOneFile == Spec => RulesComeFromOneFile
<1>1. LoadIsHonest /\ [Next]_vars =>
        [ rules' # rules =>
            LET before == IF rules'.from = "none" THEN ToSet(Candidates) ELSE Before(rules'.from)
            IN /\ explicit => rules'.from = "explicit"
               /\ \A c \in before : ~explicit => nil \in seen[c]
               /\ IF rules'.from = "none" THEN rules'.read = DefaultConfig
                  ELSE rules'.read \in seen[rules'.from] /\ rules'.from \in ToSet(Candidates) \cup {"explicit"} ]_vars
  <2>1. CASE rules' = rules
    BY <2>1
  <2>2. CASE rules' # rules
    BY <2>2, InstallsOneFile
  <2>3. QED BY <2>1, <2>2
<1>2. QED BY <1>1, InitIsHonest, NextIsHonest, PTL DEF Spec, RulesComeFromOneFile

-----------------------------------------------------------------------------
\* Where a path leads.

\* The path that is left once the first link of a path has been followed.
FirstStop(path) == CHOOSE n \in Stops(path) : \A m \in Stops(path) : n <= m
UpToStop(path) == SubSeq(path, 1, FirstStop(path))
Onward(path) == tree[UpToStop(path)].to \o SubSeq(path, FirstStop(path) + 1, Len(path))

\* The recursion of Eval.
Followed(f, links, path) ==
  IF Stops(path) = {} THEN <<TRUE, path>>
  ELSE IF UpToStop(path) \in DOMAIN tree /\ links # 0 THEN f[links - 1][Onward(path)] ELSE Failed
Follows(f, l) == f = [links \in 0..l |-> [path \in PathSet |-> Followed(f, links, path)]]

LEMMA FollowsExists ==
  ASSUME NEW l \in Nat
  PROVE  \E f : Follows(f, l)
<1> DEFINE Q == {m \in Nat : \E f : Follows(f, m)}
           body(h, k) == [path \in PathSet |-> Followed(h, k, path)]
<1>0. \A g, h : body(g, 0) = body(h, 0)
  BY DEF Followed
<1>00. ASSUME NEW g, NEW h, NEW k, k # 0, g[k - 1] = h[k - 1] PROVE body(g, k) = body(h, k)
  BY <1>00 DEF Followed
<1>1. 0 \in Q
  <2> DEFINE f == [k \in 0..0 |-> body(<<>>, 0)]
  <2>1. \A k \in 0..0 : k = 0
    OBVIOUS
  <2> HIDE DEF body
  <2>2. f = [k \in 0..0 |-> body(f, k)]
    BY <1>0, <2>1
  <2>3. Follows(f, 0)
    BY <2>2 DEF Follows, body
  <2>4. QED BY <2>3
<1>2. ASSUME NEW m \in Nat, m \in Q PROVE m + 1 \in Q
  <2>1. PICK f : Follows(f, m)
    BY <1>2
  <2> DEFINE last == body(f, m + 1)
             g == [k \in 0..(m + 1) |-> IF k = m + 1 THEN last ELSE f[k]]
  <2>2. \A k \in 0..m : k \in 0..(m + 1) /\ k # m + 1
    OBVIOUS
  <2>3. \A k \in 0..(m + 1) : k = m + 1 \/ (k \in 0..m /\ (k # 0 => k - 1 \in 0..m))
    OBVIOUS
  <2>4. \A k \in 0..m : f[k] = body(f, k)
    BY <2>1 DEF Follows
  <2>5. (m + 1) - 1 = m /\ m + 1 \in 0..(m + 1) /\ m + 1 # 0 /\ m \in 0..m
    OBVIOUS
  <2> HIDE DEF last, body
  <2>6. g[m + 1] = last /\ \A k \in 0..m : g[k] = f[k]
    BY <2>2, <2>5
  <2>7. g = [k \in 0..(m + 1) |-> g[k]]
    OBVIOUS
  <2> HIDE DEF g
  <2>8. last = body(g, m + 1)
    BY <1>00, <2>5, <2>6 DEF last
  <2>9. ASSUME NEW k \in 0..m PROVE f[k] = body(g, k)
    <3>1. CASE k = 0
      BY <1>0, <2>4, <3>1
    <3>2. CASE k # 0
      BY <1>00, <2>2, <2>3, <2>4, <2>6, <3>2
    <3>3. QED BY <3>1, <3>2
  <2>10. \A k \in 0..(m + 1) : g[k] = body(g, k)
    BY <2>3, <2>6, <2>8, <2>9
  <2>11. g = [k \in 0..(m + 1) |-> body(g, k)]
    BY <2>7, <2>10
  <2>12. Follows(g, m + 1)
    BY <2>11 DEF Follows, body
  <2>13. QED BY <2>12
<1>3. Nat \subseteq Q
  <2> HIDE DEF Q
  <2> QED BY <1>1, <1>2, InductionOnNat
<1>4. QED BY <1>3

LEMMA EvalFollows ==
  ASSUME NEW links \in 0..maxLinks, NEW path \in PathSet
  PROVE  Eval[links][path] = Followed(Eval, links, path)
<1> DEFINE f == CHOOSE f : Follows(f, maxLinks)
<1>1. Follows(f, maxLinks)
  BY FollowsExists, AccessBoundsAssumption
<1>2. Eval = f
  BY DEF Eval, Follows, Followed, FirstStop, UpToStop, Onward
<1> HIDE DEF f
<1>3. f[links] = [p \in PathSet |-> Followed(f, links, p)]
  BY <1>1 DEF Follows
<1>4. QED BY <1>2, <1>3

\* A path that has no link in it and leads to a node.
Canonical(path) == path \in PathSet /\ Stops(path) = {}

LEMMA CanonicalIsThere ==
  ASSUME tree \in Trees, NEW path, Canonical(path)
  PROVE  /\ path \in DOMAIN tree /\ tree[path].kind # "link"
         /\ \A links \in 0..maxLinks : Eval[links][path] = <<TRUE, path>>
<1>1. path \in Seq(Names) /\ path \in PathSet
  BY DEF Canonical, PathSet
<1>2. path = <<>> => path \in DOMAIN tree /\ tree[path].kind # "link"
  BY TreesAssumption
<1>3. ASSUME path # <<>> PROVE path \in DOMAIN tree /\ tree[path].kind # "link"
  <2>1. Len(path) \in 1..Len(path) /\ Len(path) \in 0..Len(path)
    BY <1>1, <1>3, EmptySeq
  <2>2. SubSeq(path, 1, Len(path)) = path
    BY <1>1, <2>1, BeginningOfSeq
  <2>3. Len(path) \notin Stops(path)
    BY DEF Canonical
  <2>4. QED BY <2>1, <2>2, <2>3 DEF Stops
<1>4. \A links \in 0..maxLinks : Eval[links][path] = <<TRUE, path>>
  BY <1>1, EvalFollows DEF Canonical, Followed
<1>5. QED BY <1>2, <1>3, <1>4

LEMMA PartsOfCanonical ==
  ASSUME NEW path, Canonical(path), NEW k \in 0..Len(path)
  PROVE  Canonical(SubSeq(path, 1, k))
<1> DEFINE part == SubSeq(path, 1, k)
<1>1. path \in Seq(Names) /\ Len(path) \in Nat /\ \A n \in 1..k : n \in 1..Len(path) /\ n \in 0..k
  BY LenProperties DEF Canonical, PathSet
<1>2. part \in Seq(Names) /\ Len(part) = k /\ \A n \in 0..k : SubSeq(part, 1, n) = SubSeq(path, 1, n)
  BY <1>1, BeginningOfSeq
<1> HIDE DEF part
<1>3. \A n \in Stops(part) : n \in Stops(path)
  BY <1>1, <1>2 DEF Stops
<1>4. QED BY <1>2, <1>3 DEF Canonical, PathSet, part

\* The first place where a path stops; before it there is no other.
LEMMA FirstStopIsFirst ==
  ASSUME NEW path \in PathSet, Stops(path) # {}
  PROVE  /\ FirstStop(path) \in Stops(path) /\ FirstStop(path) \in 1..Len(path)
         /\ \A m \in Stops(path) : FirstStop(path) <= m
<1>1. Stops(path) \subseteq Nat /\ Stops(path) \subseteq 1..Len(path)
  BY LenProperties DEF Stops, PathSet
<1>2. \E n \in Stops(path) : \A m \in Stops(path) : n <= m
  BY <1>1, SmallestOfNat
<1> DEFINE first(n) == \A m \in Stops(path) : n <= m
<1>3. \E n \in Stops(path) : first(n)
  BY <1>2
<1>4. FirstStop(path) = CHOOSE n \in Stops(path) : first(n)
  BY DEF FirstStop
<1> HIDE DEF first
<1>5. FirstStop(path) \in Stops(path) /\ first(FirstStop(path))
  BY <1>3, <1>4
<1>6. QED BY <1>1, <1>5 DEF first

LEMMA OnwardIsPath ==
  ASSUME tree \in Trees, NEW path \in PathSet, Stops(path) # {}, UpToStop(path) \in DOMAIN tree
  PROVE  /\ tree[UpToStop(path)].to \in PathSet /\ Onward(path) \in PathSet
         /\ SubSeq(path, FirstStop(path) + 1, Len(path)) \in PathSet
<1>1. FirstStop(path) \in 1..Len(path) /\ Len(path) \in Nat
  BY FirstStopIsFirst, LenProperties DEF PathSet
<1>2. \A i \in (FirstStop(path) + 1)..Len(path) : path[i] \in Names
  BY <1>1, ElementOfSeq DEF PathSet
<1>3. SubSeq(path, FirstStop(path) + 1, Len(path)) \in Seq(Names)
  BY <1>1, <1>2, SubSeqProperties
<1>4. tree[UpToStop(path)].to \in Seq(Names)
  BY TreesAssumption DEF PathSet
<1>5. QED BY <1>3, <1>4, ConcatProperties DEF Onward, PathSet

\* What a path leads to has no link in it, and leads to itself.
LEMMA LeadsToCanonical ==
  ASSUME tree \in Trees, NEW links \in 0..maxLinks, NEW path \in PathSet
  PROVE  \/ Eval[links][path] = Failed
         \/ \E real : Eval[links][path] = <<TRUE, real>> /\ Canonical(real)
<1> DEFINE ends(k, p) == \/ Eval[k][p] = Failed
                         \/ \E real : Eval[k][p] = <<TRUE, real>> /\ Canonical(real)
           Q == {k \in Nat : k <= maxLinks => \A p \in PathSet : ends(k, p)}
<1>1. ASSUME NEW k \in 0..maxLinks, NEW p \in PathSet, k # 0 => \A q \in PathSet : ends(k - 1, q)
      PROVE  ends(k, p)
  <2>1. Eval[k][p] = Followed(Eval, k, p)
    BY EvalFollows
  <2>2. CASE Stops(p) = {}
    BY <2>1, <2>2 DEF Followed, Canonical
  <2>3. CASE Stops(p) # {} /\ UpToStop(p) \in DOMAIN tree /\ k # 0
    <3>1. Eval[k][p] = Eval[k - 1][Onward(p)]
      BY <2>1, <2>3 DEF Followed
    <3>2. Onward(p) \in PathSet
      BY <2>3, OnwardIsPath
    <3> HIDE DEF ends
    <3>3. ends(k - 1, Onward(p))
      BY <1>1, <2>3, <3>2
    <3>4. QED BY <3>1, <3>3 DEF ends
  <2>4. CASE Stops(p) # {} /\ ~(UpToStop(p) \in DOMAIN tree /\ k # 0)
    BY <2>1, <2>4 DEF Followed
  <2>5. QED BY <2>2, <2>3, <2>4
<1> HIDE DEF ends
<1>2. 0 \in Q
  BY <1>1, AccessBoundsAssumption
<1>3. ASSUME NEW k \in Nat, k \in Q PROVE k + 1 \in Q
  <2>1. SUFFICES ASSUME k + 1 <= maxLinks PROVE \A p \in PathSet : ends(k + 1, p)
    OBVIOUS
  <2>2. k + 1 \in 0..maxLinks /\ (k + 1) - 1 = k /\ k <= maxLinks
    BY <2>1, AccessBoundsAssumption
  <2>3. QED BY <1>1, <1>3, <2>2
<1>4. Nat \subseteq Q
  <2> HIDE DEF Q
  <2> QED BY <1>2, <1>3, InductionOnNat
<1>5. links \in Nat /\ links <= maxLinks
  BY AccessBoundsAssumption
<1>6. QED BY <1>4, <1>5 DEF ends

\* A longer path stops first where its beginning does, and goes on as it does.
LEMMA MoreStopsThere ==
  ASSUME NEW path \in PathSet, NEW more \in PathSet, Stops(path) # {}
  PROVE  /\ Stops(path \o more) # {} /\ UpToStop(path \o more) = UpToStop(path)
         /\ SubSeq(path \o more, FirstStop(path \o more) + 1, Len(path \o more)) =
              SubSeq(path, FirstStop(path) + 1, Len(path)) \o more
<1> DEFINE long == path \o more
           n == FirstStop(path)
<1>1. /\ path \in Seq(Names) /\ more \in Seq(Names) /\ Len(path) \in Nat /\ Len(more) \in Nat
      /\ long \in PathSet /\ long \in Seq(Names) /\ Len(long) = Len(path) + Len(more)
  BY LenProperties, ConcatProperties DEF PathSet
<1>2. \A m \in 1..Len(path) : SubSeq(long, 1, m) = SubSeq(path, 1, m)
  <2>1. ASSUME NEW m \in 1..Len(path) PROVE SubSeq(long, 1, m) = SubSeq(path, 1, m)
    <3>1. 1 \in 1..Len(path)
      BY <1>1
    <3>2. QED BY <1>1, <3>1, SubSeqOfConcat1
  <2>2. QED BY <2>1
<1>3. n \in Stops(path) /\ n \in 1..Len(path) /\ \A m \in Stops(path) : n <= m
  BY FirstStopIsFirst
<1> HIDE DEF long, n
<1>4. \A m \in 1..Len(path) : m \in Stops(long) <=> m \in Stops(path)
  <2>1. \A m \in 1..Len(path) : m \in 1..Len(long)
    BY <1>1
  <2>2. QED BY <1>2, <2>1 DEF Stops
<1>5. Stops(long) # {}
  BY <1>3, <1>4
<1>6. FirstStop(long) \in Stops(long) /\ FirstStop(long) \in 1..Len(long) /\ FirstStop(long) <= n
  BY <1>1, <1>3, <1>4, <1>5, FirstStopIsFirst
<1>7. FirstStop(long) \in 1..Len(path)
  BY <1>1, <1>3, <1>6
<1>8. FirstStop(long) = n
  BY <1>1, <1>3, <1>4, <1>6, <1>7
<1>9. UpToStop(long) = UpToStop(path)
  BY <1>2, <1>3, <1>8 DEF UpToStop, n
<1> DEFINE start == SubSeq(path, 1, n)
           rest == SubSeq(path, n + 1, Len(path))
           onward == SubSeq(long, n + 1, Len(long))
<1>10. start \o rest = path
  <2>1. /\ 1 \in 1..(Len(path) + 1) /\ n \in (1 - 1)..Len(path) /\ Len(path) \in n..Len(path)
    BY <1>1, <1>3
  <2>2. start \o rest = SubSeq(path, 1, Len(path))
    BY <1>1, <2>1, ConcatAdjacentSubSeq
  <2>3. QED BY <1>1, <2>2, SubSeqFull
<1>11. start \o onward = long
  <2>1. /\ 1 \in 1..(Len(long) + 1) /\ n \in (1 - 1)..Len(long) /\ Len(long) \in n..Len(long)
    BY <1>1, <1>3
  <2>2. SubSeq(long, 1, n) \o onward = SubSeq(long, 1, Len(long))
    BY <1>1, <2>1, ConcatAdjacentSubSeq
  <2>3. SubSeq(long, 1, n) = start
    BY <1>2, <1>3
  <2>4. QED BY <1>1, <2>2, <2>3, SubSeqFull
<1>12. start \in Seq(Names) /\ rest \in Seq(Names) /\ onward \in Seq(Names)
  <2>1. /\ \A k \in 1..n : path[k] \in Names
        /\ \A k \in (n + 1)..Len(path) : path[k] \in Names
        /\ \A k \in (n + 1)..Len(long) : long[k] \in Names
    <3>1. \A k \in 1..Len(path) : path[k] \in Names
      BY <1>1, ElementOfSeq
    <3>2. \A k \in 1..Len(long) : long[k] \in Names
      BY <1>1, ElementOfSeq
    <3>3. QED BY <1>1, <1>3, <3>1, <3>2
  <2>2. n \in Int /\ n + 1 \in Int /\ Len(path) \in Int /\ Len(long) \in Int /\ 1 \in Int
    BY <1>1, <1>3
  <2>3. QED BY <2>1, <2>2, SubSeqProperties
<1> HIDE DEF start, rest, onward
<1>13. start \o (rest \o more) = start \o onward
  <2>1. (start \o rest) \o more = start \o (rest \o more)
    <3>1. start \in Seq(Names) /\ rest \in Seq(Names) /\ more \in Seq(Names)
      BY <1>1, <1>12
    <3>2. QED BY <3>1, ConcatAssociative
  <2>2. QED BY <1>10, <1>11, <2>1 DEF long
<1>14. rest \o more = onward
  <2>1. rest \o more \in Seq(Names)
    BY <1>1, <1>12, ConcatProperties
  <2>2. QED BY <1>12, <1>13, <2>1, ConcatSimplifications
<1>15. QED BY <1>5, <1>8, <1>9, <1>14 DEF rest, onward, long, n

LEMMA MoreGoesOnward ==
  ASSUME tree \in Trees, NEW path \in PathSet, NEW more \in PathSet,
         Stops(path) # {}, UpToStop(path) \in DOMAIN tree
  PROVE  Onward(path \o more) = Onward(path) \o more
<1> DEFINE to == tree[UpToStop(path)].to
           rest == SubSeq(path, FirstStop(path) + 1, Len(path))
<1>1. to \in Seq(Names) /\ rest \in Seq(Names) /\ more \in Seq(Names)
  BY OnwardIsPath DEF PathSet
<1>2. Onward(path) = to \o rest /\ Onward(path \o more) = to \o (rest \o more)
  BY MoreStopsThere DEF Onward
<1> HIDE DEF to, rest
<1>3. (to \o rest) \o more = to \o (rest \o more)
  BY <1>1, ConcatAssociative
<1>4. QED BY <1>2, <1>3

LEMMA LeadingIsNotFailing == \A real : <<TRUE, real>> # Failed
<1>1. \A real : <<TRUE, real>>[1] = TRUE
  OBVIOUS
<1>2. Failed[1] = FALSE
  BY DEF Failed
<1>3. QED BY <1>1, <1>2, Zenon

\* Where a path leads, more of it leads from there.
LEMMA MoreLeadsFromThere ==
  ASSUME tree \in Trees, NEW links \in 0..maxLinks, NEW path \in PathSet, NEW more \in PathSet,
         NEW real, Eval[links][path] = <<TRUE, real>>
  PROVE  \E k \in 0..maxLinks : Eval[links][path \o more] = Eval[k][real \o more]
<1> DEFINE same(k, p) ==
             Eval[k][p] = <<TRUE, real>> => \E j \in 0..maxLinks : Eval[k][p \o more] = Eval[j][real \o more]
           Q == {k \in Nat : k <= maxLinks => \A p \in PathSet : same(k, p)}
<1>1. ASSUME NEW k \in 0..maxLinks, NEW p \in PathSet, k # 0 => \A q \in PathSet : same(k - 1, q)
      PROVE  same(k, p)
  <2> SUFFICES ASSUME Eval[k][p] = <<TRUE, real>>
               PROVE  \E j \in 0..maxLinks : Eval[k][p \o more] = Eval[j][real \o more]
    OBVIOUS
  <2>1. Eval[k][p] = Followed(Eval, k, p)
    BY EvalFollows
  <2>2. CASE Stops(p) = {}
    <3>1. real = p
      BY <1>1, <2>1, <2>2 DEF Followed
    <3>2. QED BY <3>1
  <2>3. CASE Stops(p) # {} /\ UpToStop(p) \in DOMAIN tree /\ k # 0
    <3>1. Eval[k][p] = Eval[k - 1][Onward(p)]
      BY <2>1, <2>3 DEF Followed
    <3>2. Onward(p) \in PathSet
      BY <2>3, OnwardIsPath
    <3>3. p \o more \in PathSet
      BY ConcatProperties DEF PathSet
    <3>4. /\ Stops(p \o more) # {} /\ UpToStop(p \o more) = UpToStop(p)
          /\ SubSeq(p \o more, FirstStop(p \o more) + 1, Len(p \o more)) =
               SubSeq(p, FirstStop(p) + 1, Len(p)) \o more
      BY <2>3, MoreStopsThere
    <3>5. Eval[k][p \o more] = Followed(Eval, k, p \o more)
      BY <3>3, EvalFollows
    <3>6. Onward(p \o more) = Onward(p) \o more
      BY <2>3, MoreGoesOnward
    <3>7. Eval[k][p \o more] = Eval[k - 1][Onward(p) \o more]
      BY <2>3, <3>4, <3>5, <3>6 DEF Followed
    <3>8. Eval[k - 1][Onward(p)] = <<TRUE, real>>
      BY <3>1
    <3>9. same(k - 1, Onward(p))
      <4> HIDE DEF same
      <4>1. QED BY <1>1, <2>3, <3>2
    <3>10. QED BY <3>7, <3>8, <3>9
  <2>4. CASE Stops(p) # {} /\ ~(UpToStop(p) \in DOMAIN tree /\ k # 0)
    <3>1. Eval[k][p] = Failed
      BY <2>1, <2>4 DEF Followed
    <3>2. QED BY <1>1, <3>1, LeadingIsNotFailing
  <2>5. QED BY <2>2, <2>3, <2>4
<1> HIDE DEF same
<1>2. 0 \in Q
  BY <1>1, AccessBoundsAssumption
<1>3. ASSUME NEW k \in Nat, k \in Q PROVE k + 1 \in Q
  <2>1. SUFFICES ASSUME k + 1 <= maxLinks, NEW p \in PathSet PROVE same(k + 1, p)
    OBVIOUS
  <2>2. k + 1 \in 0..maxLinks /\ (k + 1) - 1 = k /\ k <= maxLinks
    BY <2>1, AccessBoundsAssumption
  <2>3. QED BY <1>1, <1>3, <2>1, <2>2
<1>4. Nat \subseteq Q
  <2> HIDE DEF Q
  <2> QED BY <1>2, <1>3, InductionOnNat
<1>5. links \in Nat /\ links <= maxLinks
  BY AccessBoundsAssumption
<1>6. same(links, path)
  BY <1>4, <1>5
<1>7. QED BY <1>6 DEF same

LEMMA RealIsCanonical ==
  ASSUME tree \in Trees, NEW path \in PathSet, Exists(path)
  PROVE  Eval[maxLinks][path] = <<TRUE, Real(path)>> /\ Canonical(Real(path))
<1>1. maxLinks \in 0..maxLinks
  BY AccessBoundsAssumption
<1>2. Eval[maxLinks][path] # Failed
  <2>1. Failed[1] = FALSE
    BY DEF Failed
  <2>2. QED BY <2>1, Zenon DEF Exists
<1>3. PICK real : Eval[maxLinks][path] = <<TRUE, real>> /\ Canonical(real)
  BY <1>1, <1>2, LeadsToCanonical
<1>4. Real(path) = real
  BY <1>3 DEF Real
<1>5. QED BY <1>3, <1>4

LEMMA ExistsIfLeads ==
  ASSUME NEW path, NEW real, Eval[maxLinks][path] = <<TRUE, real>>
  PROVE  Exists(path) /\ Real(path) = real
BY DEF Exists, Real

LEMMA CanonicalIsReal ==
  ASSUME tree \in Trees, NEW path, Canonical(path)
  PROVE  Exists(path) /\ Real(path) = path
<1>1. maxLinks \in 0..maxLinks
  BY AccessBoundsAssumption
<1>2. Eval[maxLinks][path] = <<TRUE, path>>
  BY <1>1, CanonicalIsThere
<1>3. QED BY <1>2, ExistsIfLeads

LEMMA RootIsCanonical == Canonical(<<>>)
<1>1. <<>> \in Seq(Names) /\ Len(<<>>) = 0
  BY EmptySeq
<1>2. Stops(<<>>) = {}
  BY <1>1 DEF Stops
<1>3. QED BY <1>1, <1>2 DEF Canonical, PathSet

\* What is canonical behind a path that exists shows that more of it exists.
LEMMA OneMoreExists ==
  ASSUME tree \in Trees, NEW dir \in PathSet, NEW m \in 1..Len(dir), m # Len(dir),
         Exists(SubSeq(dir, 1, m)),
         Canonical(Real(SubSeq(dir, 1, m)) \o SubSeq(dir, m + 1, Len(dir)))
  PROVE  Exists(SubSeq(dir, 1, m + 1))
<1> DEFINE start == SubSeq(dir, 1, m)
           real == Real(start)
           rest == SubSeq(dir, m + 1, Len(dir))
           x == dir[m + 1]
<1>1. /\ dir \in Seq(Names) /\ Len(dir) \in Nat /\ m \in 0..Len(dir) /\ m + 1 \in 1..Len(dir) /\ m \in Nat
      /\ x \in Names
  <2>1. dir \in Seq(Names)
    BY DEF PathSet
  <2>2. Len(dir) \in Nat
    BY <2>1, LenProperties
  <2>3. m + 1 \in 1..Len(dir)
    BY <2>2
  <2>4. QED BY <2>1, <2>2, <2>3, ElementOfSeq
<1>2. start \in Seq(Names)
  BY <1>1, BeginningOfSeq
<1>3. Eval[maxLinks][start] = <<TRUE, real>> /\ Canonical(real)
  BY <1>2, RealIsCanonical DEF PathSet
<1>4. real \in Seq(Names) /\ Len(real) \in Nat
  BY <1>3, LenProperties DEF Canonical, PathSet
<1>5. rest \in Seq(Names) /\ Len(rest) # 0 /\ Len(rest) \in Nat /\ rest[1] = x
  <2>1. \A i \in (m + 1)..Len(dir) : dir[i] \in Names
    <3>1. \A i \in 1..Len(dir) : dir[i] \in Names
      BY <1>1, ElementOfSeq
    <3>2. QED BY <1>1, <3>1
  <2>2. m + 1 \in Int /\ Len(dir) \in Int
    BY <1>1
  <2>3. /\ rest \in Seq(Names) /\ Len(rest) = IF m + 1 <= Len(dir) THEN Len(dir) - (m + 1) + 1 ELSE 0
        /\ \A i \in 1..(Len(dir) - (m + 1) + 1) : rest[i] = dir[(m + 1) + i - 1]
    BY <2>1, <2>2, SubSeqProperties
  <2>4. 1 \in 1..(Len(dir) - (m + 1) + 1) /\ (m + 1) + 1 - 1 = m + 1
    BY <1>1
  <2>5. Len(rest) = Len(dir) - m
    BY <1>1, <2>3
  <2>6. Len(dir) - m \in Nat /\ Len(dir) - m # 0
    BY <1>1
  <2>7. rest[1] = x
    BY <2>3, <2>4
  <2> HIDE DEF rest, x
  <2>8. QED BY <2>3, <2>5, <2>6, <2>7
<1>6. <<x>> \in Seq(Names) /\ Len(<<x>>) = 1 /\ <<x>>[1] = x
  BY <1>1
<1> HIDE DEF start, real, rest, x
<1>7. SubSeq(real \o rest, 1, Len(real) + 1) = real \o <<x>>
  <2> DEFINE all == real \o rest
             part == SubSeq(all, 1, Len(real) + 1)
             one == real \o <<x>>
  <2>1. /\ all \in Seq(Names) /\ Len(all) = Len(real) + Len(rest)
        /\ \A i \in 1..(Len(real) + Len(rest)) : all[i] = IF i <= Len(real) THEN real[i] ELSE rest[i - Len(real)]
    BY <1>4, <1>5, ConcatProperties
  <2>2. /\ one \in Seq(Names) /\ Len(one) = Len(real) + Len(<<x>>)
        /\ \A i \in 1..(Len(real) + Len(<<x>>)) : one[i] = IF i <= Len(real) THEN real[i] ELSE <<x>>[i - Len(real)]
    BY <1>4, <1>6, ConcatProperties
  <2> HIDE DEF all, one
  <2>3. Len(real) + 1 \in 0..Len(all)
    BY <1>4, <1>5, <2>1
  <2>4. part \in Seq(Names) /\ Len(part) = Len(real) + 1 /\ \A i \in 1..(Len(real) + 1) : part[i] = all[i]
    BY <2>1, <2>3, BeginningOfSeq
  <2> HIDE DEF part
  <2>5. ASSUME NEW i \in 1..(Len(real) + 1) PROVE part[i] = one[i]
    <3>1. i \in 1..(Len(real) + Len(rest)) /\ i \in 1..(Len(real) + Len(<<x>>))
      BY <1>4, <1>5, <1>6
    <3>2. i <= Len(real) \/ i - Len(real) = 1
      BY <1>4
    <3>3. QED BY <1>5, <1>6, <2>1, <2>2, <2>4, <3>1, <3>2
  <2>6. Len(one) = Len(real) + 1
    BY <1>6, <2>2
  <2>7. QED BY <2>2, <2>4, <2>5, <2>6, SeqEqual DEF part, one, all
<1>8. Canonical(real \o <<x>>)
  <2>1. Canonical(real \o rest)
    BY DEF real, rest, start
  <2>2. Len(real \o rest) = Len(real) + Len(rest)
    BY <1>4, <1>5, ConcatProperties
  <2>3. Len(real) + 1 \in 0..Len(real \o rest)
    BY <1>4, <1>5, <2>2
  <2>4. QED BY <1>7, <2>1, <2>3, PartsOfCanonical
<1>9. PICK k \in 0..maxLinks : Eval[maxLinks][start \o <<x>>] = Eval[k][real \o <<x>>]
  <2>1. maxLinks \in 0..maxLinks /\ start \in PathSet /\ <<x>> \in PathSet
    BY <1>2, <1>6, AccessBoundsAssumption DEF PathSet
  <2>2. QED BY <1>3, <2>1, MoreLeadsFromThere
<1>10. Eval[maxLinks][start \o <<x>>] = <<TRUE, real \o <<x>>>>
  BY <1>8, <1>9, CanonicalIsThere
<1>11. SubSeq(dir, 1, m + 1) = start \o <<x>>
  <2>1. 1 \in 1..Len(dir) /\ m + 1 \in 1..Len(dir)
    BY <1>1
  <2>2. SubSeq(dir, 1, m + 1) = SubSeq(dir, 1, (m + 1) - 1) \o <<dir[m + 1]>>
    BY <1>1, <2>1, SubSeqRecursiveSecond
  <2>3. (m + 1) - 1 = m
    BY <1>1
  <2>4. QED BY <2>2, <2>3 DEF start, x
<1>12. QED BY <1>10, <1>11, ExistsIfLeads

-----------------------------------------------------------------------------
\* What a pattern matches is what it stands for.

\* Resolving a pattern replaces its directory by where it leads, if it does;
\* if not, by a path no node is at or below.
LEMMA PatternIsResolved ==
  ASSUME tree \in Trees, NEW p \in Patterns, ~p.doubled
  PROVE  LET q == ResolvePatternPrefix(p)
         IN /\ q \in Patterns /\ q.floating = p.floating /\ q.tail = p.tail /\ q.name = p.name
            /\ ~p.floating =>
                 /\ Exists(p.dir) => q.dir = Real(p.dir) /\ (q.doubled <=> p.dir # <<>> /\ Real(p.dir) = <<>>)
                 /\ ~Exists(p.dir) => ~Canonical(q.dir)
<1> DEFINE dir == p.dir
           existing == {n \in 1..Len(dir) : Exists(SubSeq(dir, 1, n))}
           longest == CHOOSE n \in existing : \A m \in existing : m <= n
           real == Real(SubSeq(dir, 1, longest))
           rest == SubSeq(dir, longest + 1, Len(dir))
           q == ResolvePatternPrefix(p)
<1>1. /\ dir \in PathSet /\ dir \in Seq(Names) /\ p.floating \in BOOLEAN /\ p.doubled = FALSE
      /\ p.tail \in {"**", "*", "name"} /\ p.name \in Names
  BY DEF Patterns, PathSet
<1>2. q = IF p.floating \/ existing = {} THEN p ELSE [p EXCEPT !.dir = real \o rest, !.doubled = real = <<>>]
  BY DEF ResolvePatternPrefix
<1>3. Len(dir) \in Nat /\ (dir # <<>> => Len(dir) \in 1..Len(dir)) /\ Len(dir) \in 0..Len(dir)
  BY <1>1, LenProperties, EmptySeq
<1>4. SubSeq(dir, 1, Len(dir)) = dir
  BY <1>1, <1>3, BeginningOfSeq
<1>5. Exists(<<>>) /\ Real(<<>>) = <<>>
  BY RootIsCanonical, CanonicalIsReal
<1>6. CASE p.floating
  BY <1>1, <1>2, <1>6
<1>7. CASE ~p.floating /\ existing = {}
  <2>1. q = p
    BY <1>2, <1>7
  <2>2. Exists(dir) => dir = <<>>
    <3>1. \A n \in 1..Len(dir) : ~Exists(SubSeq(dir, 1, n))
      BY <1>7
    <3>2. QED BY <1>3, <1>4, <3>1
  <2>3. ~Exists(dir) => ~Canonical(dir)
    BY CanonicalIsReal
  <2>4. ASSUME Exists(dir) PROVE dir = Real(dir) /\ (p.doubled <=> dir # <<>> /\ Real(dir) = <<>>)
    BY <1>1, <1>5, <2>2, <2>4
  <2> HIDE DEF existing
  <2>5. QED BY <2>1, <2>3, <2>4
<1>8. CASE ~p.floating /\ existing # {}
  <2>1. longest \in existing /\ \A m \in existing : m <= longest
    <3>1. \A n \in existing : n \in Nat /\ n <= Len(dir)
      BY <1>3
    <3> DEFINE most(n) == \A m \in existing : m <= n
    <3> HIDE DEF existing
    <3>2. \E n \in existing : most(n)
      BY <1>3, <1>8, <3>1, LargestOfNat
    <3>3. longest = CHOOSE n \in existing : most(n)
      OBVIOUS
    <3> HIDE DEF most, longest
    <3>4. longest \in existing /\ most(longest)
      BY <3>2, <3>3
    <3>5. QED BY <3>4 DEF most
  <2>2. longest \in 1..Len(dir) /\ Exists(SubSeq(dir, 1, longest))
    BY <2>1
  <2>3. \A n \in 1..Len(dir) : Exists(SubSeq(dir, 1, n)) => n <= longest
    BY <2>1
  <2> HIDE DEF existing, longest
  <2>4. SubSeq(dir, 1, longest) \in PathSet
    <3>1. longest \in 0..Len(dir)
      BY <1>3, <2>2
    <3>2. QED BY <1>1, <3>1, BeginningOfSeq DEF PathSet
  <2>5. Canonical(real)
    BY <2>2, <2>4, RealIsCanonical
  <2>6. real \in Seq(Names)
    BY <2>5 DEF Canonical, PathSet
  <2>7. rest \in Seq(Names) /\ (longest = Len(dir) => rest = <<>>)
    <3>1. \A i \in 1..Len(dir) : dir[i] \in Names
      BY <1>1, ElementOfSeq
    <3>2. longest + 1 \in Int /\ Len(dir) \in Int /\ \A i \in (longest + 1)..Len(dir) : dir[i] \in Names
      BY <1>3, <2>2, <3>1
    <3>3. rest \in Seq(Names)
      BY <3>2, SubSeqProperties
    <3>4. longest = Len(dir) => Len(dir) < longest + 1
      BY <1>3
    <3>5. longest = Len(dir) => rest = <<>>
      BY <3>2, <3>4, SubSeqEmpty
    <3>6. QED BY <3>3, <3>5
  <2>8. real \o rest \in Seq(Names)
    BY <2>6, <2>7, ConcatProperties
  <2>9. q = [p EXCEPT !.dir = real \o rest, !.doubled = real = <<>>]
    BY <1>2, <1>8
  <2>10. Exists(dir) <=> longest = Len(dir)
    <3>1. dir # <<>>
      BY <2>2, EmptySeq
    <3>2. Exists(dir) => Len(dir) <= longest
      BY <1>3, <1>4, <2>3, <3>1
    <3>3. longest = Len(dir) => Exists(dir)
      BY <1>4, <2>2
    <3>4. QED BY <1>3, <2>2, <3>2, <3>3
  <2>11. ASSUME Exists(dir) PROVE real \o rest = Real(dir) /\ real = Real(dir) /\ dir # <<>>
    <3>1. SubSeq(dir, 1, longest) = dir
      BY <1>4, <2>10, <2>11
    <3>2. rest = <<>> /\ real = Real(dir)
      BY <2>7, <2>10, <2>11, <3>1
    <3>3. real \o <<>> = real
      BY <2>6, ConcatEmptySeq
    <3>4. dir # <<>>
      BY <2>2, EmptySeq
    <3> HIDE DEF real, rest
    <3>5. QED BY <3>2, <3>3, <3>4
  <2>12. ASSUME ~Exists(dir), Canonical(real \o rest) PROVE FALSE
    <3>1. longest # Len(dir)
      BY <2>10, <2>12
    <3>2. Exists(SubSeq(dir, 1, longest + 1))
      BY <1>1, <2>2, <2>12, <3>1, OneMoreExists
    <3>3. longest + 1 \in 1..Len(dir) /\ ~(longest + 1 <= longest)
      BY <1>3, <2>2, <3>1
    <3>4. QED BY <2>3, <3>2, <3>3
  <2> HIDE DEF real, rest, q, dir
  <2>13. /\ q \in Patterns /\ q.floating = p.floating /\ q.tail = p.tail /\ q.name = p.name
         /\ q.dir = real \o rest /\ (q.doubled <=> real = <<>>)
    BY <2>8, <2>9 DEF Patterns, PathSet
  <2>14. QED BY <2>11, <2>12, <2>13 DEF q, dir
<1>9. QED BY <1>1, <1>6, <1>7, <1>8

\* A node, or what its name is in lowercase, and the paths it is at or below.
LEMMA PrefixOfCanonical ==
  ASSUME NEW dir \in PathSet, NEW path, Canonical(path), IsPrefix(dir, path)
  PROVE  Canonical(dir)
<1>1. path \in Seq(Names) /\ dir \in Seq(Names)
  BY DEF Canonical, PathSet
<1>2. PICK k \in 0..Len(path) : dir = SubSeq(path, 1, k)
  BY <1>1, PrefixIsBeginning
<1>3. QED BY <1>2, PartsOfCanonical

LEMMA FrontIsCanonical ==
  ASSUME NEW path, Canonical(path), path # <<>>
  PROVE  Canonical(Front(path))
<1>1. path \in Seq(Names)
  BY DEF Canonical, PathSet
<1>2. Len(path) - 1 \in 0..Len(path) /\ Front(path) = SubSeq(path, 1, Len(path) - 1)
  BY <1>1, LastIsBehindFront
<1>3. QED BY <1>2, PartsOfCanonical

\* x is of a node's directory; what a pattern for all below a directory that
\* is not there means is said of nodes alone.
LEMMA MatchesAsItStands ==
  ASSUME tree \in Trees, NEW p \in Patterns, ~p.doubled, NEW x \in PathSet,
         x = <<>> \/ Canonical(Front(x)),
         p.floating \/ p.tail # "**" \/ Exists(p.dir) \/ Canonical(x)
  PROVE  Match(ResolvePatternPrefix(p), x) <=> Stands(p, x)
<1> DEFINE q == ResolvePatternPrefix(p)
<1>1. /\ q \in Patterns /\ q.floating = p.floating /\ q.tail = p.tail /\ q.name = p.name
      /\ ~p.floating =>
           /\ Exists(p.dir) => q.dir = Real(p.dir) /\ (q.doubled <=> p.dir # <<>> /\ Real(p.dir) = <<>>)
           /\ ~Exists(p.dir) => ~Canonical(q.dir)
  BY PatternIsResolved
<1> HIDE DEF q
<1>2. p.floating \in BOOLEAN /\ q.doubled \in BOOLEAN /\ q.dir \in PathSet /\ p.name \in Names /\ p.dir \in PathSet
      /\ p.tail \in {"**", "*", "name"}
  BY <1>1 DEF Patterns
<1>3. CASE p.floating
  BY <1>1, <1>3 DEF Match, Stands, q
<1>4. CASE ~p.floating /\ Exists(p.dir)
  <2>1. q.dir = Real(p.dir)
    BY <1>1, <1>4
  <2>2. CASE p.dir # <<>> /\ Real(p.dir) = <<>>
    <3>1. Stands(p, x) <=> p.tail = "**" /\ x = <<>>
      <4>1. IsPrefix(<<>>, <<>>)
        BY EmptySeq DEF IsPrefix
      <4>2. QED BY <1>4, <2>2, <4>1 DEF Stands
    <3>2. Match(q, x) <=> p.tail = "**" /\ x = <<>>
      BY <1>1, <1>4, <2>1, <2>2 DEF Match
    <3>3. QED BY <3>1, <3>2 DEF q
  <2>3. CASE ~(p.dir # <<>> /\ Real(p.dir) = <<>>)
    <3>1. ~q.doubled
      BY <1>1, <1>4, <2>3
    <3>2. CASE p.tail = "**"
      BY <1>1, <1>4, <2>1, <2>3, <3>1, <3>2 DEF Match, Stands, q
    <3>3. CASE p.tail = "*"
      BY <1>1, <1>4, <2>1, <2>3, <3>1, <3>3 DEF Match, Stands, q
    <3>4. CASE p.tail = "name"
      BY <1>1, <1>4, <2>1, <2>3, <3>1, <3>4 DEF Match, Stands, q
    <3>5. QED BY <1>2, <3>2, <3>3, <3>4
  <2>4. QED BY <2>2, <2>3
<1>5. CASE ~p.floating /\ ~Exists(p.dir)
  <2>1. ~Stands(p, x)
    BY <1>5 DEF Stands
  <2>2. ~Canonical(q.dir) /\ q.dir # <<>>
    BY <1>1, <1>5, RootIsCanonical
  <2>3. p.tail = "**" => ~IsPrefix(q.dir, x)
    BY <1>2, <1>5, <2>2, PrefixOfCanonical
  <2>4. x # <<>> => Front(x) # q.dir
    BY <2>2
  <2>5. x # Append(q.dir, p.name)
    <3>1. Append(q.dir, p.name) # <<>> /\ Front(Append(q.dir, p.name)) = q.dir
      BY <1>2, FrontOfAppend DEF PathSet
    <3>2. QED BY <2>2, <3>1
  <2>6. ~Match(q, x)
    BY <1>1, <1>2, <1>5, <2>2, <2>3, <2>4, <2>5 DEF Match
  <2>7. QED BY <2>1, <2>6 DEF q
<1>6. QED BY <1>3, <1>4, <1>5

-----------------------------------------------------------------------------
\* A verdict is what the configuration means.

Plain == {p \in Patterns : ~p.doubled}
IsConfig(c) == c \in Configs \cup {DefaultConfig}

LEMMA ConfigIsTyped ==
  ASSUME NEW c, IsConfig(c)
  PROVE  /\ c.allow \in Seq(Plain) /\ c.deny \in Seq(Plain) /\ c.creds \in Seq(Plain) /\ c.globs \in Seq(Plain)
         /\ c.pathReadable \in BOOLEAN
<1>1. CASE c \in Configs
  BY <1>1, ConfigsAssumption DEF Plain
<1>2. CASE c = DefaultConfig
  BY <1>2, EmptySeq DEF DefaultConfig
<1>3. QED BY <1>1, <1>2 DEF IsConfig

LEMMA MatchAnyOfSet ==
  ASSUME NEW ps, NEW x
  PROVE  MatchAny(ps, x) <=> \E p \in ToSet(ps) : Match(p, x)
BY DEF MatchAny, ToSet

\* The function of a sequence's elements is a sequence of their images.
LEMMA ResolvedOneByOne ==
  ASSUME tree \in Trees, NEW ps \in Seq(Plain)
  PROVE  /\ Resolve(ps) \in Seq(Patterns) /\ ToSet(Resolve(ps)) = {ResolvePatternPrefix(p) : p \in ToSet(ps)}
         /\ Resolve(ps) = <<>> <=> ps = <<>>
<1>1. Len(ps) \in Nat /\ DOMAIN ps = 1..Len(ps) /\ \A n \in 1..Len(ps) : ps[n] \in Plain
  BY LenProperties, ElementOfSeq
<1>2. \A n \in 1..Len(ps) : ResolvePatternPrefix(ps[n]) \in Patterns
  BY <1>1, PatternIsResolved DEF Plain
<1>3. Resolve(ps) = [n \in 1..Len(ps) |-> ResolvePatternPrefix(ps[n])]
  BY <1>1 DEF Resolve
<1>4. Resolve(ps) \in Seq(Patterns)
  BY <1>1, <1>2, <1>3
<1>5. ToSet(Resolve(ps)) = {ResolvePatternPrefix(p) : p \in ToSet(ps)}
  BY <1>1, <1>3 DEF ToSet
<1>6. Resolve(ps) = <<>> <=> ps = <<>>
  <2>1. Resolve(ps) = <<>> <=> ToSet(Resolve(ps)) = {}
    BY <1>4, SetOfSeq
  <2>2. ps = <<>> <=> ToSet(ps) = {}
    BY SetOfSeq
  <2>3. ToSet(Resolve(ps)) = {} <=> ToSet(ps) = {}
    BY <1>5
  <2>4. QED BY <2>1, <2>2, <2>3
<1>7. QED BY <1>4, <1>5, <1>6

LEMMA ResolvedMatchAsTheyStand ==
  ASSUME tree \in Trees, NEW ps \in Seq(Plain), NEW x \in PathSet, x = <<>> \/ Canonical(Front(x)),
         \A n \in DOMAIN ps : ps[n].floating \/ ps[n].tail # "**" \/ Exists(ps[n].dir) \/ Canonical(x)
  PROVE  MatchAny(Resolve(ps), x) <=> StandsAny(ps, x)
<1>1. \A n \in DOMAIN ps : ps[n] \in Patterns /\ ~ps[n].doubled
  BY LenProperties, ElementOfSeq DEF Plain
<1>2. \A n \in DOMAIN ps : Match(ResolvePatternPrefix(ps[n]), x) <=> Stands(ps[n], x)
  BY <1>1, MatchesAsItStands
<1>3. DOMAIN Resolve(ps) = DOMAIN ps /\ \A n \in DOMAIN ps : Resolve(ps)[n] = ResolvePatternPrefix(ps[n])
  BY DEF Resolve
<1>4. QED BY <1>2, <1>3 DEF MatchAny, StandsAny

LEMMA MatchAnyOfTwo ==
  ASSUME NEW s \in Seq(Patterns), NEW t \in Seq(Patterns), NEW x
  PROVE  MatchAny(s \o t, x) <=> MatchAny(s, x) \/ MatchAny(t, x)
<1>1. ToSet(s \o t) = ToSet(s) \cup ToSet(t)
  BY SetOfConcat
<1>2. QED BY <1>1, MatchAnyOfSet

LEMMA SensitiveAreTyped ==
  /\ SensitivePatterns \in Seq(Patterns)
  /\ \A x : MatchAny(SensitivePatterns, x) <=> x # <<>> /\ Last(x) \in ToSet(SecretNames)
<1>1. /\ SecretNames \in Seq(Names) /\ Len(SecretNames) \in Nat /\ DOMAIN SecretNames = 1..Len(SecretNames)
      /\ \A n \in 1..Len(SecretNames) : SecretNames[n] \in Names
  BY NamesAssumption, LenProperties, ElementOfSeq
<1>2. <<>> \in PathSet
  BY EmptySeq DEF PathSet
<1> DEFINE at(n) == [floating |-> TRUE, doubled |-> FALSE, dir |-> <<>>, tail |-> "name", name |-> SecretNames[n]]
<1>3. \A n \in 1..Len(SecretNames) : at(n) \in Patterns
  BY <1>1, <1>2 DEF Patterns
<1>4. \A n, x : Match(at(n), x) <=> x # <<>> /\ Last(x) = SecretNames[n]
  BY DEF Match
<1>5. SensitivePatterns = [n \in 1..Len(SecretNames) |-> at(n)]
  BY <1>1 DEF SensitivePatterns
<1> HIDE DEF at
<1>6. SensitivePatterns \in Seq(Patterns)
  BY <1>1, <1>3, <1>5
<1>7. \A x : MatchAny(SensitivePatterns, x) <=> x # <<>> /\ Last(x) \in ToSet(SecretNames)
  BY <1>1, <1>4, <1>5 DEF MatchAny, ToSet
<1>8. QED BY <1>6, <1>7

\* $PATH allows what is directly in each of its directories but the root.
LEMMA PathAllowIsTyped ==
  ASSUME tree \in Trees
  PROVE  /\ PathAllowPatterns \in Seq(Patterns)
         /\ PathAllowPatterns = <<>> <=> \A n \in DOMAIN PathDirs : ~IsDir(PathDirs[n])
         /\ \A x : MatchAny(PathAllowPatterns, x) <=> InPath(x)
<1> DEFINE at(n) == IF IsDir(PathDirs[n]) THEN <<OneLevel(ResolvePath(PathDirs[n]))>> ELSE <<>>
           all == [n \in 1..Len(PathDirs) |-> at(n)]
<1>1. /\ PathDirs \in Seq(PathSet) /\ Len(PathDirs) \in Nat /\ DOMAIN PathDirs = 1..Len(PathDirs)
      /\ \A n \in 1..Len(PathDirs) : PathDirs[n] \in PathSet
  BY NamesAssumption, LenProperties, ElementOfSeq
<1>2. NameOrder[1] \in Names
  BY NamesAssumption, EmptySeq, ElementOfSeq
<1>3. ASSUME NEW n \in 1..Len(PathDirs), IsDir(PathDirs[n])
      PROVE  ResolvePath(PathDirs[n]) = Real(PathDirs[n]) /\ Real(PathDirs[n]) \in PathSet
             /\ OneLevel(Real(PathDirs[n])) \in Patterns
  <2>1. Exists(PathDirs[n])
    BY <1>3 DEF IsDir
  <2>2. Canonical(Real(PathDirs[n]))
    BY <1>1, <2>1, RealIsCanonical
  <2>3. QED BY <1>2, <2>1, <2>2 DEF ResolvePath, Canonical, OneLevel, Patterns
<1>4. \A d, x : Match(OneLevel(d), x) <=> x # <<>> /\ d # <<>> /\ Front(x) = d
  BY DEF Match, OneLevel
<1>5. \A n \in 1..Len(PathDirs) :
         /\ at(n) \in Seq(Patterns)
         /\ ToSet(at(n)) = IF IsDir(PathDirs[n]) THEN {OneLevel(Real(PathDirs[n]))} ELSE {}
  <2>1. ASSUME NEW n \in 1..Len(PathDirs)
        PROVE  /\ at(n) \in Seq(Patterns)
               /\ ToSet(at(n)) = IF IsDir(PathDirs[n]) THEN {OneLevel(Real(PathDirs[n]))} ELSE {}
    <3>1. CASE IsDir(PathDirs[n])
      <4>1. at(n) = <<OneLevel(Real(PathDirs[n]))>> /\ OneLevel(Real(PathDirs[n])) \in Patterns
        BY <1>3, <3>1
      <4> HIDE DEF at
      <4>2. QED BY <3>1, <4>1, SetOfFew
    <3>2. CASE ~IsDir(PathDirs[n])
      BY <3>2, SetOfFew, EmptySeq
    <3>3. QED BY <3>1, <3>2
  <2>2. QED BY <2>1
<1>6. PathAllowPatterns = FlattenSeq(all)
  BY <1>1 DEF PathAllowPatterns
<1> HIDE DEF at
<1>7. all \in Seq(Seq(Patterns)) /\ Len(all) = Len(PathDirs) /\ \A n \in 1..Len(PathDirs) : all[n] = at(n)
  BY <1>1, <1>5
<1> HIDE DEF all
<1>8. /\ PathAllowPatterns \in Seq(Patterns)
      /\ ToSet(PathAllowPatterns) = UNION {ToSet(all[n]) : n \in 1..Len(all)}
  BY <1>6, <1>7, SetOfFlatten
<1>9. \A p : p \in ToSet(PathAllowPatterns) <=>
               \E n \in 1..Len(PathDirs) : IsDir(PathDirs[n]) /\ p = OneLevel(Real(PathDirs[n]))
  <2>1. \A p : p \in ToSet(PathAllowPatterns) <=> \E n \in 1..Len(PathDirs) : p \in ToSet(all[n])
    BY <1>7, <1>8
  <2>2. \A n \in 1..Len(PathDirs) :
           ToSet(all[n]) = IF IsDir(PathDirs[n]) THEN {OneLevel(Real(PathDirs[n]))} ELSE {}
    BY <1>5, <1>7
  <2>3. QED BY <2>1, <2>2
<1>10. PathAllowPatterns = <<>> <=> \A n \in DOMAIN PathDirs : ~IsDir(PathDirs[n])
  <2>1. PathAllowPatterns = <<>> <=> ToSet(PathAllowPatterns) = {}
    BY <1>8, SetOfSeq
  <2>2. QED BY <1>1, <1>9, <2>1
<1>11. ASSUME NEW x PROVE MatchAny(PathAllowPatterns, x) <=> InPath(x)
  BY <1>1, <1>4, <1>9, MatchAnyOfSet DEF InPath
<1>12. QED BY <1>8, <1>10, <1>11

-----------------------------------------------------------------------------
\* The rules of a configuration, resolved as the links of the tree are now.
ReposRight(c, rs) ==
  \A r \in DOMAIN rs :
    IF r \in DOMAIN c.repos THEN rs[r] = ResolvePath(c.repos[r])
    ELSE /\ IsDir(rs[r])
         /\ \E n \in DOMAIN c.globs, x \in Names :
              RepoName[x] = r /\ IsDir(Append(c.globs[n].dir, x))
                /\ Real(Append(c.globs[n].dir, x)) = rs[r]
AllowOf(c) == Resolve(c.allow) \o (IF c.pathReadable THEN PathAllowPatterns ELSE <<>>)
RulesRight(r) ==
  /\ IsConfig(r.read)
  /\ r.sensitive = SensitivePatterns \o Resolve(r.read.creds)
  /\ r.deny = Resolve(r.read.deny) /\ r.allow = AllowOf(r.read)
  /\ r.cwdOnly <=> AllowOf(r.read) = <<>>
  /\ r.cwdAllow = ResolvePath(cwd)
  /\ ReposRight(r.read, r.repos)

\* A name in lowercase stays in its directory.
LEMMA LowercaseStaysInDirectory ==
  ASSUME NEW node, Canonical(node), NEW x \in {node, WithLowercaseBasename(node)}
  PROVE  x \in PathSet /\ (x = <<>> \/ Canonical(Front(x)))
<1>1. node \in PathSet /\ node \in Seq(Names)
  BY DEF Canonical, PathSet
<1>2. CASE node = <<>>
  BY <1>1, <1>2 DEF WithLowercaseBasename
<1>3. CASE node # <<>>
  <2>1. Front(node) \in Seq(Names) /\ Last(node) \in Names
    BY <1>1, <1>3, LastIsBehindFront
  <2>2. Canonical(Front(node))
    BY <1>3, FrontIsCanonical
  <2>3. Lower[Last(node)] \in Names
    BY <2>1, NamesAssumption
  <2>4. WithLowercaseBasename(node) = Append(Front(node), Lower[Last(node)])
    BY <1>3 DEF WithLowercaseBasename
  <2>5. WithLowercaseBasename(node) \in Seq(Names) /\ Front(WithLowercaseBasename(node)) = Front(node)
    BY <2>1, <2>3, <2>4, FrontOfAppend
  <2>6. QED BY <1>1, <2>2, <2>5 DEF PathSet
<1>4. QED BY <1>2, <1>3

LEMMA AllowIsTyped ==
  ASSUME tree \in Trees, NEW c, IsConfig(c)
  PROVE  /\ AllowOf(c) \in Seq(Patterns)
         /\ AllowOf(c) = <<>> <=> NoAllowRules(c)
         /\ \A x : MatchAny(AllowOf(c), x) <=> MatchAny(Resolve(c.allow), x) \/ (c.pathReadable /\ InPath(x))
<1> DEFINE own == Resolve(c.allow)
           path == IF c.pathReadable THEN PathAllowPatterns ELSE <<>>
<1>1. own \in Seq(Patterns) /\ (own = <<>> <=> c.allow = <<>>) /\ c.pathReadable \in BOOLEAN
  BY ConfigIsTyped, ResolvedOneByOne
<1>2. /\ path \in Seq(Patterns)
      /\ path = <<>> <=> (c.pathReadable => \A n \in DOMAIN PathDirs : ~IsDir(PathDirs[n]))
      /\ \A x : MatchAny(path, x) <=> c.pathReadable /\ InPath(x)
  <2>1. CASE c.pathReadable
    BY <2>1, PathAllowIsTyped
  <2>2. CASE ~c.pathReadable
    <3>1. path = <<>> /\ <<>> \in Seq(Patterns) /\ DOMAIN <<>> = {}
      BY <2>2, EmptySeq
    <3>2. QED BY <2>2, <3>1 DEF MatchAny
  <2>3. QED BY <1>1, <2>1, <2>2
<1>3. AllowOf(c) = own \o path
  BY DEF AllowOf
<1> HIDE DEF own, path
<1>4. own \o path \in Seq(Patterns) /\ \A x : MatchAny(own \o path, x) <=> MatchAny(own, x) \/ MatchAny(path, x)
  BY <1>1, <1>2, SetOfConcat, MatchAnyOfTwo
<1>5. own \o path = <<>> <=> own = <<>> /\ path = <<>>
  <2>1. ToSet(own \o path) = ToSet(own) \cup ToSet(path)
    BY <1>1, <1>2, SetOfConcat
  <2>2. own \o path = <<>> <=> ToSet(own \o path) = {}
    BY <1>4, SetOfSeq
  <2>3. own = <<>> <=> ToSet(own) = {}
    BY <1>1, SetOfSeq
  <2>4. path = <<>> <=> ToSet(path) = {}
    BY <1>2, SetOfSeq
  <2>5. QED BY <2>1, <2>2, <2>3, <2>4
<1>6. AllowOf(c) = <<>> <=> NoAllowRules(c)
  BY <1>1, <1>2, <1>3, <1>5 DEF NoAllowRules
<1>7. QED BY <1>2, <1>3, <1>4, <1>6 DEF own

\* Without rules that allow, what is below the working directory is allowed.
LEMMA WorkingDirectoryIsMeant ==
  ASSUME tree \in Trees, NEW node, Canonical(node)
  PROVE  LET dir == ResolvePath(cwd)
         IN node = dir \/ (dir # <<>> /\ IsPrefix(dir, node)) <=> InCwd(node)
<1>1. cwd \in PathSet /\ node \in Seq(Names)
  BY NamesAssumption DEF Canonical, PathSet
<1>2. IsPrefix(node, node)
  <2>1. Len(node) \in 0..Len(node) /\ node = SubSeq(node, 1, Len(node))
    BY <1>1, LenProperties, BeginningOfSeq
  <2>2. QED BY <1>1, <2>1, PrefixIsBeginning
<1>3. CASE Exists(cwd)
  BY <1>2, <1>3 DEF ResolvePath, InCwd
<1>4. CASE ~Exists(cwd)
  <2>1. ~Canonical(cwd)
    BY <1>4, CanonicalIsReal
  <2>2. node # cwd /\ ~IsPrefix(cwd, node)
    BY <1>1, <2>1, PrefixOfCanonical
  <2>3. QED BY <1>4, <2>2 DEF ResolvePath, InCwd
<1>5. QED BY <1>3, <1>4

LEMMA VerdictIsMeant ==
  ASSUME tree \in Trees, RulesRight(rules), NEW path \in PathSet, Exists(path), CredsAreThere(rules.read)
  PROVE  Verdict(path) = Meant(rules.read, Real(path))
<1> DEFINE c == rules.read
           node == Real(path)
<1>1. Canonical(node) /\ node \in PathSet /\ ResolvePath(path) = node
  BY RealIsCanonical DEF ResolvePath, Canonical
<1>2. IsConfig(c)
  BY DEF RulesRight
<1>3. c.allow \in Seq(Plain) /\ c.deny \in Seq(Plain) /\ c.creds \in Seq(Plain) /\ c.pathReadable \in BOOLEAN
  BY <1>2, ConfigIsTyped
<1>4. /\ rules.sensitive = SensitivePatterns \o Resolve(c.creds) /\ rules.deny = Resolve(c.deny)
      /\ rules.allow = AllowOf(c) /\ (rules.cwdOnly <=> AllowOf(c) = <<>>) /\ rules.cwdAllow = ResolvePath(cwd)
  BY DEF RulesRight
<1>5. \A n \in DOMAIN c.creds : c.creds[n].floating \/ c.creds[n].tail # "**" \/ Exists(c.creds[n].dir)
  BY DEF CredsAreThere
<1> HIDE DEF c, node
<1>6. ASSUME NEW x \in {node, WithLowercaseBasename(node)}
      PROVE  MatchAny(rules.sensitive, x) <=>
               (x # <<>> /\ Last(x) \in ToSet(SecretNames)) \/ StandsAny(c.creds, x)
  <2>1. x \in PathSet /\ (x = <<>> \/ Canonical(Front(x)))
    BY <1>1, LowercaseStaysInDirectory
  <2>2. MatchAny(Resolve(c.creds), x) <=> StandsAny(c.creds, x)
    BY <1>3, <1>5, <2>1, ResolvedMatchAsTheyStand
  <2>3. Resolve(c.creds) \in Seq(Patterns)
    BY <1>3, ResolvedOneByOne
  <2>4. QED BY <1>4, <2>2, <2>3, SensitiveAreTyped, MatchAnyOfTwo
<1>7. MatchesSensitive(node) <=> Secret(c, node)
  BY <1>6 DEF MatchesSensitive, Secret
<1>8. node = <<>> \/ Canonical(Front(node))
  BY <1>1, FrontIsCanonical
<1>9. MatchAny(rules.deny, node) <=> StandsAny(c.deny, node)
  BY <1>1, <1>3, <1>4, <1>8, ResolvedMatchAsTheyStand
<1>10. MatchAny(Resolve(c.allow), node) <=> StandsAny(c.allow, node)
  BY <1>1, <1>3, <1>8, ResolvedMatchAsTheyStand
<1>11. MatchAny(AllowOf(c), node) <=> StandsAny(c.allow, node) \/ (c.pathReadable /\ InPath(node))
  BY <1>2, <1>10, AllowIsTyped
<1>12. MatchesAllow(node) <=> Allowed(c, node)
  <2>1. CASE rules.cwdOnly
    <3>1. NoAllowRules(c) /\ AllowOf(c) = <<>>
      BY <1>2, <1>4, <2>1, AllowIsTyped
    <3>2. ~MatchAny(AllowOf(c), node)
      BY <3>1, EmptySeq DEF MatchAny
    <3>3. Allowed(c, node) <=> InCwd(node)
      BY <1>11, <3>1, <3>2 DEF Allowed
    <3>4. QED BY <1>1, <1>4, <2>1, <3>3, WorkingDirectoryIsMeant DEF MatchesAllow
  <2>2. CASE ~rules.cwdOnly
    <3>1. ~NoAllowRules(c)
      BY <1>2, <1>4, <2>2, AllowIsTyped
    <3>2. QED BY <1>4, <1>11, <2>2, <3>1 DEF MatchesAllow, Allowed
  <2>3. QED BY <2>1, <2>2
<1>13. QED BY <1>1, <1>7, <1>9, <1>12 DEF Verdict, Meant, c, node

\* Each repository that is found is a directory of the name it goes by.
LEMMA ReposAreRight ==
  ASSUME tree \in Trees, IsConfig(conf)
  PROVE  ReposRight(conf, ExpandRepos([r \in DOMAIN conf.repos |-> ResolvePath(conf.repos[r])], AllMatches))
<1> DEFINE own == [r \in DOMAIN conf.repos |-> ResolvePath(conf.repos[r])]
           found == AllMatches
           rs == ExpandRepos(own, found)
           each == [g \in DOMAIN conf.globs |-> Matches(conf.globs[g])]
           at(glob, n) == Append(glob.dir, NameOrder[n])
           one(glob, n) == IF IsDir(at(glob, n)) /\ (glob.tail = "name" => NameOrder[n] = glob.name)
                           THEN <<at(glob, n)>> ELSE <<>>
<1>1. /\ conf.globs \in Seq(Plain) /\ DOMAIN conf.globs = 1..Len(conf.globs) /\ Len(conf.globs) \in Nat
      /\ \A g \in DOMAIN conf.globs : conf.globs[g].dir \in Seq(Names)
  <2>1. conf.globs \in Seq(Plain)
    BY ConfigIsTyped
  <2>2. DOMAIN conf.globs = 1..Len(conf.globs) /\ Len(conf.globs) \in Nat
    BY <2>1, LenProperties
  <2>3. \A g \in 1..Len(conf.globs) : conf.globs[g] \in Plain
    BY <2>1, ElementOfSeq
  <2>4. \A p \in Plain : p.dir \in Seq(Names)
    BY DEF Plain, Patterns, PathSet
  <2>5. QED BY <2>1, <2>2, <2>3, <2>4
<1>2. /\ NameOrder \in Seq(Names) /\ DOMAIN NameOrder = 1..Len(NameOrder) /\ Len(NameOrder) \in Nat
      /\ \A n \in DOMAIN NameOrder : NameOrder[n] \in Names
  BY NamesAssumption, LenProperties, ElementOfSeq
<1>3. ASSUME NEW g \in DOMAIN conf.globs
      PROVE  /\ Matches(conf.globs[g]) \in Seq(PathSet)
             /\ \A p \in ToSet(Matches(conf.globs[g])) :
                  IsDir(p) /\ p \in PathSet /\ \E x \in Names : p = Append(conf.globs[g].dir, x)
  <2> DEFINE glob == conf.globs[g]
             all == [n \in 1..Len(NameOrder) |-> one(glob, n)]
  <2>1. Matches(glob) = FlattenSeq(all)
    BY <1>2 DEF Matches
  <2>2. glob.dir \in Seq(Names)
    BY <1>1
  <2> HIDE DEF glob
  <2>3. \A n \in 1..Len(NameOrder) : at(glob, n) \in PathSet
    BY <1>2, <2>2, FrontOfAppend DEF PathSet
  <2>4. \A n \in 1..Len(NameOrder) :
           /\ one(glob, n) \in Seq(PathSet)
           /\ ToSet(one(glob, n)) \subseteq {at(glob, n)} /\ (ToSet(one(glob, n)) # {} => IsDir(at(glob, n)))
    <3>1. ASSUME NEW n \in 1..Len(NameOrder)
          PROVE  /\ one(glob, n) \in Seq(PathSet)
                 /\ ToSet(one(glob, n)) \subseteq {at(glob, n)} /\ (ToSet(one(glob, n)) # {} => IsDir(at(glob, n)))
      <4>1. at(glob, n) \in PathSet
        BY <2>3
      <4>2. one(glob, n) = <<>> \/ (one(glob, n) = <<at(glob, n)>> /\ IsDir(at(glob, n)))
        OBVIOUS
      <4> HIDE DEF at, one
      <4>3. CASE one(glob, n) = <<>>
        BY <4>3, SetOfFew, EmptySeq
      <4>4. CASE one(glob, n) = <<at(glob, n)>> /\ IsDir(at(glob, n))
        <5>1. <<at(glob, n)>> \in Seq(PathSet) /\ ToSet(<<at(glob, n)>>) = {at(glob, n)}
          BY <4>1, SetOfFew
        <5>2. QED BY <4>4, <5>1
      <4>5. QED BY <4>2, <4>3, <4>4
    <3>2. QED BY <3>1
  <2> HIDE DEF one
  <2>5. all \in Seq(Seq(PathSet)) /\ Len(all) = Len(NameOrder) /\ \A n \in 1..Len(NameOrder) : all[n] = one(glob, n)
    BY <1>2, <2>4
  <2> HIDE DEF all
  <2>6. /\ Matches(glob) \in Seq(PathSet)
        /\ ToSet(Matches(glob)) = UNION {ToSet(all[n]) : n \in 1..Len(all)}
    BY <2>1, <2>5, SetOfFlatten
  <2>7. ASSUME NEW p \in ToSet(Matches(glob))
        PROVE  IsDir(p) /\ p \in PathSet /\ \E x \in Names : p = Append(glob.dir, x)
    <3>1. PICK n \in 1..Len(NameOrder) : p \in ToSet(one(glob, n))
      BY <2>5, <2>6
    <3>2. p = at(glob, n) /\ IsDir(at(glob, n))
      BY <2>4, <3>1
    <3>3. QED BY <1>2, <2>3, <3>2
  <2>8. QED BY <2>6, <2>7 DEF glob
<1> HIDE DEF at, one
<1>4. found = FlattenSeq(each)
  BY DEF AllMatches
<1>5. each \in Seq(Seq(PathSet)) /\ Len(each) = Len(conf.globs)
      /\ \A g \in DOMAIN conf.globs : each[g] = Matches(conf.globs[g])
  BY <1>1, <1>3
<1> HIDE DEF each, found
<1>6. found \in Seq(PathSet) /\ ToSet(found) = UNION {ToSet(each[g]) : g \in 1..Len(each)}
  BY <1>4, <1>5, SetOfFlatten
<1>7. ASSUME NEW n \in DOMAIN found
      PROVE  \E g \in DOMAIN conf.globs, x \in Names :
               /\ found[n] = Append(conf.globs[g].dir, x) /\ Last(found[n]) = x
               /\ IsDir(found[n]) /\ found[n] \in PathSet
  <2>1. found[n] \in ToSet(found)
    BY DEF ToSet
  <2>2. PICK g \in DOMAIN conf.globs : found[n] \in ToSet(Matches(conf.globs[g]))
    BY <1>1, <1>5, <1>6, <2>1
  <2>3. PICK x \in Names : found[n] = Append(conf.globs[g].dir, x)
    BY <1>3, <2>2
  <2>4. IsDir(found[n]) /\ found[n] \in PathSet
    BY <1>3, <2>2
  <2>5. Last(Append(conf.globs[g].dir, x)) = x
    BY <1>1, FrontOfAppend
  <2>6. QED BY <2>3, <2>4, <2>5
<1>8. DOMAIN found = 1..Len(found) /\ Len(found) \in Nat
  BY <1>6, LenProperties
<1> HIDE DEF own
<1>9. DOMAIN own = DOMAIN conf.repos /\ \A r \in DOMAIN conf.repos : own[r] = ResolvePath(conf.repos[r])
  BY DEF own
<1>10. rs = [r \in DOMAIN own \cup {RepoName[Last(found[n])] : n \in DOMAIN found} |->
               LET owners == {n \in DOMAIN found : RepoName[Last(found[n])] = r}
               IN IF r \in DOMAIN own THEN own[r]
                  ELSE ResolvePath(found[CHOOSE n \in owners : \A m \in owners : n <= m])]
  BY DEF ExpandRepos
<1> HIDE DEF rs
<1>11. ASSUME NEW r \in DOMAIN rs, r \notin DOMAIN conf.repos
       PROVE  /\ IsDir(rs[r])
              /\ \E n \in DOMAIN conf.globs, x \in Names :
                   RepoName[x] = r /\ IsDir(Append(conf.globs[n].dir, x))
                     /\ Real(Append(conf.globs[n].dir, x)) = rs[r]
  <2> DEFINE owners == {n \in DOMAIN found : RepoName[Last(found[n])] = r}
             first(n) == \A m \in owners : n <= m
             k == CHOOSE n \in owners : first(n)
  <2>1. rs[r] = ResolvePath(found[k])
    BY <1>9, <1>10, <1>11
  <2>2. owners # {} /\ \A n \in owners : n \in Nat
    BY <1>8, <1>9, <1>10, <1>11
  <2> HIDE DEF owners
  <2>3. \E n \in owners : first(n)
    BY <2>2, SmallestOfNat
  <2> HIDE DEF first
  <2>4. k \in owners
    BY <2>3
  <2> HIDE DEF k
  <2>5. k \in DOMAIN found /\ RepoName[Last(found[k])] = r
    BY <2>4 DEF owners
  <2>6. PICK g \in DOMAIN conf.globs, x \in Names :
          /\ found[k] = Append(conf.globs[g].dir, x) /\ Last(found[k]) = x
          /\ IsDir(found[k]) /\ found[k] \in PathSet
    BY <1>7, <2>5
  <2>7. Exists(found[k]) /\ tree[Real(found[k])].kind = "dir"
    BY <2>6 DEF IsDir
  <2>8. rs[r] = Real(found[k])
    BY <2>1, <2>7 DEF ResolvePath
  <2>9. Canonical(Real(found[k]))
    BY <2>6, <2>7, RealIsCanonical
  <2>10. IsDir(Real(found[k]))
    BY <2>7, <2>9, CanonicalIsReal DEF IsDir
  <2>11. QED BY <2>5, <2>6, <2>8, <2>10
<1>12. \A r \in DOMAIN conf.repos : rs[r] = ResolvePath(conf.repos[r])
  BY <1>9, <1>10
<1>13. ReposRight(conf, rs)
  BY <1>11, <1>12 DEF ReposRight
<1>14. QED BY <1>13 DEF rs, own, found

-----------------------------------------------------------------------------
\* Where paths lead, and with it what rules mean, depends on the tree alone.
LEMMA EvalStays == ASSUME UNCHANGED tree PROVE Eval' = Eval
BY SMT DEF Eval, Stops, Failed

LEMMA MeaningStays ==
  ASSUME UNCHANGED tree
  PROVE  /\ \A p : Exists(p)' = Exists(p) /\ Real(p)' = Real(p) /\ IsDir(p)' = IsDir(p)
         /\ \A p : ResolvePath(p)' = ResolvePath(p) /\ ResolvePatternPrefix(p)' = ResolvePatternPrefix(p)
         /\ \A ps : Resolve(ps)' = Resolve(ps)
         /\ PathAllowPatterns' = PathAllowPatterns
<1>1. \A p : Exists(p)' = Exists(p) /\ Real(p)' = Real(p)
  BY EvalStays DEF Exists, Real
<1>2. \A p : IsDir(p)' = IsDir(p)
  BY <1>1 DEF IsDir
<1>3. \A p : ResolvePath(p)' = ResolvePath(p)
  BY <1>1 DEF ResolvePath
<1>4. \A p : ResolvePatternPrefix(p)' = ResolvePatternPrefix(p)
  <2>1. ASSUME NEW p PROVE ResolvePatternPrefix(p)' = ResolvePatternPrefix(p)
    <3> DEFINE existing == {n \in 1..Len(p.dir) : Exists(SubSeq(p.dir, 1, n))}
               longest == CHOOSE n \in existing : \A m \in existing : m <= n
               real == Real(SubSeq(p.dir, 1, longest))
               q == IF p.floating \/ existing = {} THEN p
                    ELSE [p EXCEPT !.dir = real \o SubSeq(p.dir, longest + 1, Len(p.dir)), !.doubled = real = <<>>]
    <3>1. existing' = existing
      BY <1>1
    <3>2. longest' = longest
      <4> HIDE DEF existing
      <4> QED BY <3>1
    <3>3. real' = real
      <4> HIDE DEF longest
      <4> QED BY <1>1, <3>2
    <3>4. q' = q
      <4> HIDE DEF existing, longest, real
      <4> QED BY <3>1, <3>2, <3>3
    <3>5. QED BY <3>4 DEF ResolvePatternPrefix
  <2>2. QED BY <2>1
<1>5. \A ps : Resolve(ps)' = Resolve(ps)
  BY <1>4 DEF Resolve
<1>6. PathAllowPatterns' = PathAllowPatterns
  BY <1>2, <1>3 DEF PathAllowPatterns
<1>7. QED BY <1>1, <1>2, <1>3, <1>4, <1>5, <1>6

LEMMA RightStays ==
  ASSUME UNCHANGED tree
  PROVE  /\ \A c, rs : ReposRight(c, rs)' <=> ReposRight(c, rs)
         /\ \A r : RulesRight(r)' <=> RulesRight(r)
<1>1. \A c, rs : ReposRight(c, rs)' <=> ReposRight(c, rs)
  BY MeaningStays DEF ReposRight
<1>2. \A c : AllowOf(c)' = AllowOf(c)
  BY MeaningStays DEF AllowOf
<1>3. \A r : RulesRight(r)' <=> RulesRight(r)
  BY <1>1, <1>2, MeaningStays DEF RulesRight
<1>4. QED BY <1>1, <1>3

LEMMA VerdictStays ==
  ASSUME UNCHANGED <<tree, rules>>
  PROVE  \A p : Verdict(p)' = Verdict(p)
<1>1. \A p : ResolvePath(p)' = ResolvePath(p)
  BY MeaningStays
<1>2. \A p : (MatchesSensitive(p)' <=> MatchesSensitive(p)) /\ (MatchesAllow(p)' <=> MatchesAllow(p))
  BY DEF MatchesSensitive, MatchesAllow
<1>3. \A p : MatchAny(rules.deny, p)' <=> MatchAny(rules.deny, p)
  OBVIOUS
<1>4. QED BY <1>1, <1>2, <1>3 DEF Verdict

-----------------------------------------------------------------------------
\* The rules in force are those of what was read, on the tree they are used on,
\* and the last answer was given by them.
InForce ==
  /\ rules # nil /\ ~outdated => RulesRight(rules)
  /\ answer # nil => rules # nil /\ answer.path \in Requests /\ answer.verdict = Verdict(answer.path)
  /\ lphase = "exited" => rules = nil

\* A load that has resolved patterns, or repositories, has them as the links
\* are now, unless a link has moved since it began.
Resolved(c) == [allow |-> Resolve(c.allow), deny |-> Resolve(c.deny), creds |-> Resolve(c.creds)]
AreTyped(ps) ==
  \A q \in {ps.allow, ps.deny, ps.creds} : \A n \in DOMAIN q : q[n] \in Patterns
Underway ==
  /\ explicit \in BOOLEAN /\ xdgSet \in BOOLEAN /\ tree \in Trees /\ IsConfig(conf) /\ AreTyped(patterns)
  /\ lphase \in {"idle", "find", "read", "resolve", "repos", "build", "exited"}
  /\ lphase \in {"idle", "find", "read", "exited"} => patterns = NoPatterns /\ repos = <<>>
  /\ place = "none" => lphase \notin {"read", "resolve", "repos"}
  /\ place \in Places \cup {"none"}
  /\ lphase \in {"repos", "build"} /\ ~relinked => patterns = Resolved(conf)
  /\ lphase = "build" /\ ~relinked => ReposRight(conf, repos)

LEMMA InForceStays ==
  ASSUME InForce, UNCHANGED <<tree, rules, outdated>>, answer' \in {answer, nil},
         lphase' = "exited" => rules = nil
  PROVE  InForce'
<1>1. RulesRight(rules)' <=> RulesRight(rules)
  BY RightStays
<1>2. \A p : Verdict(p)' = Verdict(p)
  BY VerdictStays
<1>3. QED BY <1>1, <1>2 DEF InForce

LEMMA ResolvedAreTyped ==
  ASSUME tree \in Trees, NEW c, IsConfig(c)
  PROVE  AreTyped(Resolved(c))
<1>1. c.allow \in Seq(Plain) /\ c.deny \in Seq(Plain) /\ c.creds \in Seq(Plain)
  BY ConfigIsTyped
<1>2. \A ps \in Seq(Plain) : Resolve(ps) \in Seq(Patterns)
  BY ResolvedOneByOne
<1>3. \A ps \in Seq(Patterns) : \A n \in DOMAIN ps : ps[n] \in Patterns
  BY LenProperties, ElementOfSeq
<1>4. QED BY <1>1, <1>2, <1>3 DEF AreTyped, Resolved

\* With no file at all, the defaults are what is resolved.
LEMMA DefaultsAreResolved ==
  /\ Resolved(DefaultConfig) = NoPatterns /\ ReposRight(DefaultConfig, <<>>)
  /\ AreTyped(NoPatterns) /\ IsConfig(DefaultConfig)
<1>1. DOMAIN <<>> = {}
  BY EmptySeq
<1>2. Resolve(<<>>) = <<>>
  BY DEF Resolve
<1>3. QED BY <1>1, <1>2 DEF Resolved, DefaultConfig, NoPatterns, ReposRight, AreTyped, IsConfig

LEMMA FailIsRight ==
  ASSUME Underway, InForce, Fail
  PROVE  Underway' /\ InForce'
<1>1. /\ place' = "none" /\ conf' = DefaultConfig /\ patterns' = NoPatterns /\ repos' = <<>>
      /\ lphase' \in {"idle", "exited"} /\ (lphase' = "exited" => rules = nil)
      /\ UNCHANGED <<explicit, xdgSet, tree, rules, outdated, answer>>
  BY DEF Fail, Unloaded, input
<1>2. IsConfig(conf)' /\ AreTyped(patterns)' /\ NoPatterns' = NoPatterns
  BY <1>1, DefaultsAreResolved DEF IsConfig, DefaultConfig, NoPatterns, AreTyped
<1>3. Underway'
  BY <1>1, <1>2 DEF Underway, Places
<1>4. QED BY <1>1, <1>3, InForceStays

\* What is underway stays right while the load and the links rest.
LEMMA UnderwayStays ==
  ASSUME Underway, UNCHANGED <<input, tree, lphase, place, conf, patterns, repos, relinked>>
  PROVE  Underway'
<1>1. ReposRight(conf, repos)' <=> ReposRight(conf, repos)
  BY RightStays
<1>2. Resolved(conf)' = Resolved(conf)
  BY MeaningStays DEF Resolved
<1>3. QED BY <1>1, <1>2 DEF Underway, IsConfig, DefaultConfig, AreTyped, input, NoPatterns

LEMMA NextIsRight ==
  LoadIsHonest /\ Underway /\ InForce /\ [Next]_vars => Underway' /\ InForce'
<1> SUFFICES ASSUME LoadIsHonest, Underway, InForce, [Next]_vars PROVE Underway' /\ InForce'
  OBVIOUS
<1>0. ASSUME NEW phase, GoOn(phase), phase # "exited" PROVE InForce'
  <2>1. UNCHANGED <<tree, rules, outdated, answer>> /\ lphase' # "exited"
    BY <1>0 DEF GoOn
  <2>2. QED BY <2>1, InForceStays
<1>00. ASSUME NEW phase, GoOn(phase) PROVE lphase' = phase /\ UNCHANGED <<explicit, xdgSet, tree, relinked>>
  BY <1>00 DEF GoOn, input
<1>1. CASE StartLoad
  <2>1. /\ lphase = "idle" /\ lphase' = "find" /\ answer' = nil
        /\ UNCHANGED <<explicit, xdgSet, tree, place, conf, patterns, repos, rules, relinked, outdated>>
    BY <1>1 DEF StartLoad, input
  <2>2. InForce'
    BY <2>1, InForceStays
  <2>3. QED BY <2>1, <2>2 DEF Underway, IsConfig, DefaultConfig, AreTyped, NoPatterns
<1>2. CASE FindExplicit
  <2>1. CASE Fail
    BY <2>1, FailIsRight
  <2>2. CASE place' = "explicit" /\ UNCHANGED <<conf, patterns, repos>> /\ GoOn("read")
    <3>1. lphase' = "read" /\ UNCHANGED <<explicit, xdgSet, tree, relinked>> /\ InForce' /\ lphase = "find"
      BY <1>0, <1>00, <1>2, <2>2 DEF FindExplicit
    <3>2. QED BY <2>2, <3>1 DEF Underway, IsConfig, DefaultConfig, AreTyped, NoPatterns, Places
  <2>3. QED BY <1>2, <2>1, <2>2 DEF FindExplicit
<1>3. CASE FindFirst
  <2>1. UNCHANGED <<conf, patterns, repos>> /\ lphase = "find"
    BY <1>3 DEF FindFirst
  <2>2. patterns = NoPatterns /\ repos = <<>> /\ conf = DefaultConfig
    BY <2>1 DEF Underway, LoadIsHonest
  <2>3. CASE /\ \E n \in DOMAIN Candidates : Present(Candidates[n])
             /\ place' = FirstOf(Candidates) /\ GoOn("read")
    <3>1. lphase' = "read" /\ UNCHANGED <<explicit, xdgSet, tree, relinked>> /\ InForce'
      BY <1>0, <1>00, <2>3
    <3>2. place' \in Places
      BY <2>3, FirstOfIsFirst, CandidatesAreThree
    <3>3. place' # "none"
      BY <3>2 DEF Places
    <3>4. QED BY <2>1, <2>2, <3>1, <3>2, <3>3 DEF Underway, IsConfig, DefaultConfig, AreTyped, NoPatterns
  <2>4. CASE place' = "none" /\ GoOn("build")
    <3>1. lphase' = "build" /\ UNCHANGED <<explicit, xdgSet, tree, relinked>> /\ InForce'
      BY <1>0, <1>00, <2>4
    <3>2. Resolved(conf)' = patterns' /\ ReposRight(conf, repos)'
      <4>1. Resolved(conf)' = Resolved(conf)
        BY <2>1, <3>1, MeaningStays DEF Resolved
      <4>2. ReposRight(conf, repos)' <=> ReposRight(conf, repos)
        BY <2>1, <3>1, RightStays
      <4>3. QED BY <2>1, <2>2, <4>1, <4>2, DefaultsAreResolved
    <3>3. IsConfig(conf)' /\ AreTyped(patterns)'
      BY <2>1 DEF Underway, IsConfig, DefaultConfig, AreTyped
    <3>4. QED BY <2>4, <3>1, <3>2, <3>3 DEF Underway
  <2>5. QED BY <1>3, <2>3, <2>4 DEF FindFirst
<1>4. CASE ReadConfig
  <2>1. CASE Fail
    BY <2>1, FailIsRight
  <2>2. CASE /\ Present(place) /\ conf' = files[place]
             /\ UNCHANGED <<place, patterns, repos>> /\ GoOn("resolve")
    <3>1. lphase' = "resolve" /\ UNCHANGED <<explicit, xdgSet, tree, relinked>> /\ InForce' /\ lphase = "read"
      BY <1>0, <1>00, <1>4, <2>2 DEF ReadConfig
    <3>2. place # "none" /\ place \in Places
      BY <3>1 DEF Underway
    <3>3. conf' \in Configs
      BY <2>2, <3>2 DEF LoadIsHonest, Present
    <3>4. IsConfig(conf)' /\ AreTyped(patterns)'
      BY <2>2, <3>3 DEF Underway, IsConfig, AreTyped
    <3>5. QED BY <2>2, <3>1, <3>2, <3>4 DEF Underway
  <2>3. QED BY <1>4, <2>1, <2>2 DEF ReadConfig
<1>5. CASE ResolvePatterns
  <2>1. /\ lphase = "resolve" /\ patterns' = Resolved(conf) /\ UNCHANGED <<place, conf, repos>> /\ GoOn("repos")
    BY <1>5 DEF ResolvePatterns, Resolved
  <2>2. lphase' = "repos" /\ UNCHANGED <<explicit, xdgSet, tree, relinked>> /\ InForce'
    BY <1>0, <1>00, <2>1
  <2>3. Resolved(conf)' = Resolved(conf)
    BY <2>1, <2>2, MeaningStays DEF Resolved
  <2>4. AreTyped(Resolved(conf)) /\ IsConfig(conf)
    BY ResolvedAreTyped DEF Underway
  <2>5. IsConfig(conf)' /\ AreTyped(patterns)'
    BY <2>1, <2>4 DEF IsConfig, DefaultConfig, AreTyped
  <2>6. place' # "none" /\ place' \in Places \cup {"none"}
    BY <2>1 DEF Underway
  <2>7. QED BY <2>1, <2>2, <2>3, <2>5, <2>6 DEF Underway
<1>6. CASE ResolveRepos
  <2>1. /\ lphase = "repos" /\ UNCHANGED <<place, conf, patterns>> /\ GoOn("build")
        /\ repos' = ExpandRepos([r \in DOMAIN conf.repos |-> ResolvePath(conf.repos[r])], AllMatches)
    BY <1>6 DEF ResolveRepos
  <2>2. lphase' = "build" /\ UNCHANGED <<explicit, xdgSet, tree, relinked>> /\ InForce'
    BY <1>0, <1>00, <2>1
  <2>3. Resolved(conf)' = Resolved(conf)
    BY <2>1, <2>2, MeaningStays DEF Resolved
  <2>4. ReposRight(conf, repos')
    BY <2>1, ReposAreRight DEF Underway
  <2>5. ReposRight(conf, repos)'
    BY <2>1, <2>2, <2>4, RightStays
  <2>6. IsConfig(conf)' /\ AreTyped(patterns)'
    BY <2>1 DEF Underway, IsConfig, DefaultConfig, AreTyped
  <2>7. QED BY <2>1, <2>2, <2>3, <2>5, <2>6 DEF Underway
<1>7. CASE Build
  <2>1. CASE Fail
    BY <2>1, FailIsRight
  <2>2. CASE /\ rules' = [sensitive |-> SensitivePatterns \o patterns.creds,
                          deny |-> patterns.deny, allow |-> Allow,
                          cwdOnly |-> Allow = <<>>, cwdAllow |-> ResolvePath(cwd),
                          repos |-> repos, from |-> place, read |-> conf]
             /\ lphase' = "idle" /\ outdated' = relinked /\ answer' = nil /\ Unloaded
             /\ UNCHANGED <<input, tree>>
    <3>1. lphase = "build" /\ UNCHANGED <<explicit, xdgSet, tree>>
      BY <1>7, <2>2 DEF Build, input
    <3>2. ASSUME ~relinked PROVE RulesRight(rules')
      <4>1. patterns = Resolved(conf) /\ ReposRight(conf, repos) /\ IsConfig(conf)
        BY <3>1, <3>2 DEF Underway
      <4>2. Allow = AllowOf(conf)
        BY <4>1 DEF Allow, AllowOf, Resolved
      <4>3. patterns.creds = Resolve(conf.creds) /\ patterns.deny = Resolve(conf.deny)
        BY <4>1 DEF Resolved
      <4>4. QED BY <2>2, <4>1, <4>2, <4>3 DEF RulesRight
    <3>3. InForce'
      <4>1. ~relinked => RulesRight(rules)'
        BY <3>1, <3>2, RightStays
      <4>2. QED BY <2>2, <4>1 DEF InForce
    <3>4. /\ place' = "none" /\ conf' = DefaultConfig /\ patterns' = NoPatterns /\ repos' = <<>>
      BY <2>2 DEF Unloaded
    <3>5. IsConfig(conf)' /\ AreTyped(patterns)' /\ NoPatterns' = NoPatterns
      BY <3>4, DefaultsAreResolved DEF IsConfig, DefaultConfig, NoPatterns, AreTyped
    <3>6. QED BY <2>2, <3>1, <3>3, <3>4, <3>5 DEF Underway
  <2>3. QED BY <1>7, <2>1, <2>2 DEF Build
<1>8. CASE EditConfig
  <2>1. UNCHANGED <<input, tree, lphase, place, conf, patterns, repos, relinked, rules, outdated, answer>>
    BY <1>8 DEF EditConfig, load
  <2>2. lphase' = "exited" => rules = nil
    BY <2>1 DEF InForce
  <2>3. QED BY <2>1, <2>2, UnderwayStays, InForceStays
<1>9. CASE Relink
  <2>1. /\ tree' \in Trees /\ relinked' = Loading /\ outdated' = (rules # nil) /\ answer' = nil
        /\ UNCHANGED <<explicit, xdgSet, lphase, place, conf, patterns, repos, rules>>
    BY <1>9 DEF Relink, load, input
  <2>2. InForce'
    BY <2>1 DEF InForce
  <2>3. lphase \in {"repos", "build"} => relinked'
    BY <2>1 DEF Loading
  <2>4. IsConfig(conf)' /\ AreTyped(patterns)' /\ NoPatterns' = NoPatterns
    BY <2>1 DEF Underway, IsConfig, DefaultConfig, AreTyped, NoPatterns
  <2>5. QED BY <2>1, <2>2, <2>3, <2>4 DEF Underway
<1>10. CASE \E p \in Requests : Check(p)
  <2>1. PICK p \in Requests : Check(p)
    BY <1>10
  <2>2. /\ rules # nil /\ answer' = [path |-> p, verdict |-> Verdict(p)]
        /\ UNCHANGED <<input, tree, lphase, place, conf, patterns, repos, relinked, rules, outdated>>
    BY <2>1 DEF Check, load
  <2>3. RulesRight(rules)' <=> RulesRight(rules)
    BY <2>2, RightStays
  <2>4. \A q : Verdict(q)' = Verdict(q)
    BY <2>2, VerdictStays
  <2>5. InForce'
    BY <2>2, <2>3, <2>4 DEF InForce
  <2>6. QED BY <2>2, <2>5, UnderwayStays
<1>11. CASE UNCHANGED vars
  <2>1. UNCHANGED <<input, tree, lphase, place, conf, patterns, repos, relinked, rules, outdated, answer>>
    BY <1>11 DEF vars, load
  <2>2. lphase' = "exited" => rules = nil
    BY <2>1 DEF InForce
  <2>3. QED BY <2>1, <2>2, UnderwayStays, InForceStays
<1>12. QED BY <1>1, <1>2, <1>3, <1>4, <1>5, <1>6, <1>7, <1>8, <1>9, <1>10, <1>11 DEF Next, Load

LEMMA InitIsRight == Init => Underway /\ InForce
<1> SUFFICES ASSUME Init PROVE Underway /\ InForce
  OBVIOUS
<1>1. /\ explicit \in BOOLEAN /\ xdgSet \in BOOLEAN /\ tree \in Trees
      /\ lphase = "idle" /\ place = "none" /\ conf = DefaultConfig
      /\ patterns = NoPatterns /\ repos = <<>> /\ rules = nil /\ answer = nil
  BY DEF Init
<1>2. QED BY <1>1, DefaultsAreResolved DEF Underway, InForce

\* Every variable has its type; a load that resolves has found a file, a
\* process that ended never had rules, an answer is one of the checker's.
THEOREM TypeCorrect == Spec => []TypeOK
<1>1. LoadIsHonest /\ Underway /\ InForce => TypeOK
  <2> SUFFICES ASSUME LoadIsHonest, Underway, InForce PROVE TypeOK
    OBVIOUS
  <2>1. \A p : Verdict(p) \in {"allowed", "denied", "sensitive"}
    BY DEF Verdict
  <2>2. answer # nil => rules # nil /\ answer.verdict \in {"allowed", "denied", "sensitive"}
    BY <2>1 DEF InForce
  <2>3. \A c \in Places : seen[c] \subseteq Configs \cup {nil}
    BY DEF LoadIsHonest
  <2>4. lphase \in {"read", "resolve", "repos"} => place # "none"
    BY DEF Underway
  <2>5. \A ps \in {patterns.allow, patterns.deny, patterns.creds} : \A n \in DOMAIN ps : ps[n] \in Patterns
    BY DEF Underway, AreTyped
  <2>6. QED BY <2>2, <2>3, <2>4, <2>5 DEF TypeOK, Underway, InForce, LoadIsHonest, IsConfig
<1>2. QED BY <1>1, InitIsHonest, InitIsRight, NextIsHonest, NextIsRight, PTL DEF Spec

\* As long as no link has moved since the load of the rules began, a path that
\* exists gets the verdict its configuration means for the node it leads to,
\* however links, patterns and the path are written; and the repositories are
\* those of the configuration (resolvePatternPrefix, Check, expandReposGlob).
THEOREM VerdictsAreMeant == Spec => []QuietRulesMeanWhatTheySay
<1>1. LoadIsHonest /\ Underway /\ InForce => QuietRulesMeanWhatTheySay
  <2> SUFFICES ASSUME Underway, InForce PROVE QuietRulesMeanWhatTheySay
    OBVIOUS
  <2>1. ASSUME answer # nil, ~outdated, Exists(answer.path), CredsAreThere(rules.read)
        PROVE  answer.verdict = Meant(rules.read, Real(answer.path))
    <3>1. RulesRight(rules) /\ answer.path \in Requests /\ answer.verdict = Verdict(answer.path)
      BY <2>1 DEF InForce
    <3>2. answer.path \in PathSet /\ tree \in Trees
      BY <3>1, NamesAssumption DEF Underway
    <3>3. QED BY <2>1, <3>1, <3>2, VerdictIsMeant
  <2>2. ASSUME rules # nil, ~outdated PROVE ReposRight(rules.read, rules.repos)
    BY <2>2 DEF InForce, RulesRight
  <2>3. QED BY <2>1, <2>2 DEF QuietRulesMeanWhatTheySay, ReposRight
<1>2. QED BY <1>1, InitIsHonest, InitIsRight, NextIsHonest, NextIsRight, PTL DEF Spec
=============================================================================

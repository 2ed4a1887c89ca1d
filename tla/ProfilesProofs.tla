--------------------------- MODULE ProfilesProofs ----------------------------
(***************************************************************************)
(* What the profiles, and the parts that prepare one for the core, promise *)
(* for any sources, settings, provider files and commands: the DNS         *)
(* override, the provider cache copies, the node selections, the generated *)
(* configuration and the record of the profiles.                           *)
(***************************************************************************)
EXTENDS DnsOverride, ProviderSync, Selection, Enhance, Profiles, TLAPS

(***************************************************************************)
(* DNS override                                                            *)
(***************************************************************************)

\* A setting confirms nothing the user did not agree to.
AgreedSetting(x) == x.confirmation \in agreed \cup {NoSource}

\* Neither does a decision, and it overrides only what was agreed to.
AgreedState(x) ==
  /\ x.confirmation \in agreed \cup {NoSource}
  /\ x.enabled = TRUE => x.source \in agreed \cup {NoSource}

\* Every copy of the setting on its way from the command to the runtime, the
\* one a generation has read included, keeps to what was agreed.
DnsInv ==
  /\ AgreedSetting(setting) /\ AgreedSetting(draft) /\ AgreedState(runtime)
  /\ cmd = [pc |-> cmd.pc, enabled |-> cmd.enabled, source |-> cmd.source]
  /\ cmd.enabled = TRUE => cmd.source \in agreed \cup {NoSource}
  /\ gen = [by |-> gen.by, pc |-> gen.pc, read |-> gen.read]
  /\ gen.pc \in {"idle", "settings", "file", "apply"}
  /\ gen.pc = "file" => AgreedSetting(gen.read)
  /\ gen.pc = "apply" => AgreedState(gen.read)

\* Every step of a generation, of the command and of the synchronisation keeps
\* to what was agreed.
LEMMA DnsKeeps ==
  ASSUME DnsInv, [DnsNext]_dnsVars
  PROVE  DnsInv'
PROOF
<1> USE NoSourceAssumption
<1>1. CASE other_update
  <2>1. DnsInv'
    BY <1>1 DEF other_update, NoGen, Off, DnsInv, AgreedSetting, AgreedState
  <2>2. QED
    BY <2>1
<1>2. CASE dns_settings_for
  <2>1. DnsInv'
    BY <1>2 DEF dns_settings_for, DnsInv, AgreedSetting, AgreedState
  <2>2. QED
    BY <2>1
<1>3. CASE dns_override_source
  <2>1. DnsInv'
    BY <1>3 DEF dns_override_source, DnsOverrideState, DnsInv, AgreedSetting, AgreedState
  <2>2. QED
    BY <2>1
<1>4. CASE GenerationValid
  <2>1. DnsInv'
    BY <1>4 DEF GenerationValid, NoGen, DnsInv, AgreedSetting, AgreedState
  <2>2. QED
    BY <2>1
<1>5. CASE GenerationFails
  <2>1. DnsInv'
    BY <1>5 DEF GenerationFails, NoGen, NoCmd, DefaultRuntime, DnsOverrideState, Off, DnsInv,
       AgreedSetting, AgreedState
  <2>2. QED
    BY <2>1
<1>6. CASE \E e \in BOOLEAN, c \in asked \cup {NoSource} : SetCheck(e, c)
  <2>1. DnsInv'
    BY <1>6 DEF SetCheck, DnsInv, AgreedSetting, AgreedState
  <2>2. QED
    BY <2>1
<1>7. CASE SetStage
  <2>1. DnsInv'
    BY <1>7 DEF SetStage, NoCmd, DnsInv, AgreedSetting, AgreedState
  <2>2. QED
    BY <2>1
<1>8. CASE SetUpdate
  <2>1. UNCHANGED <<setting, runtime, agreed>>
    BY <1>8 DEF SetUpdate
  <2>2. CASE gen' = [NoGen EXCEPT !.by = "command", !.pc = "settings"] /\ cmd' = [cmd EXCEPT !.pc = "wait"] /\ UNCHANGED draft
    BY <2>1, <2>2 DEF NoGen, DnsInv, AgreedSetting, AgreedState
  <2>3. CASE cmd' = NoCmd /\ draft' = setting /\ UNCHANGED gen
    BY <2>1, <2>3 DEF NoCmd, DnsInv, AgreedSetting, AgreedState
  <2>4. QED
    BY <1>8, <2>2, <2>3 DEF SetUpdate
<1>9. CASE SetCommit
  <2>1. DnsInv'
    BY <1>9 DEF SetCommit, Off, DnsInv, AgreedSetting, AgreedState
  <2>2. QED
    BY <2>1
<1>10. CASE SetSave
  <2>1. DnsInv'
    BY <1>10 DEF SetSave, NoCmd, DnsInv, AgreedSetting, AgreedState
  <2>2. QED
    BY <2>1
<1>11. CASE sync_dns_override
  <2>1. DnsInv'
    BY <1>11 DEF sync_dns_override, apply_to, DnsInv, AgreedSetting, AgreedState
  <2>2. QED
    BY <2>1
<1>12. CASE SyncSave
  <2>1. DnsInv'
    BY <1>12 DEF SyncSave, DnsInv, AgreedSetting, AgreedState
  <2>2. QED
    BY <2>1
<1>13. CASE \E s \in AnySource : Replaced(s)
  <2>1. DnsInv'
    BY <1>13 DEF Replaced, DnsInv, AgreedSetting, AgreedState
  <2>2. QED
    BY <2>1
<1>14. CASE DnsRestart
  <2>1. DnsInv'
    BY <1>14 DEF DnsRestart, Off, DefaultRuntime, DnsOverrideState, NoGen, NoCmd, DnsInv, AgreedSetting,
       AgreedState
  <2>2. QED
    BY <2>1
<1>15. CASE UNCHANGED dnsVars
  <2>1. DnsInv'
    BY <1>15 DEF dnsVars, DnsInv, AgreedSetting, AgreedState
  <2>2. QED
    BY <2>1
<1>16. QED
  BY <1>1, <1>2, <1>3, <1>4, <1>5, <1>6, <1>7, <1>8, <1>9, <1>10, <1>11, <1>12, <1>13, <1>14, <1>15
     DEF DnsNext

\* UnconfirmedNeverInEffect, whatever the sources and the bounds: a provider's
\* servers are overridden only if the user agreed to give them up.
THEOREM DnsCorrect == DnsSpec => []UnconfirmedNeverInEffect
PROOF
<1>1. DnsInit => DnsInv
  <2> SUFFICES ASSUME DnsInit PROVE DnsInv
    OBVIOUS
  <2>1. /\ setting = [Off EXCEPT !.enabled = disk] /\ draft = setting /\ runtime = DefaultRuntime /\ cmd = NoCmd
        /\ gen = [NoGen EXCEPT !.by = "startup", !.pc = "settings"]
    BY DEF DnsInit
  <2>2. AgreedSetting(setting) /\ AgreedSetting(draft)
    BY <2>1 DEF Off, AgreedSetting
  <2>3. AgreedState(runtime)
    BY <2>1 DEF AgreedState, Off, DefaultRuntime, DnsOverrideState
  <2>4. cmd.enabled = FALSE /\ cmd = [pc |-> cmd.pc, enabled |-> cmd.enabled, source |-> cmd.source]
    BY <2>1 DEF NoCmd
  <2>5. gen.pc = "settings" /\ gen = [by |-> gen.by, pc |-> gen.pc, read |-> gen.read]
    BY <2>1 DEF NoGen
  <2>6. QED
    BY <2>2, <2>3, <2>4, <2>5 DEF DnsInv
<1>2. DnsInv => UnconfirmedNeverInEffect
  BY DEF DnsInv, AgreedState, UnconfirmedNeverInEffect
<1>3. QED
  BY <1>1, <1>2, DnsKeeps, PTL DEF DnsSpec

(***************************************************************************)
(* Provider cache synchronisation                                          *)
(***************************************************************************)

\* The steps of a copy, and a file of two chunks.
CopyPc == {"idle", "begin", "first", "second", "end", "verify", "recheck", "publish",
           "done", "pending", "failed"}
\* The content of a file in two pieces, each of some version.
Chunks == [{1, 2} -> Nat]

\* The core's file: its chunks differ only while a write is between them, a write
\* under way is younger than what the core has loaded, and the file system shows
\* its time at once, when the file is closed, or not at all.
CacheInv ==
  /\ cache = [chunks |-> cache.chunks, stage |-> cache.stage, mtime |-> cache.mtime,
              settled |-> cache.settled, near |-> cache.near, stamps |-> cache.stamps]
  /\ cache.chunks \in Chunks /\ cache.stage \in {0, 1, 2} /\ cache.stamps \in Stamps
  /\ cache.mtime \in Nat /\ loaded \in Nat /\ session \in Nat
  /\ cache.chunks[1] = cache.chunks[2] + (IF cache.stage = 1 THEN 1 ELSE 0)
  /\ loaded <= Written /\ (cache.stage # 0 => loaded < Written)
  /\ cache.stamps = "exact" => cache.mtime = Written
  /\ cache.stamps = "retained" => IF cache.stage = 0 THEN cache.mtime = Written ELSE cache.mtime < Written
  /\ cache.stamps = "none" => cache.mtime = 0

\* A copy belongs to a session that was there when it began.
CopyShape ==
  /\ copy = [pc |-> copy.pc, session |-> copy.session, before |-> copy.before, mtime |-> copy.mtime,
             near |-> copy.near, got |-> copy.got, unseen |-> copy.unseen]
  /\ copy.pc \in CopyPc /\ copy.before \in Nat /\ copy.mtime \in Nat /\ copy.got \in Chunks
  /\ copy.session \in Nat
  /\ copy.pc \in {"first", "second", "end", "verify", "recheck", "publish"} =>
       copy.session # 0 /\ (session # 0 => copy.session <= session)

Torn == copy.got[1] # copy.got[2]
Same == cache.mtime = copy.mtime

\* What a copy of the session that still runs has seen.  A torn one has read while
\* a download was not loaded; if times are shown, then as long as the file's is the
\* one it read, that download is open.  With it a torn copy passes the checks only
\* as one whose tear they could not see.
ReadInv ==
  session = copy.session =>
    /\ copy.pc \in {"first", "second", "end", "verify"} => copy.before <= loaded
    /\ copy.pc \in {"second", "end", "verify", "recheck"} => copy.mtime <= cache.mtime
    /\ copy.pc = "second" =>
         /\ copy.got[1] = cache.chunks[1] \/ copy.before < Written
         /\ Same /\ (cache.stamps = "exact" \/ (cache.stamps = "retained" /\ cache.stage = 0)) =>
              copy.got[1] = cache.chunks[1]
    /\ copy.pc \in {"end", "verify"} /\ Torn =>
         copy.before < Written /\ (cache.stamps = "exact" => copy.before < copy.mtime)
    /\ copy.pc \in {"end", "verify", "recheck"} /\ Same /\ cache.stamps = "exact" =>
         copy.got[1] = cache.chunks[1] /\ copy.got[2] = cache.chunks[2]
    /\ copy.pc \in {"end", "verify", "recheck"} /\ Same /\ cache.stamps # "none" /\ Torn =>
         cache.stage # 0
    /\ copy.pc \in {"recheck", "publish"} /\ Torn => copy.unseen = TRUE

\* The inductive invariant.
SyncInv == CacheInv /\ CopyShape /\ ReadInv /\ TornOnlyUnseen

\* A copy that has ended, or has not begun, has seen nothing.
LEMMA EndedSound ==
  ASSUME SyncInv, NEW result \in {"idle", "begin", "done", "pending", "failed"},
         copy' = Ended(result), UNCHANGED <<cache, loaded, session, published>>
  PROVE  SyncInv'
PROOF
<1>1. CacheInv' /\ TornOnlyUnseen'
  BY DEF SyncInv, CacheInv, TornOnlyUnseen, Written
<1>2. copy' = [pc |-> result, session |-> 0, before |-> 0, mtime |-> 0, near |-> FALSE,
               got |-> <<0, 0>>, unseen |-> FALSE]
  BY DEF Ended, NoCopy
<1>3. CopyShape' /\ ReadInv'
  BY <1>2 DEF CopyShape, ReadInv, CopyPc, Chunks
<1>4. QED
  BY <1>1, <1>3 DEF SyncInv

\* The next chunk: the copy goes on with what the file holds now, or ends.
LEMMA ReadSound ==
  ASSUME SyncInv, fetch_runtime_file
  PROVE  SyncInv'
PROOF
<1> USE DEF SyncInv, CopyPc, Chunks, Written
<1>1. UNCHANGED <<cache, loaded, session, published>>
  BY DEF fetch_runtime_file, read_chunk, CopyStep
<1>2. CacheInv' /\ TornOnlyUnseen'
  BY <1>1 DEF CacheInv, TornOnlyUnseen
<1>3. CASE copy' = Ended("pending") \/ copy' = Ended("failed")
  BY <1>1, <1>3, EndedSound
<1>4. ASSUME session = copy.session,
             \/ /\ copy.pc = "first"
                /\ copy' = [copy EXCEPT !.pc = "second", !.mtime = cache.mtime, !.near = cache.near,
                                        !.got = [copy.got EXCEPT ![1] = cache.chunks[1]]]
             \/ /\ copy.pc = "second" /\ Same
                /\ copy' = [copy EXCEPT !.pc = "end", !.mtime = cache.mtime, !.near = cache.near,
                                        !.got = [copy.got EXCEPT ![2] = cache.chunks[2]]]
             \/ /\ copy.pc = "end" /\ Same
                /\ copy' = [copy EXCEPT !.pc = "verify", !.mtime = cache.mtime, !.near = cache.near,
                                        !.got = copy.got]
      PROVE  SyncInv'
  <2> DEFINE Read(next, got) ==
        [pc |-> next, session |-> copy.session, before |-> copy.before, mtime |-> cache.mtime,
         near |-> cache.near, got |-> got, unseen |-> copy.unseen]
  <2>1. ASSUME NEW next \in {"second", "end", "verify"}, NEW got \in Chunks,
               copy.pc \in {"first", "second", "end"}, copy' = Read(next, got)
        PROVE  CopyShape'
    <3>1. /\ copy'.pc = next /\ copy'.session = copy.session /\ copy'.before = copy.before
          /\ copy'.mtime = cache.mtime /\ copy'.near = cache.near /\ copy'.got = got
          /\ copy'.unseen = copy.unseen
      BY <2>1
    <3>2. cache.mtime \in Nat
      BY DEF CacheInv
    <3>3. QED
      BY <1>1, <2>1, <3>1, <3>2 DEF CopyShape
  <2>3. CASE copy.pc = "first"
    <3>1. copy' = Read("second", [copy.got EXCEPT ![1] = cache.chunks[1]])
      BY <1>4, <2>3 DEF CopyShape
    <3>2. [copy.got EXCEPT ![1] = cache.chunks[1]] \in Chunks
      BY DEF CopyShape, CacheInv
    <3>3. CopyShape'
      BY <2>1, <2>3, <3>1, <3>2
    <3>4. /\ copy'.pc = "second" /\ copy'.got[1] = cache.chunks[1] /\ copy'.before = copy.before
          /\ copy'.session = copy.session /\ copy'.mtime = cache.mtime
      BY <3>1 DEF CopyShape
    <3>5. QED
      BY <1>1, <1>2, <1>4, <2>3, <3>3, <3>4 DEF ReadInv, CacheInv
  <2>4. CASE copy.pc = "second"
    <3>0. copy' = Read("end", [copy.got EXCEPT ![2] = cache.chunks[2]])
      BY <1>4, <2>4 DEF CopyShape
    <3>1. /\ copy'.pc = "end" /\ copy'.got[1] = copy.got[1] /\ copy'.got[2] = cache.chunks[2] /\ Same
          /\ copy'.before = copy.before /\ copy'.session = copy.session /\ copy'.mtime = cache.mtime
      BY <1>4, <2>4, <3>0 DEF CopyShape
    <3>7. [copy.got EXCEPT ![2] = cache.chunks[2]] \in Chunks
      BY DEF CopyShape, CacheInv
    <3>8. CopyShape'
      BY <2>1, <2>4, <3>0, <3>7
    <3>2. /\ copy.before <= loaded
          /\ copy.got[1] = cache.chunks[1] \/ copy.before < Written
          /\ cache.stamps = "exact" \/ (cache.stamps = "retained" /\ cache.stage = 0) =>
               copy.got[1] = cache.chunks[1]
      BY <1>4, <2>4, <3>1 DEF ReadInv
    <3>3. copy'.got[1] # copy'.got[2] => copy.before < Written
      BY <3>1, <3>2 DEF CacheInv, CopyShape
    <3>4. copy'.got[1] # copy'.got[2] /\ cache.stamps = "exact" => copy.before < cache.mtime
      BY <3>1, <3>2 DEF CacheInv, CopyShape
    <3>5. copy'.got[1] # copy'.got[2] /\ cache.stamps # "none" => cache.stage # 0
      BY <3>1, <3>2 DEF CacheInv, CopyShape, Stamps
    <3>6. QED
      BY <1>1, <1>2, <1>4, <3>1, <3>2, <3>3, <3>4, <3>5, <3>8 DEF ReadInv, Torn, Same, CacheInv
  <2>5. CASE copy.pc = "end"
    <3>1. copy' = Read("verify", copy.got) /\ Same
      BY <1>4, <2>5 DEF CopyShape
    <3>2. CopyShape'
      BY <2>1, <2>5, <3>1 DEF CopyShape
    <3>3. /\ copy'.pc = "verify" /\ copy'.got = copy.got /\ copy'.before = copy.before
          /\ copy'.session = copy.session /\ copy'.mtime = cache.mtime /\ copy.mtime = cache.mtime
      BY <3>1 DEF Same
    <3>4. QED
      BY <1>1, <1>2, <1>4, <2>5, <3>2, <3>3 DEF ReadInv, Torn, Same, CacheInv
  <2>6. QED
    BY <1>4, <2>3, <2>4, <2>5
<1>5. QED
  BY <1>3, <1>4 DEF fetch_runtime_file, read_chunk, CopyStep, Same

\* The two comparisons that end the checks.
LEMMA ChecksSound ==
  ASSUME SyncInv, VerifyLoads \/ recheck_identity
  PROVE  SyncInv'
PROOF
<1> USE DEF SyncInv, CopyPc, Chunks, Written
<1>1. UNCHANGED <<cache, loaded, session, published>>
  BY DEF VerifyLoads, recheck_identity, CopyStep
<1>2. CacheInv' /\ TornOnlyUnseen'
  BY <1>1 DEF CacheInv, TornOnlyUnseen
<1>3. CASE copy' = Ended("pending") \/ copy' = Ended("failed")
  BY <1>1, <1>3, EndedSound
<1>4. ASSUME copy.pc = "verify", finished_loading,
             copy' = [copy EXCEPT !.pc = "recheck", !.unseen = CanHide]
      PROVE  SyncInv'
  <2>1. /\ copy'.pc = "recheck" /\ copy'.unseen = CanHide /\ copy'.got = copy.got
        /\ copy'.mtime = copy.mtime /\ copy'.session = copy.session /\ copy'.before = copy.before
    BY <1>4 DEF CopyShape
  <2>2. CopyShape'
    BY <1>1, <1>4, <2>1 DEF CopyShape
  <2>3. session = copy.session /\ Torn => CanHide
    <3>1. SUFFICES ASSUME session = copy.session, Torn PROVE CanHide
      OBVIOUS
    <3>2. copy.before < Written /\ (cache.stamps = "exact" => copy.before < copy.mtime)
      BY <1>4, <3>1 DEF ReadInv
    <3>3. loaded # Written
      BY <1>4, <3>2 DEF finished_loading, CopyShape, CacheInv
    <3>4. cache.stamps = "exact" => loaded = 0 \/ copy.near
      BY <1>4, <3>2 DEF finished_loading, CopyShape, CacheInv
    <3>5. QED
      BY <3>3, <3>4 DEF CanHide
  <2>4. session = copy.session /\ Torn => copy'.unseen = TRUE
    BY <2>1, <2>3 DEF CanHide
  <2>5. QED
    BY <1>1, <1>2, <1>4, <2>1, <2>2, <2>4 DEF ReadInv, Torn, Same
<1>5. ASSUME copy.pc = "recheck", session = copy.session, Same,
             copy' = [copy EXCEPT !.pc = "publish",
                        !.unseen = @ /\ (cache.stamps # "none" => cache.stage # 0)]
      PROVE  SyncInv'
  <2>1. /\ copy'.pc = "publish" /\ copy'.got = copy.got /\ copy'.session = copy.session
        /\ copy'.unseen = (copy.unseen /\ (cache.stamps # "none" => cache.stage # 0))
    BY <1>5 DEF CopyShape
  <2>2. CopyShape'
    BY <1>1, <1>5, <2>1 DEF CopyShape
  <2>3. Torn => copy.unseen = TRUE /\ (cache.stamps # "none" => cache.stage # 0)
    BY <1>5 DEF ReadInv
  <2>4. Torn => copy'.unseen = TRUE
    BY <2>1, <2>3
  <2>5. QED
    BY <1>1, <1>2, <2>1, <2>2, <2>4 DEF ReadInv, Torn
<1>6. QED
  BY <1>3, <1>4, <1>5 DEF VerifyLoads, recheck_identity, CopyStep, Same

\* A write, its end, its load: while the copy's session runs, the file only gets
\* younger, and its chunks with it.
LEMMA FileSound ==
  ASSUME SyncInv, CoreWrites \/ CoreCloses \/ CoreLoads \/ has_settled
  PROVE  SyncInv'
PROOF
<1> USE DEF SyncInv, CopyPc, Chunks, Written
<1>1. UNCHANGED <<copy, session, published>>
  BY DEF CoreWrites, CoreCloses, CoreLoads, has_settled
<1>2. CopyShape' /\ TornOnlyUnseen'
  BY <1>1 DEF CopyShape, TornOnlyUnseen
<1>3. CASE CoreWrites
  <2> DEFINE Next(chunks) == [chunks |-> chunks, stage |-> cache.stage + 1, mtime |-> cache.mtime,
                              settled |-> cache.settled, near |-> cache.near, stamps |-> cache.stamps]
             last == cache.chunks[1]
  <2>0. ASSUME NEW chunks, IF cache.stamps = "exact" THEN Stamped(Next(chunks)) ELSE cache' = Next(chunks)
        PROVE  /\ cache'.chunks = chunks /\ cache'.stage = cache.stage + 1 /\ cache'.stamps = cache.stamps
               /\ cache'.mtime = IF cache.stamps = "exact" THEN chunks[1] + chunks[2] ELSE cache.mtime
               /\ cache' = [chunks |-> cache'.chunks, stage |-> cache'.stage, mtime |-> cache'.mtime,
                            settled |-> cache'.settled, near |-> cache'.near, stamps |-> cache'.stamps]
    <3>2. CASE cache.stamps = "exact"
      <4>1. PICK near \in {FALSE, cache.near} :
              cache' = [Next(chunks) EXCEPT !.mtime = Next(chunks).chunks[1] + Next(chunks).chunks[2],
                                            !.settled = FALSE, !.near = near]
        BY <2>0, <3>2 DEF Stamped
      <4>2. cache' = [chunks |-> chunks, stage |-> cache.stage + 1, mtime |-> chunks[1] + chunks[2],
                      settled |-> FALSE, near |-> near, stamps |-> cache.stamps]
        BY <4>1
      <4>3. QED
        BY <3>2, <4>2
    <3>3. CASE cache.stamps # "exact"
      BY <2>0, <3>3
    <3>4. QED
      BY <3>2, <3>3
  <2>1. cache.stage \in {0, 1} /\ loaded' = loaded
    BY <1>3 DEF CoreWrites, CacheInv
  <2>2. CASE cache.stage = 0
    <3>1. IF cache.stamps = "exact" THEN Stamped(Next(<<last + 1, last>>))
          ELSE cache' = Next(<<last + 1, last>>)
      BY <1>3, <2>2 DEF CoreWrites
    <3>9. /\ cache'.chunks = <<last + 1, last>> /\ cache'.stage = cache.stage + 1
          /\ cache'.stamps = cache.stamps
          /\ cache'.mtime = IF cache.stamps = "exact" THEN cache'.chunks[1] + cache'.chunks[2] ELSE cache.mtime
          /\ cache' = [chunks |-> cache'.chunks, stage |-> cache'.stage, mtime |-> cache'.mtime,
                       settled |-> cache'.settled, near |-> cache'.near, stamps |-> cache'.stamps]
      <4> HIDE DEF Next
      <4> QED
        BY <2>0, <3>1
    <3>2. /\ cache'.chunks \in Chunks /\ cache'.chunks[1] = cache.chunks[1] + 1
          /\ cache'.chunks[2] = cache.chunks[2]
      <4>1. last \in Nat /\ cache.chunks[2] = last
        BY <2>2 DEF CacheInv
      <4>2. QED
        BY <3>9, <4>1
    <3>4. CacheInv'
      BY <1>1, <2>1, <2>2, <3>2, <3>9 DEF CacheInv, Stamps
    <3>5. ReadInv'
      BY <1>1, <2>1, <2>2, <3>2, <3>9 DEF CacheInv, CopyShape, ReadInv, Torn, Same, Stamps
    <3>6. QED
      BY <1>2, <3>4, <3>5
  <2>3. CASE cache.stage = 1
    <3>1. IF cache.stamps = "exact" THEN Stamped(Next(<<last, last>>)) ELSE cache' = Next(<<last, last>>)
      BY <1>3, <2>3 DEF CoreWrites
    <3>9. /\ cache'.chunks = <<last, last>> /\ cache'.stage = cache.stage + 1
          /\ cache'.stamps = cache.stamps
          /\ cache'.mtime = IF cache.stamps = "exact" THEN cache'.chunks[1] + cache'.chunks[2] ELSE cache.mtime
          /\ cache' = [chunks |-> cache'.chunks, stage |-> cache'.stage, mtime |-> cache'.mtime,
                       settled |-> cache'.settled, near |-> cache'.near, stamps |-> cache'.stamps]
      <4> HIDE DEF Next
      <4> QED
        BY <2>0, <3>1
    <3>2. /\ cache'.chunks \in Chunks /\ cache'.chunks[1] = cache.chunks[1]
          /\ cache'.chunks[2] = cache.chunks[2] + 1 /\ cache.chunks[1] = cache.chunks[2] + 1
      BY <2>3, <3>9 DEF CacheInv
    <3>4. CacheInv'
      BY <1>1, <2>1, <2>3, <3>2, <3>9 DEF CacheInv, Stamps
    <3>5. ReadInv'
      BY <1>1, <2>1, <2>3, <3>2, <3>9 DEF CacheInv, CopyShape, ReadInv, Torn, Same, Stamps
    <3>6. QED
      BY <1>2, <3>4, <3>5
  <2>4. QED
    BY <2>1, <2>2, <2>3
<1>4. CASE CoreCloses
  <2>1. /\ cache.stage = 2 /\ cache'.stage = 0 /\ loaded' = loaded
        /\ cache'.chunks = cache.chunks /\ cache'.stamps = cache.stamps
        /\ cache'.mtime = (IF cache.stamps = "retained" THEN Written ELSE cache.mtime)
        /\ cache' = [chunks |-> cache'.chunks, stage |-> cache'.stage, mtime |-> cache'.mtime,
                     settled |-> cache'.settled, near |-> cache'.near, stamps |-> cache'.stamps]
    BY <1>4 DEF CoreCloses, Stamped, CacheInv
  <2>2. CacheInv'
    BY <1>1, <2>1 DEF CacheInv, Stamps
  <2>3. ReadInv'
    BY <1>1, <2>1 DEF CacheInv, CopyShape, ReadInv, Torn, Same, Stamps
  <2>4. QED
    BY <1>2, <2>2, <2>3
<1>5. CASE CoreLoads
  <2>1. /\ cache.stage = 0 /\ loaded' = Written /\ cache' = [cache EXCEPT !.near = TRUE]
        /\ cache'.chunks = cache.chunks /\ cache'.mtime = cache.mtime
        /\ cache'.stage = cache.stage /\ cache'.stamps = cache.stamps
        /\ cache' = [chunks |-> cache'.chunks, stage |-> cache'.stage, mtime |-> cache'.mtime,
                     settled |-> cache'.settled, near |-> cache'.near, stamps |-> cache'.stamps]
    BY <1>5 DEF CoreLoads, CacheInv
  <2>2. CacheInv'
    <3>1. Written \in Nat
      BY DEF CacheInv
    <3>2. QED
      BY <1>1, <2>1, <3>1 DEF CacheInv
  <2>3. loaded <= loaded'
    BY <2>1 DEF CacheInv
  <2>4. ReadInv'
    BY <1>1, <2>1, <2>3 DEF CacheInv, CopyShape, ReadInv, Torn, Same
  <2>5. QED
    BY <1>2, <2>2, <2>4
<1>6. CASE has_settled
  <2>1. /\ loaded' = loaded /\ cache'.chunks = cache.chunks /\ cache'.mtime = cache.mtime
        /\ cache'.stage = cache.stage /\ cache'.stamps = cache.stamps
        /\ cache' = [chunks |-> cache'.chunks, stage |-> cache'.stage, mtime |-> cache'.mtime,
                     settled |-> cache'.settled, near |-> cache'.near, stamps |-> cache'.stamps]
    BY <1>6 DEF has_settled, CacheInv
  <2>2. CacheInv'
    BY <1>1, <2>1 DEF CacheInv
  <2>3. ReadInv'
    BY <1>1, <2>1 DEF ReadInv, Torn, Same
  <2>4. QED
    BY <1>2, <2>2, <2>3
<1>7. QED
  BY <1>3, <1>4, <1>5, <1>6

\* A copy of a session that has ended is not published.
LEMMA SessionSound ==
  ASSUME SyncInv, SessionEnds
  PROVE  SyncInv'
PROOF
<1> USE DEF SyncInv, CopyPc, Chunks, Written
<1>1. /\ UNCHANGED <<copy, published>> /\ session \in Nat /\ session # 0
      /\ session' = 0 \/ session' = session + 1
  BY DEF SessionEnds, CacheInv
<1>2. /\ cache'.chunks = <<cache.chunks[1], cache.chunks[1]>> /\ cache'.stage = 0
      /\ cache'.stamps = cache.stamps
      /\ cache'.mtime = (IF cache.stamps = "none" THEN 0 ELSE 2 * cache.chunks[1])
      /\ cache' = [chunks |-> cache'.chunks, stage |-> cache'.stage, mtime |-> cache'.mtime,
                   settled |-> cache'.settled, near |-> cache'.near, stamps |-> cache'.stamps]
      /\ loaded' \in {0, 2 * cache.chunks[1]}
  BY DEF SessionEnds, CacheInv
<1>3. cache.chunks[1] \in Nat
  BY DEF CacheInv
<1>4. CacheInv'
  <2>1. cache'.chunks \in Chunks /\ cache'.chunks[1] = cache.chunks[1] /\ cache'.chunks[2] = cache.chunks[1]
    BY <1>2, <1>3
  <2>2. QED
    BY <1>1, <1>2, <1>3, <2>1 DEF CacheInv
<1>5. CopyShape' /\ TornOnlyUnseen'
  BY <1>1 DEF CopyShape, TornOnlyUnseen
<1>6. copy.pc \in {"first", "second", "end", "verify", "recheck", "publish"} => copy.session # session'
  BY <1>1 DEF CopyShape
<1>7. ReadInv'
  BY <1>1, <1>6 DEF ReadInv
<1>8. QED
  BY <1>4, <1>5, <1>7

\* Every step of the tasks, of a copy and of the core keeps the four.
LEMMA SyncKeeps ==
  ASSUME SyncInv, [SyncNext]_syncVars
  PROVE  SyncInv'
PROOF
<1>1. CASE UNCHANGED <<copy, cache, loaded, session, published>>
  BY <1>1 DEF SyncInv, CacheInv, CopyShape, ReadInv, TornOnlyUnseen, Written, Torn, Same
<1>2. CASE \E t \in SyncTasks : request_runtime_provider_sync(t) \/ Slept(t)
  BY <1>1, <1>2 DEF request_runtime_provider_sync, Slept
<1>3. CASE \E t \in SyncTasks : Serial(t)
  BY <1>3, EndedSound DEF Serial, Ended
<1>4. CASE \E t \in SyncTasks : Attempted(t)
  <2>1. copy' = Ended("idle")
    BY <1>4 DEF Attempted, Ended, NoCopy
  <2>2. QED
    BY <1>4, <2>1, EndedSound DEF Attempted
<1>5. CASE sync_runtime_providers_by_service
  <2>1. UNCHANGED <<cache, loaded, session, published>>
    BY <1>5 DEF sync_runtime_providers_by_service, CopyStep
  <2>2. CASE copy' = Ended("done")
    BY <2>1, <2>2, EndedSound
  <2>3. ASSUME session # 0, copy' = [copy EXCEPT !.pc = "first", !.session = session, !.before = loaded]
        PROVE  SyncInv'
    <3>1. /\ copy'.pc = "first" /\ copy'.session = session /\ copy'.before = loaded
          /\ copy'.mtime = copy.mtime /\ copy'.got = copy.got /\ copy'.session = session
          /\ copy' = [pc |-> copy'.pc, session |-> copy'.session, before |-> copy'.before,
                      mtime |-> copy'.mtime, near |-> copy'.near, got |-> copy'.got, unseen |-> copy'.unseen]
      BY <2>3 DEF SyncInv, CopyShape
    <3>2. CacheInv' /\ TornOnlyUnseen'
      BY <2>1 DEF SyncInv, CacheInv, TornOnlyUnseen, Written
    <3>3. CopyShape'
      BY <2>1, <2>3, <3>1 DEF SyncInv, CopyShape, CopyPc, CacheInv
    <3>4. ReadInv'
      BY <2>1, <3>1 DEF SyncInv, ReadInv, CacheInv
    <3>5. QED
      BY <3>2, <3>3, <3>4 DEF SyncInv
  <2>4. QED
    BY <1>5, <2>2, <2>3 DEF sync_runtime_providers_by_service, CopyStep
<1>6. CASE publish_fetched
  <2>1. /\ UNCHANGED <<cache, loaded, session>> /\ copy.pc = "publish" /\ copy' = Ended("done")
        /\ \/ published' = published
           \/ session = copy.session /\ published' = [chunks |-> copy.got, unseen |-> copy.unseen]
    BY <1>6 DEF publish_fetched
  <2>2. CacheInv' /\ CopyShape' /\ ReadInv'
    <3>1. copy' = [pc |-> "done", session |-> 0, before |-> 0, mtime |-> 0, near |-> FALSE,
                   got |-> <<0, 0>>, unseen |-> FALSE]
      BY <2>1 DEF Ended, NoCopy
    <3>2. CacheInv'
      BY <2>1 DEF SyncInv, CacheInv, Written
    <3>3. CopyShape' /\ ReadInv'
      BY <3>1 DEF CopyShape, ReadInv, CopyPc, Chunks
    <3>4. QED
      BY <3>2, <3>3
  <2>3. TornOnlyUnseen'
    BY <2>1 DEF SyncInv, ReadInv, Torn, TornOnlyUnseen
  <2>4. QED
    BY <2>2, <2>3 DEF SyncInv
<1>7. CASE ConfigSwitches \/ UNCHANGED syncVars
  BY <1>1, <1>7 DEF ConfigSwitches, syncVars
<1>8. QED
  BY <1>2, <1>3, <1>4, <1>5, <1>6, <1>7, ReadSound, ChecksSound, FileSound, SessionSound
     DEF SyncNext, TaskStep, CopySteps

\* TornOnlyUnseen, whatever the bounds: the application's copy is whole, unless
\* nothing could show that a write was under way.
THEOREM SyncCorrect == SyncSpec => []TornOnlyUnseen
PROOF
<1>1. SyncInit => SyncInv
  BY DEF SyncInit, SyncInv, CacheInv, CopyShape, ReadInv, TornOnlyUnseen, NoCopy, CopyPc, Chunks, Written
<1>2. SyncInv => TornOnlyUnseen
  BY DEF SyncInv
<1>3. QED
  BY <1>1, <1>2, SyncKeeps, PTL DEF SyncSpec

\* A task's attempts are counted from 1 while it is under way.
SyncTasksRight ==
  /\ task \in [SyncTasks -> [pc : {"idle", "delay", "lock", "run"}, attempt : Nat]]
  /\ \A t \in SyncTasks : task[t].pc # "idle" => task[t].attempt # 0

\* The flag stands for the one task at its first attempt that has not begun.
FlagRight ==
  /\ requested # covered => queued
  /\ queued <=> \E t \in SyncTasks : task[t].pc \in {"delay", "lock"} /\ task[t].attempt = 1

\* The inductive invariant.
CoalescedInv == SyncTasksRight /\ FlagRight /\ NoRequestLost

\* However many requests and tasks: no request is taken for served by a copy
\* that began before it, and none is forgotten.
THEOREM CoalescedCorrect == SyncSpec => []NoRequestLost
<1>1. SyncInit => CoalescedInv
  <2> SUFFICES ASSUME SyncInit PROVE CoalescedInv
    OBVIOUS
  <2>1. task = [t \in SyncTasks |-> [pc |-> "idle", attempt |-> 0]]
    BY DEF SyncInit
  <2>2. SyncTasksRight /\ \A t \in SyncTasks : task[t].pc = "idle"
    BY <2>1 DEF SyncTasksRight
  <2>3. requested = covered /\ queued = FALSE /\ copy.pc = "idle"
    BY DEF SyncInit, NoCopy
  <2> QED
    BY <2>2, <2>3 DEF CoalescedInv, FlagRight, NoRequestLost
<1>2. ASSUME SyncInv, CoalescedInv, [SyncNext]_syncVars PROVE CoalescedInv'
  <2>1. ASSUME NEW t \in SyncTasks, request_runtime_provider_sync(t) PROVE CoalescedInv'
    <3>1. CASE queued
      <4>1. UNCHANGED <<queued, task, covered, copy>>
        BY <2>1, <3>1 DEF request_runtime_provider_sync
      <4> QED
        BY <1>2, <3>1, <4>1 DEF CoalescedInv, SyncTasksRight, FlagRight, NoRequestLost
    <3>2. CASE ~queued
      <4>1. /\ queued' = TRUE /\ task' = [task EXCEPT ![t] = [pc |-> "delay", attempt |-> 1]]
            /\ UNCHANGED <<covered, copy>> /\ task[t].pc = "idle"
        BY <2>1, <3>2 DEF request_runtime_provider_sync
      <4>2. SyncTasksRight'
        BY <1>2, <4>1 DEF CoalescedInv, SyncTasksRight
      <4>3. task'[t].pc = "delay" /\ task'[t].attempt = 1 /\ \A u \in SyncTasks \ {t} : task'[u] = task[u]
        BY <1>2, <4>1 DEF CoalescedInv, SyncTasksRight
      <4>4. \A u \in SyncTasks : ~(task[u].pc \in {"delay", "lock"} /\ task[u].attempt = 1)
        BY <1>2, <3>2 DEF CoalescedInv, FlagRight
      <4> QED
        BY <1>2, <4>1, <4>2, <4>3, <4>4 DEF CoalescedInv, FlagRight, NoRequestLost
    <3> QED
      BY <3>1, <3>2
  <2>2. ASSUME NEW t \in SyncTasks, Slept(t) PROVE CoalescedInv'
    <3>1. /\ task[t].pc = "delay" /\ task' = [task EXCEPT ![t].pc = "lock"]
          /\ UNCHANGED <<requested, queued, covered, copy>>
      BY <2>2 DEF Slept
    <3>2. /\ task'[t].pc = "lock" /\ task'[t].attempt = task[t].attempt
          /\ \A u \in SyncTasks \ {t} : task'[u] = task[u]
      BY <1>2, <3>1 DEF CoalescedInv, SyncTasksRight
    <3>3. SyncTasksRight'
      BY <1>2, <3>1, <3>2 DEF CoalescedInv, SyncTasksRight
    <3> QED
      BY <1>2, <3>1, <3>2, <3>3 DEF CoalescedInv, FlagRight, NoRequestLost
  <2>3. ASSUME NEW t \in SyncTasks, Serial(t) PROVE CoalescedInv'
    <3>1. /\ task[t].pc = "lock" /\ copy.pc = "idle" /\ task' = [task EXCEPT ![t].pc = "run"]
          /\ queued' = (IF task[t].attempt = 1 THEN FALSE ELSE queued)
          /\ covered' = requested /\ requested' = requested /\ copy'.pc = "begin"
      BY <2>3 DEF Serial, NoCopy
    <3>2. /\ task'[t].pc = "run" /\ task'[t].attempt = task[t].attempt
          /\ \A u \in SyncTasks \ {t} : task'[u] = task[u]
      BY <1>2, <3>1 DEF CoalescedInv, SyncTasksRight
    <3>3. SyncTasksRight'
      BY <1>2, <3>1, <3>2 DEF CoalescedInv, SyncTasksRight
    <3>4. FlagRight'
      BY <1>2, <3>1, <3>2 DEF CoalescedInv, FlagRight, NoRequestLost
    <3>5. NoRequestLost'
      BY <1>2, <3>1, <3>2 DEF CoalescedInv, NoRequestLost
    <3> QED
      BY <3>3, <3>4, <3>5 DEF CoalescedInv
  <2>4. ASSUME NEW t \in SyncTasks, Attempted(t) PROVE CoalescedInv'
    <3>1. /\ task[t].pc = "run" /\ copy'.pc = "idle" /\ UNCHANGED <<requested, queued, covered>>
          /\ task' = [task EXCEPT ![t] = task'[t]]
          /\ \/ task'[t] = [pc |-> "delay", attempt |-> task[t].attempt + 1]
             \/ task'[t] = [pc |-> "idle", attempt |-> 0]
      BY <1>2, <2>4 DEF Attempted, NoCopy, CoalescedInv, SyncTasksRight
    <3>2. \A u \in SyncTasks \ {t} : task'[u] = task[u]
      BY <1>2, <3>1 DEF CoalescedInv, SyncTasksRight
    <3>3. /\ task'[t].pc \in {"delay", "idle"} /\ task'[t].attempt \in Nat \ {1}
          /\ task'[t].pc # "idle" => task'[t].attempt # 0
      BY <1>2, <3>1 DEF CoalescedInv, SyncTasksRight
    <3>4. SyncTasksRight'
      BY <1>2, <3>1, <3>2, <3>3 DEF CoalescedInv, SyncTasksRight
    <3> QED
      BY <1>2, <3>1, <3>2, <3>3, <3>4 DEF CoalescedInv, FlagRight, NoRequestLost
  <2>5. CASE CopySteps
    <3>1. copy = [pc |-> copy.pc, session |-> copy.session, before |-> copy.before, mtime |-> copy.mtime,
                  near |-> copy.near, got |-> copy.got, unseen |-> copy.unseen]
      BY <1>2 DEF SyncInv, CopyShape
    <3>0. /\ Ended("done").pc = "done" /\ Ended("pending").pc = "pending" /\ Ended("failed").pc = "failed"
      BY DEF Ended, NoCopy
    <3> DEFINE Goes == UNCHANGED <<requested, queued, covered, task>> /\ copy.pc # "idle" /\ copy'.pc # "idle"
    <3>2. ASSUME sync_runtime_providers_by_service PROVE Goes
      BY <3>0, <3>1, <3>2 DEF sync_runtime_providers_by_service, CopyStep
    <3>3. ASSUME fetch_runtime_file PROVE Goes
      <4>1. ASSUME NEW got, NEW next \in {"second", "end", "verify"}, copy.pc # "idle", read_chunk(got, next)
            PROVE  Goes
        BY <3>0, <3>1, <4>1 DEF read_chunk, CopyStep
      <4>2. ASSUME copy.pc # "idle", CopyStep(Ended("pending")) PROVE Goes
        BY <3>0, <4>2 DEF CopyStep
      <4> HIDE DEF Goes
      <4> QED
        BY <3>3, <4>1, <4>2 DEF fetch_runtime_file
    <3>4. ASSUME VerifyLoads PROVE Goes
      BY <3>0, <3>1, <3>4 DEF VerifyLoads, CopyStep
    <3>5. ASSUME recheck_identity PROVE Goes
      BY <3>0, <3>1, <3>5 DEF recheck_identity, CopyStep
    <3>6. ASSUME publish_fetched PROVE Goes
      BY <3>0, <3>6 DEF publish_fetched
    <3>7. Goes
      BY <2>5, <3>2, <3>3, <3>4, <3>5, <3>6 DEF CopySteps
    <3> QED
      BY <1>2, <3>7 DEF CoalescedInv, SyncTasksRight, FlagRight, NoRequestLost
  <2>6. CASE \/ CoreWrites \/ CoreCloses \/ CoreLoads \/ has_settled \/ SessionEnds
            \/ ConfigSwitches \/ UNCHANGED syncVars
    <3>1. UNCHANGED <<requested, queued, covered, task, copy>>
      BY <2>6 DEF CoreWrites, CoreCloses, CoreLoads, has_settled, SessionEnds, ConfigSwitches, syncVars
    <3> QED
      BY <1>2, <3>1 DEF CoalescedInv, SyncTasksRight, FlagRight, NoRequestLost
  <2> QED
    BY <1>2, <2>1, <2>2, <2>3, <2>4, <2>5, <2>6 DEF SyncNext, TaskStep
<1>3. SyncInit => SyncInv
  BY DEF SyncInit, SyncInv, CacheInv, CopyShape, ReadInv, TornOnlyUnseen, NoCopy, CopyPc, Chunks, Written
<1>4. CoalescedInv => NoRequestLost
  BY DEF CoalescedInv
<1> QED
  BY <1>1, <1>2, <1>3, <1>4, SyncKeeps, PTL DEF SyncSpec

(***************************************************************************)
(* Node selections                                                         *)
(***************************************************************************)

\* What the proof needs of the state: whose records there are, which groups can be
\* selected, and which activations.
SelectionInv ==
  /\ active \in SelProfiles /\ DOMAIN recorded = SelProfiles
  /\ selectable \subseteq SelGroups
  /\ worker = [n \in 1 .. MaxActivations |-> worker[n]]

\* A plan departs from the record of a selectable group only where two snapshots
\* agree that the node, or the group, is gone.
LEMMA PlanIsJustified ==
  ASSUME NEW n, NEW g \in SelGroups, g \in selectable,
         Plan(n)[g] # worker[n].selected[g]
  PROVE  /\ worker[n].second # <<>>
         /\ \A s \in {worker[n].first, worker[n].second} :
              s[g].here => s[g].all # {} /\ worker[n].selected[g] \notin s[g].all
PROOF
<1> DEFINE sel == worker[n].selected  fst == worker[n].first  snd == worker[n].second
<1>1. ASSUME snd = <<>>
      PROVE  FALSE
  <2>1. Plan(n)[g] = Reconciled(sel, <<>>, fst, g)
    BY <1>1 DEF Plan
  <2>2. Reconciled(sel, <<>>, fst, g) = sel[g]
    BY DEF Reconciled, missing_was_confirmed, node_is_available
  <2>3. QED
    BY <2>1, <2>2
<1>2. Plan(n)[g] = Reconciled(sel, fst, snd, g)
  BY <1>1 DEF Plan
<1>3. Reconciled(sel, fst, snd, g) # sel[g]
  BY <1>2
<1>4. CASE ~snd[g].here
  BY <1>1, <1>3, <1>4 DEF Reconciled
<1>5. CASE snd[g].here
  BY <1>1, <1>3, <1>5 DEF Reconciled, missing_was_confirmed, node_is_available
<1>6. QED
  BY <1>4, <1>5

\* Every step keeps it.
LEMMA SelectionKeeps ==
  ASSUME SelectionInv, [SelectionNext]_selVars
  PROVE  SelectionInv'
PROOF
<1> USE DEF SelectionInv, config, coreSide, userSide
<1>1. CASE activate_selected_nodes \/ restore_selected_nodes
  BY <1>1 DEF activate_selected_nodes, restore_selected_nodes, activate_selected_nodes_with
<1>2. CASE switch_proxy_node \/ forget_selected_node \/ supersede_selected_activation
  BY <1>2 DEF switch_proxy_node, forget_selected_node, supersede_selected_activation
<1>3. CASE record_selected_node
  BY <1>3 DEF record_selected_node
<1>4. CASE \E g \in SelGroups : ProviderLoads(g)
  BY <1>4 DEF ProviderLoads
<1>5. ASSUME NEW n \in 1 .. MaxActivations, ActivationStep(n)
      PROVE  SelectionInv'
  <2>1. active' = active /\ selectable' = selectable /\ DOMAIN recorded' = DOMAIN recorded
    BY <1>5 DEF ActivationStep, Begin, FirstSnapshot, ApplyCheck, select_node_with_timeout, PassDone,
       SecondSnapshot,
                settle_pending_selections, persist_reconciled_selected, Rest
  <2>2. worker' = [m \in 1 .. MaxActivations |-> worker'[m]]
    BY <1>5 DEF ActivationStep, Begin, FirstSnapshot, ApplyCheck, select_node_with_timeout, PassDone,
       SecondSnapshot,
                settle_pending_selections, persist_reconciled_selected, Goto, StandDown
  <2>3. QED
    BY <2>1, <2>2
<1>6. CASE UNCHANGED selVars
  BY <1>6 DEF selVars
<1>7. QED
  BY <1>1, <1>2, <1>3, <1>4, <1>5, <1>6 DEF SelectionNext

\* What a step may do to a repair.
Justified ==
  \A n \in 1 .. MaxActivations :
    worker[n].pc = "repair" /\ worker'[n].pc # "repair" /\ recorded' # recorded =>
      /\ recorded[active] = worker[n].selected
      /\ \A g \in selectable : recorded'[active][g] # recorded[active][g] =>
           /\ worker[n].second # <<>>
           /\ \A s \in {worker[n].first, worker[n].second} :
                s[g].here => s[g].all # {} /\ recorded[active][g] \notin s[g].all

\* RepairIsJustified, whatever the profiles, groups, nodes and bounds: only the
\* repair itself changes records as it ends, and only as its snapshots justify.
THEOREM RepairCorrect == SelectionSpec => RepairIsJustified
PROOF
<1>1. SelectionInit => SelectionInv
  BY DEF SelectionInit, SelectionInv
<1>2. ASSUME SelectionInv, [SelectionNext]_selVars
      PROVE  [Justified]_selVars
  <2> SUFFICES ASSUME SelectionNext, NEW n \in 1 .. MaxActivations,
                      worker[n].pc = "repair", worker'[n].pc # "repair", recorded' # recorded
               PROVE  /\ recorded[active] = worker[n].selected
                      /\ \A g \in selectable : recorded'[active][g] # recorded[active][g] =>
                           /\ worker[n].second # <<>>
                           /\ \A s \in {worker[n].first, worker[n].second} :
                                s[g].here => s[g].all # {} /\ recorded[active][g] \notin s[g].all
    BY <1>2 DEF Justified
  <2>1. PICK m \in 1 .. MaxActivations : persist_reconciled_selected(m)
    BY DEF SelectionNext, activate_selected_nodes, restore_selected_nodes, switch_proxy_node,
       forget_selected_node,
           record_selected_node, supersede_selected_activation, ProviderLoads, ActivationStep, Begin, FirstSnapshot,
           ApplyCheck, select_node_with_timeout, PassDone, SecondSnapshot, settle_pending_selections, Rest
  <2>2. m = n
    BY <1>2, <2>1 DEF persist_reconciled_selected, StandDown, Goto, SelectionInv
  <2>3. MayRepair(n) /\ recorded' = [recorded EXCEPT ![active] = Plan(n)]
    BY <2>1, <2>2 DEF persist_reconciled_selected
  <2>4. recorded[active] = worker[n].selected /\ recorded'[active] = Plan(n)
    BY <1>2, <2>3 DEF MayRepair, SelectionInv
  <2>5. \A g \in selectable : g \in SelGroups
    BY <1>2 DEF SelectionInv
  <2>6. QED
    BY <2>4, <2>5, PlanIsJustified
<1>3. QED
  BY <1>1, <1>2, SelectionKeeps, PTL DEF SelectionSpec, RepairIsJustified, Justified

(***************************************************************************)
(* Configuration enhancement                                               *)
(***************************************************************************)

\* The steps between the capture of the application's fields and their return.
OverridePc == {"merges", "scripts", "ownMerge", "ownScript", "finish"}

\* The records and functions have their fields.
EnhanceShape ==
  /\ epc \in OverridePc \cup {"collect", "build", "done", "failed"}
  /\ given = [socks |-> given.socks, stack |-> given.stack, tun |-> given.tun, page |-> given.page,
              dns |-> given.dns, lan |-> given.lan, full |-> given.full, ownItems |-> given.ownItems,
              edits |-> given.edits, tunnel |-> given.tunnel]
  /\ given.page \subseteq PageKeys
  /\ econf = [f \in EFields |-> econf[f]]
  /\ elogs = [u \in OverrideUids |-> elogs[u]]

\* What the application captured is what the settings say.
Captured ==
  epc \in OverridePc =>
    /\ DOMAIN owned = ControlPlane \cup {"tun.enable"} \cup (IF given.stack THEN {"tun.stack"} ELSE {})
                        \cup (IF given.dns THEN given.page ELSE {})
    /\ owned["mode"] = "app" /\ owned["tun.enable"] = "app"
    /\ owned["socks-port"] = IF given.socks THEN "app" ELSE "none"
    /\ given.stack => owned["tun.stack"] = "app"
    /\ given.dns => \A f \in given.page : owned[f] = "page"

\* Logs are empty until their override runs ...
LogsFresh ==
  /\ epc \in {"collect", "build", "merges"} => \A u \in OverrideUids : elogs[u] = {}
  /\ epc = "scripts" => elogs["Script"] = {}
  /\ epc \in {"scripts", "ownMerge", "ownScript"} /\ given.ownItems => elogs["script"] = {}

\* ... and then every owned key that is off its value is noted.
Noted ==
  epc \in OverridePc /\ given.ownItems =>
    \A f \in DOMAIN owned : econf[f] # owned[f] => \E u \in OverrideUids : f \in elogs[u]

\* The inductive invariant.
EnhanceInv == EnhanceShape /\ Captured /\ LogsFresh /\ Noted /\ GeneratedRight

\* The application's own settings: the fields it always writes.
LEMMA DefaultsSet ==
  ASSUME NEW c, c = [f \in EFields |-> c[f]]
  PROVE  LET d == merge_default_config(c) IN
         /\ d = [f \in EFields |-> d[f]]
         /\ d["mode"] = "app" /\ d["socks-port"] = IF given.socks THEN "app" ELSE "none"
         /\ given.stack => d["tun.stack"] = "app"
PROOF
  BY DEF merge_default_config, EFields, ControlPlane, TunKeys, PageKeys, Proxies

\* The TUN switch touches its own field and the DNS range.
LEMMA TunSet ==
  ASSUME NEW c, c = [f \in EFields |-> c[f]]
  PROVE  LET d == use_tun(c) IN
         /\ d = [f \in EFields |-> d[f]]
         /\ d["tun.enable"] = "app"
         /\ \A f \in EFields \ {"tun.enable", "dns.range6"} : d[f] = c[f]
PROOF
  BY DEF use_tun, EFields, ControlPlane, TunKeys, PageKeys, Proxies

\* The DNS page touches what it sets and the DNS range.
LEMMA DnsSet ==
  ASSUME NEW c, c = [f \in EFields |-> c[f]], given.page \subseteq PageKeys
  PROVE  LET d == apply_dns_settings(c) IN
         /\ d = [f \in EFields |-> d[f]]
         /\ given.dns => \A f \in given.page : d[f] = "page"
         /\ \A f \in EFields \ (given.page \cup {"dns.range6"}) : d[f] = c[f]
PROOF
<1>1. CASE ~given.dns
  BY <1>1 DEF apply_dns_settings
<1>2. CASE given.dns
  <2> DEFINE m == merge_dns_config(c)
  <2>1. /\ m = [f \in EFields |-> m[f]]
        /\ \A f \in EFields : m[f] = IF f \in given.page THEN "page" ELSE c[f]
    BY DEF merge_dns_config
  <2>2. apply_dns_settings(c) = [m EXCEPT !["dns.range6"] = IF @ = "none" THEN "default" ELSE @]
    BY <1>2 DEF apply_dns_settings, ensure_fake_ip_range6
  <2>3. given.page \subseteq EFields \ {"dns.range6"}
    BY DEF PageKeys, EFields
  <2> HIDE DEF m
  <2>4. QED
    BY <2>1, <2>2, <2>3
<1>3. QED
  BY <1>1, <1>2

\* The fields of the application are captured as the settings have them.
LEMMA BuildCaptures ==
  ASSUME EnhanceInv, Build
  PROVE  EnhanceInv'
PROOF
<1> DEFINE a == SeqProxies(econf)  b == merge_default_config(a)  c == use_tun(b)  d == apply_dns_settings(c)
<1>1. given' = given /\ elogs' = elogs /\ epc = "build" /\ epc' = "merges" /\ econf' = d
  BY DEF Build
<1>2. a = [f \in EFields |-> a[f]]
  BY DEF EnhanceInv, EnhanceShape, SeqProxies
<1>3. /\ b = [f \in EFields |-> b[f]]
      /\ b["mode"] = "app" /\ b["socks-port"] = IF given.socks THEN "app" ELSE "none"
      /\ given.stack => b["tun.stack"] = "app"
  <2> HIDE DEF a
  <2>1. QED
    BY <1>2, DefaultsSet
<1>4. /\ c = [f \in EFields |-> c[f]]
      /\ c["tun.enable"] = "app"
      /\ \A f \in EFields \ {"tun.enable", "dns.range6"} : c[f] = b[f]
  <2> HIDE DEF b
  <2>1. QED
    BY <1>3, TunSet
<1>5. /\ d = [f \in EFields |-> d[f]]
      /\ given.dns => \A f \in given.page : d[f] = "page"
      /\ \A f \in EFields \ (given.page \cup {"dns.range6"}) : d[f] = c[f]
  <2> HIDE DEF c
  <2>1. given.page \subseteq PageKeys
    BY DEF EnhanceInv, EnhanceShape
  <2>2. QED
    BY <1>4, <2>1, DnsSet
<1> HIDE DEF a, b, c, d
<1>6. {"mode", "socks-port", "tun.enable", "tun.stack"} \cap (given.page \cup {"dns.range6"}) = {}
  BY DEF EnhanceInv, EnhanceShape, PageKeys
<1>7. {"mode", "socks-port", "tun.enable", "tun.stack"} \subseteq EFields
  BY DEF EFields, ControlPlane, TunKeys
<1>8. /\ d["mode"] = "app" /\ d["tun.enable"] = "app"
      /\ d["socks-port"] = IF given.socks THEN "app" ELSE "none"
      /\ given.stack => d["tun.stack"] = "app"
  BY <1>3, <1>4, <1>5, <1>6, <1>7
<1>9. {k \in gui_tun_keys : d[k] # "none"} = {"tun.enable"} \cup (IF given.stack THEN {"tun.stack"} ELSE {})
  BY <1>8 DEF gui_tun_keys
<1>10. owned' = capture(d)
  BY <1>1 DEF Build
<1>11. /\ DOMAIN owned' = ControlPlane \cup {"tun.enable"} \cup (IF given.stack THEN {"tun.stack"} ELSE {})
                            \cup (IF given.dns THEN given.page ELSE {})
       /\ \A f \in DOMAIN owned' : owned'[f] = d[f]
  BY <1>9, <1>10 DEF capture
<1>12. Captured'
  BY <1>1, <1>5, <1>8, <1>11 DEF Captured, ControlPlane
<1>13. Noted'
  BY <1>1, <1>11 DEF Noted
<1>14. EnhanceShape' /\ LogsFresh' /\ GeneratedRight'
  BY <1>1, <1>5 DEF EnhanceInv, EnhanceShape, LogsFresh, OverridePc, GeneratedRight, SettingsWin,
     NotesComplete, NamesResolve
<1>15. QED
  BY <1>12, <1>13, <1>14 DEF EnhanceInv

\* A key that an override leaves off its value is noted: by it, or before.
LEMMA OverrideNotes ==
  ASSUME NEW uid \in OverrideUids, elogs = [u \in OverrideUids |-> elogs[u]],
         \/ elogs' = [elogs EXCEPT ![uid] = @ \cup overridden(econf, econf')]
         \/ elogs[uid] = {} /\ elogs' = [elogs EXCEPT ![uid] = overridden(econf, econf')],
         \A f \in DOMAIN owned : econf[f] # owned[f] => \E u \in OverrideUids : f \in elogs[u]
  PROVE  \A f \in DOMAIN owned : econf'[f] # owned[f] => \E u \in OverrideUids : f \in elogs'[u]
PROOF
<1> SUFFICES ASSUME NEW f \in DOMAIN owned, econf'[f] # owned[f]
             PROVE  \E u \in OverrideUids : f \in elogs'[u]
  OBVIOUS
<1>1. CASE econf[f] = econf'[f]
  <2>1. PICK u \in OverrideUids : f \in elogs[u]
    BY <1>1
  <2>2. QED
    BY <2>1
<1>2. CASE econf[f] # econf'[f]
  <2>1. f \in overridden(econf, econf')
    BY <1>2 DEF overridden
  <2>2. f \in elogs'[uid]
    BY <2>1
  <2>3. QED
    BY <2>2
<1>3. QED
  BY <1>1, <1>2

\* One override.
LEMMA OverrideKeeps ==
  ASSUME EnhanceInv, NEW uid \in OverrideUids, NEW ch,
         \/ MergeItem(uid, ch)
         \/ ScriptItem(uid, ch) /\ (given.ownItems => elogs[uid] = {}),
         given' = given, owned' = owned, epc \in OverridePc, epc' \in OverridePc
  PROVE  EnhanceShape' /\ Captured' /\ Noted' /\ GeneratedRight'
PROOF
<1>1. econf' = Overlaid(econf, ch)
  BY DEF MergeItem, ScriptItem
<1>2. econf' = [f \in EFields |-> econf'[f]]
  BY <1>1 DEF Overlaid
<1>3. elogs' = [u \in OverrideUids |-> elogs'[u]]
  BY DEF EnhanceInv, EnhanceShape, MergeItem, ScriptItem
<1>4. EnhanceShape'
  BY <1>2, <1>3 DEF EnhanceInv, EnhanceShape
<1>5. Captured'
  BY DEF EnhanceInv, Captured
<1>6. Noted'
  <2> SUFFICES ASSUME given.ownItems
               PROVE  \A f \in DOMAIN owned : econf'[f] # owned[f] => \E u \in OverrideUids : f \in elogs'[u]
    BY DEF Noted
  <2>1. elogs = [u \in OverrideUids |-> elogs[u]]
    BY DEF EnhanceInv, EnhanceShape
  <2>2. \A f \in DOMAIN owned : econf[f] # owned[f] => \E u \in OverrideUids : f \in elogs[u]
    BY DEF EnhanceInv, Noted
  <2>3. \/ elogs' = [elogs EXCEPT ![uid] = @ \cup overridden(econf, econf')]
        \/ elogs[uid] = {} /\ elogs' = [elogs EXCEPT ![uid] = overridden(econf, econf')]
    BY DEF MergeItem, ScriptItem
  <2>4. QED
    BY <2>1, <2>2, <2>3, OverrideNotes
<1>7. GeneratedRight'
  BY DEF GeneratedRight, SettingsWin, NotesComplete, NamesResolve, OverridePc
<1>8. QED
  BY <1>4, <1>5, <1>6, <1>7

\* The last step puts the settings back and leaves no name that leads nowhere.
LEMMA FinishRight ==
  ASSUME EnhanceInv, Finish
  PROVE  EnhanceInv'
PROOF
<1> DEFINE c == enforce(econf)
<1>1. /\ epc = "finish" /\ epc' = "done" /\ owned' = owned /\ elogs' = elogs
      /\ econf' = ensure_lan_bind_address(c)
      /\ discarded' = overridden(owned, econf)
      /\ given' = [given EXCEPT !.tunnel = sanitize_tunnels_proxy(econf')]
      /\ group' = cleanup_proxy_groups(econf', group)
  BY DEF Finish
<1>2. /\ given'.socks = given.socks /\ given'.stack = given.stack /\ given'.page = given.page /\ given'.dns = given.dns
      /\ given'.lan = given.lan /\ given'.ownItems = given.ownItems
      /\ given'.tunnel = sanitize_tunnels_proxy(econf')
      /\ given' = [socks |-> given'.socks, stack |-> given'.stack, tun |-> given'.tun, page |-> given'.page,
                   dns |-> given'.dns, lan |-> given'.lan, full |-> given'.full, ownItems |-> given'.ownItems,
                   edits |-> given'.edits, tunnel |-> given'.tunnel]
  BY <1>1 DEF EnhanceInv, EnhanceShape
<1>3. c = [f \in EFields |-> c[f]]
  BY DEF enforce
<1>4. /\ econf' = [f \in EFields |-> econf'[f]]
      /\ \A f \in EFields \ {"bind-address"} : econf'[f] = c[f]
      /\ given.lan => ~is_loopback_bind_address(econf'["bind-address"])
  <2> HIDE DEF c
  <2>1. "bind-address" \in EFields
    BY DEF EFields
  <2>2. QED
    BY <1>1, <1>3, <2>1 DEF ensure_lan_bind_address, is_loopback_bind_address
<1>5. /\ c["mode"] = owned["mode"] /\ c["socks-port"] = owned["socks-port"]
      /\ "tun.enable" \in DOMAIN owned => c["tun.enable"] = owned["tun.enable"]
      /\ "tun.stack" \in DOMAIN owned => c["tun.stack"] = owned["tun.stack"]
      /\ \A f \in PageKeys \cap DOMAIN owned : c[f] = owned[f]
  BY DEF enforce, enforce_tun, enforce_control_plane, EFields, ControlPlane, TunKeys, PageKeys
<1> HIDE DEF c
<1>6. {"mode", "socks-port", "tun.enable", "tun.stack"} \cup PageKeys \subseteq EFields \ {"bind-address"}
  BY DEF EFields, ControlPlane, TunKeys, PageKeys
<1>7. SettingsWin'
  <2>1. Captured /\ epc \in OverridePc /\ given.page \subseteq PageKeys
    BY <1>1 DEF EnhanceInv, EnhanceShape, OverridePc
  <2>2. "tun.enable" \in DOMAIN owned /\ (given.stack => "tun.stack" \in DOMAIN owned)
        /\ (given.dns => given.page \subseteq DOMAIN owned)
    BY <2>1 DEF Captured
  <2>3. econf'["mode"] = "app" /\ econf'["tun.enable"] = "app"
    BY <2>1, <2>2, <1>4, <1>5, <1>6 DEF Captured
  <2>4. econf'["socks-port"] = IF given.socks THEN "app" ELSE "none"
    BY <2>1, <1>4, <1>5, <1>6 DEF Captured
  <2>5. given.stack => econf'["tun.stack"] = "app"
    BY <2>1, <2>2, <1>4, <1>5, <1>6 DEF Captured
  <2>6. given.dns => \A f \in given.page : econf'[f] = "page"
    BY <2>1, <2>2, <1>4, <1>5, <1>6 DEF Captured
  <2>7. QED
    BY <1>2, <1>4, <2>3, <2>4, <2>5, <2>6 DEF SettingsWin, is_loopback_bind_address
<1>8. NotesComplete'
  <2> SUFFICES ASSUME given.ownItems, NEW f \in discarded'
               PROVE  f \in UNION {elogs[u] : u \in OverrideUids}
    BY <1>1, <1>2 DEF NotesComplete
  <2>1. f \in DOMAIN owned /\ econf[f] # owned[f]
    BY <1>1 DEF overridden
  <2>2. \E u \in OverrideUids : f \in elogs[u]
    BY <2>1, <1>1 DEF EnhanceInv, Noted, OverridePc
  <2>3. QED
    BY <2>2
<1>9. NamesResolve'
  <2>1. /\ \A u \in group'.uses : econf'[u] # "none"
        /\ group'.uses = {} => group'.members \subseteq Exists(econf') \cup {"DIRECT"}
    BY <1>1 DEF cleanup_proxy_groups
  <2>2. given'.tunnel \in Proxies => econf'[given'.tunnel] # "none"
    BY <1>2 DEF sanitize_tunnels_proxy, Exists, Proxies
  <2>3. QED
    BY <2>1, <2>2 DEF NamesResolve, Exists, Proxies
<1>10. EnhanceShape' /\ Captured' /\ LogsFresh' /\ Noted'
  BY <1>1, <1>2, <1>4 DEF EnhanceInv, EnhanceShape, Captured, LogsFresh, Noted, OverridePc
<1>11. QED
  BY <1>7, <1>8, <1>9, <1>10 DEF EnhanceInv, GeneratedRight

\* Every step of a generation keeps it.
LEMMA EnhanceKeeps ==
  ASSUME EnhanceInv, [EnhanceNext]_enhVars
  PROVE  EnhanceInv'
PROOF
<1>1. CASE collect_profile_items
  BY <1>1 DEF collect_profile_items, EnhanceInv, EnhanceShape, Captured, LogsFresh, Noted,
     GeneratedRight,
              SettingsWin, NotesComplete, NamesResolve, OverridePc
<1>2. CASE Build
  BY <1>2, BuildCaptures
<1>3. ASSUME NEW ch, MergeItem("Merge", ch), epc = "merges", epc' = "scripts", given' = given, owned' = owned
      PROVE  EnhanceInv'
  <2>1. EnhanceShape' /\ Captured' /\ Noted' /\ GeneratedRight'
    BY <1>3, OverrideKeeps DEF OverridePc, OverrideUids
  <2>2. elogs'["Script"] = {} /\ elogs'["script"] = {}
    BY <1>3 DEF MergeItem, EnhanceInv, EnhanceShape, LogsFresh, OverrideUids
  <2>3. QED
    BY <1>3, <2>1, <2>2 DEF EnhanceInv, LogsFresh
<1>4. ASSUME NEW ch, ScriptItem("Script", ch), epc = "scripts", epc' = "ownMerge", given' = given, owned' = owned
      PROVE  EnhanceInv'
  <2>1. EnhanceShape' /\ Captured' /\ Noted' /\ GeneratedRight'
    <3>1. elogs["Script"] = {}
      BY <1>4 DEF EnhanceInv, LogsFresh
    <3>2. QED
      BY <1>4, <3>1, OverrideKeeps DEF OverridePc, OverrideUids
  <2>2. given.ownItems => elogs'["script"] = {}
    BY <1>4 DEF ScriptItem, EnhanceInv, EnhanceShape, LogsFresh, OverrideUids
  <2>3. QED
    BY <1>4, <2>1, <2>2 DEF EnhanceInv, LogsFresh
<1>5. ASSUME NEW ch, NEW uid \in {"merge", "Merge"}, MergeItem(uid, ch),
             epc = "ownMerge", epc' = "ownScript", given' = given, owned' = owned
      PROVE  EnhanceInv'
  <2>1. EnhanceShape' /\ Captured' /\ Noted' /\ GeneratedRight'
    BY <1>5, OverrideKeeps DEF OverridePc, OverrideUids
  <2>2. given.ownItems => elogs'["script"] = {}
    BY <1>5 DEF MergeItem, EnhanceInv, EnhanceShape, LogsFresh, OverrideUids
  <2>3. QED
    BY <1>5, <2>1, <2>2 DEF EnhanceInv, LogsFresh
<1>6. ASSUME NEW ch, NEW uid \in {"script", "Script"}, ScriptItem(uid, ch), given.ownItems => uid = "script",
             epc = "ownScript", epc' = "finish", given' = given, owned' = owned
      PROVE  EnhanceInv'
  <2>1. EnhanceShape' /\ Captured' /\ Noted' /\ GeneratedRight'
    <3>1. given.ownItems => elogs[uid] = {}
      BY <1>6 DEF EnhanceInv, LogsFresh
    <3>2. QED
      BY <1>6, <3>1, OverrideKeeps DEF OverridePc, OverrideUids
  <2>2. QED
    BY <1>6, <2>1 DEF EnhanceInv, LogsFresh
<1>7. CASE process_global_items
  BY <1>3, <1>4, <1>7 DEF process_global_items
<1>8. CASE process_profile_items
  BY <1>5, <1>6, <1>8 DEF process_profile_items
<1>9. CASE Finish
  BY <1>9, FinishRight
<1>10. CASE UNCHANGED enhVars
  BY <1>10 DEF enhVars, EnhanceInv, EnhanceShape, Captured, LogsFresh, Noted, GeneratedRight,
     SettingsWin, NotesComplete, NamesResolve
<1>11. QED
  BY <1>1, <1>2, <1>7, <1>8, <1>9, <1>10 DEF EnhanceNext

\* GeneratedRight, for every combination of settings, profile and edits and any
\* number of overrides that write something.
THEOREM EnhanceCorrect == EnhanceSpec => []GeneratedRight
PROOF
<1>1. (\E g \in Givens : Choice(g)) => EnhanceInv
  <2> SUFFICES ASSUME NEW g \in Givens, Choice(g)
               PROVE  EnhanceInv
    OBVIOUS
  <2>1. given = g /\ epc = "collect" /\ econf = [f \in EFields |-> "none"] /\ elogs = [u \in OverrideUids |-> {}]
    BY DEF Choice
  <2>2. EnhanceShape
    BY <2>1 DEF EnhanceShape, Givens
  <2>3. QED
    BY <2>1, <2>2 DEF EnhanceInv, Captured, LogsFresh, Noted, GeneratedRight, SettingsWin,
       NotesComplete, NamesResolve, OverridePc
<1>2. EnhanceInv => GeneratedRight
  BY DEF EnhanceInv
<1>3. QED
  BY <1>1, <1>2, EnhanceKeeps, PTL DEF EnhanceSpec


(***************************************************************************)
(* Profiles                                                                *)
(***************************************************************************)

\* A record of the profiles in itself: no uid twice, and a current profile
\* that exists unless there are none.
Record(p) ==
  /\ p = [current |-> p.current, items |-> p.items]
  /\ p.items \in Seq(Uids)
  /\ IsInjective(p.items)
  /\ p.current = NoOne <=> p.items = <<>>
  /\ p.current # NoOne => get_item(p, p.current)

\* An import with a uid that nobody else has seen.
Fresh(x) == x.op = "import" /\ x.pc \in {"fetch", "append", "write"}

\* A deletion that holds the store's permit, one that may remove the file, and
\* one that may have done so.
Deleting(x) ==
  /\ x.op = "delete"
  /\ x.pc \in {"update", "generate", "apply", "record", "cleanup", "gone", "rollback", "reapply"}
Recorded(x) == x.op = "delete" /\ x.pc \in {"cleanup", "gone"}
Gone(x) == x.op = "delete" /\ x.pc = "gone"

\* A modification under way: it holds the permit and works on its copy.
Modifies(x) == Deleting(x) \/ x.pc \in {"write", "edited", "storing"}

\* Where a command has a draft.
Staged(x) ==
  \/ x.op = "switch" /\ x.pc \in {"update", "generate", "apply", "commit", "discard", "reinstate"}
  \/ x.op = "restore" /\ x.pc = "take"

\* Record p goes with the files f: each profile it lists has one, and none of
\* them is still being imported by a job of J.
Good(p, f, J) ==
  /\ Record(p)
  /\ \A u \in Uids : get_item(p, u) => f[u] # "none"
  /\ \A k \in Jobs : Fresh(J[k]) => ~ get_item(p, J[k].uid)

\* A job has its fields, and what it is going to write.
IsJob(x) ==
  /\ DOMAIN x = {"op", "pc", "uid", "prev", "copy", "text", "original", "seen"}
  /\ x.pc \in {"extract", "reload", "take"} => x.op = "restore"
  /\ x.pc \in {"fetch by core", "fetch by proxy"} => x.op # "import"
  /\ x.op \in {"import", "update", "save", "restore"} => x.uid \in Uids /\ x.text # "none"

JobShape ==
  /\ jobs = [j \in Jobs |-> jobs[j]] /\ \A j \in Jobs : IsJob(jobs[j])
  /\ files = [u \in Uids |-> files[u]]
  /\ permit = [by |-> permit.by, stale |-> permit.stale]
  /\ permit.by \in Jobs \/ permit = NoPermit

\* Who holds the write lock and the permit, and whose draft there is.
Locks ==
  /\ \A j \in Jobs :
       /\ jobs[j].op \in {"delete", "switch", "restore", "exit"} /\ jobs[j].pc # "lock" => write_lock = j
       /\ Modifies(jobs[j]) => permit.by = j
       /\ Deleting(jobs[j]) => permit.stale = FALSE
  /\ profiles_draft # <<>> => \E j \in Jobs : write_lock = j /\ Staged(jobs[j])

\* The copy of a modification will do, that of an import once it has written its
\* file.
CopyGood(j, x, f, J) ==
  /\ Modifies(x) /\ ~ Fresh(x) => Good(x.copy, f, J)
  /\ Modifies(x) /\ Fresh(x) => Good(x.copy, [f EXCEPT ![x.uid] = x.text], [J EXCEPT ![j] = NoJob])
  /\ Deleting(x) => ~ get_item(x.copy, x.uid)

\* Every record there is, on disk, staged, in a modification and, but for the
\* last step of a deletion, in memory.
Copies ==
  /\ Good(profiles_yaml, files, jobs)
  /\ profiles_draft # <<>> => Good(profiles_draft, files, jobs)
  /\ (\A j \in Jobs : ~ Gone(jobs[j])) => Good(profiles, files, jobs)
  /\ \A j \in Jobs : CopyGood(j, jobs[j], files, jobs)
  /\ \A j \in Jobs : Recorded(jobs[j]) => ~ get_item(profiles_yaml, jobs[j].uid)

\* A uid that is being imported is not that of another import or of a backup.
Distinct ==
  \A j, k \in Jobs :
    Fresh(jobs[j]) /\ k # j /\ jobs[k].op \in {"import", "restore"} => jobs[k].uid # jobs[j].uid

\* The inductive invariant, but for the case the property excepts.
ProfilesInv == JobShape /\ Locks /\ Copies /\ Distinct

\* Two sequences, one after the other.
LEMMA Joined ==
  ASSUME NEW S, NEW a \in Seq(S), NEW b \in Seq(S)
  PROVE  /\ a \o b \in Seq(S) /\ Len(a \o b) = Len(a) + Len(b)
         /\ \A k \in 1 .. Len(a) + Len(b) : (a \o b)[k] = IF k <= Len(a) THEN a[k] ELSE b[k - Len(a)]
OBVIOUS

\* A sequence without one of its elements.
LEMMA Removed ==
  ASSUME NEW S, NEW s \in Seq(S), NEW i \in 1 .. Len(s)
  PROVE  /\ RemoveAt(s, i) \in Seq(S) /\ Len(RemoveAt(s, i)) = Len(s) - 1
         /\ \A k \in 1 .. Len(s) - 1 : RemoveAt(s, i)[k] = IF k < i THEN s[k] ELSE s[k + 1]
<1>1. SubSeq(s, 1, i - 1) \in Seq(S) /\ Len(SubSeq(s, 1, i - 1)) = i - 1
  OBVIOUS
<1>2. SubSeq(s, i + 1, Len(s)) \in Seq(S) /\ Len(SubSeq(s, i + 1, Len(s))) = Len(s) - i
  OBVIOUS
<1>3. \A k \in 1 .. i - 1 : SubSeq(s, 1, i - 1)[k] = s[k]
  OBVIOUS
<1>4. \A k \in 1 .. Len(s) - i : SubSeq(s, i + 1, Len(s))[k] = s[i + k]
  OBVIOUS
<1> DEFINE a == SubSeq(s, 1, i - 1)
           b == SubSeq(s, i + 1, Len(s))
<1>5. RemoveAt(s, i) = a \o b
  BY DEF RemoveAt
<1>6. Len(s) \in Nat /\ i \in Nat /\ i >= 1 /\ i <= Len(s)
  OBVIOUS
<1> HIDE DEF a, b
<1>7. /\ a \in Seq(S) /\ b \in Seq(S) /\ Len(a) = i - 1 /\ Len(b) = Len(s) - i
      /\ \A k \in 1 .. i - 1 : a[k] = s[k]
      /\ \A k \in 1 .. Len(s) - i : b[k] = s[i + k]
  BY <1>1, <1>2, <1>3, <1>4 DEF a, b
<1>8. /\ a \o b \in Seq(S) /\ Len(a \o b) = Len(a) + Len(b)
      /\ \A k \in 1 .. Len(a) + Len(b) : (a \o b)[k] = IF k <= Len(a) THEN a[k] ELSE b[k - Len(a)]
  BY <1>7, Joined
<1>9. \A k \in 1 .. Len(s) - 1 : (a \o b)[k] = IF k < i THEN s[k] ELSE s[k + 1]
  <2> SUFFICES ASSUME NEW k \in 1 .. Len(s) - 1 PROVE (a \o b)[k] = IF k < i THEN s[k] ELSE s[k + 1]
    OBVIOUS
  <2>1. CASE k < i
    BY <1>6, <1>7, <1>8, <2>1
  <2>2. CASE k >= i
    <3>1. k - (i - 1) \in 1 .. Len(s) - i /\ i + (k - (i - 1)) = k + 1
      BY <1>6, <2>2
    <3>2. (a \o b)[k] = b[k - (i - 1)]
      BY <1>6, <1>7, <1>8, <2>2
    <3> QED
      BY <1>6, <1>7, <2>2, <3>1, <3>2
  <2>3. k < i \/ k >= i
    BY <1>6
  <2> QED
    BY <2>1, <2>2, <2>3
<1>10. Len(a \o b) = Len(s) - 1
  BY <1>6, <1>7, <1>8
<1> QED
  BY <1>5, <1>8, <1>9, <1>10

\* A sequence with one element more.
LEMMA Inserted ==
  ASSUME NEW S, NEW s \in Seq(S), NEW i \in 1 .. Len(s) + 1, NEW e \in S
  PROVE  /\ InsertAt(s, i, e) \in Seq(S) /\ Len(InsertAt(s, i, e)) = Len(s) + 1
         /\ \A k \in 1 .. Len(s) + 1 :
              InsertAt(s, i, e)[k] = IF k < i THEN s[k] ELSE IF k = i THEN e ELSE s[k - 1]
<1>1. SubSeq(s, 1, i - 1) \in Seq(S) /\ Len(SubSeq(s, 1, i - 1)) = i - 1
  OBVIOUS
<1>2. SubSeq(s, i, Len(s)) \in Seq(S) /\ Len(SubSeq(s, i, Len(s))) = Len(s) - i + 1
  OBVIOUS
<1>3. \A k \in 1 .. i - 1 : SubSeq(s, 1, i - 1)[k] = s[k]
  OBVIOUS
<1>4. \A k \in 1 .. Len(s) - i + 1 : SubSeq(s, i, Len(s))[k] = s[i + k - 1]
  OBVIOUS
<1> DEFINE a == SubSeq(s, 1, i - 1)
           b == SubSeq(s, i, Len(s))
           c == a \o <<e>>
<1>5. InsertAt(s, i, e) = c \o b
  BY DEF InsertAt
<1>6. Len(s) \in Nat /\ i \in Nat /\ i >= 1 /\ i <= Len(s) + 1
  OBVIOUS
<1> HIDE DEF a, b
<1>7. /\ a \in Seq(S) /\ b \in Seq(S) /\ Len(a) = i - 1 /\ Len(b) = Len(s) - i + 1
      /\ \A k \in 1 .. i - 1 : a[k] = s[k]
      /\ \A k \in 1 .. Len(s) - i + 1 : b[k] = s[i + k - 1]
  BY <1>1, <1>2, <1>3, <1>4 DEF a, b
<1>8. <<e>> \in Seq(S) /\ Len(<<e>>) = 1 /\ <<e>>[1] = e
  OBVIOUS
<1>9. /\ c \in Seq(S) /\ Len(c) = i
      /\ \A k \in 1 .. i : c[k] = IF k < i THEN s[k] ELSE e
  <2>1. /\ c \in Seq(S) /\ Len(c) = Len(a) + 1
        /\ \A k \in 1 .. Len(a) + 1 : c[k] = IF k <= Len(a) THEN a[k] ELSE <<e>>[k - Len(a)]
    BY <1>7, <1>8, Joined
  <2>2. \A k \in 1 .. i : k >= i => k - (i - 1) = 1
    BY <1>6
  <2> QED
    BY <1>6, <1>7, <1>8, <2>1, <2>2
<1> HIDE DEF c
<1>10. /\ c \o b \in Seq(S) /\ Len(c \o b) = Len(c) + Len(b)
       /\ \A k \in 1 .. Len(c) + Len(b) : (c \o b)[k] = IF k <= Len(c) THEN c[k] ELSE b[k - Len(c)]
  BY <1>7, <1>9, Joined
<1>11. \A k \in 1 .. Len(s) + 1 : (c \o b)[k] = IF k < i THEN s[k] ELSE IF k = i THEN e ELSE s[k - 1]
  <2> SUFFICES ASSUME NEW k \in 1 .. Len(s) + 1
               PROVE  (c \o b)[k] = IF k < i THEN s[k] ELSE IF k = i THEN e ELSE s[k - 1]
    OBVIOUS
  <2>1. CASE k <= i
    BY <1>6, <1>7, <1>9, <1>10, <2>1
  <2>2. CASE k > i
    <3>1. k - i \in 1 .. Len(s) - i + 1 /\ i + (k - i) - 1 = k - 1
      BY <1>6, <2>2
    <3>2. (c \o b)[k] = b[k - i]
      BY <1>6, <1>7, <1>9, <1>10, <2>2
    <3>3. b[k - i] = s[k - 1]
      BY <1>7, <3>1
    <3>4. ~ (k < i) /\ k # i
      BY <1>6, <2>2
    <3> QED
      BY <3>2, <3>3, <3>4
  <2>3. k <= i \/ k > i
    BY <1>6
  <2> QED
    BY <2>1, <2>2, <2>3
<1> QED
  BY <1>5, <1>6, <1>7, <1>9, <1>10, <1>11

\* Without one of its elements an injective sequence is still one.
LEMMA RemovedInjective ==
  ASSUME NEW S, NEW s \in Seq(S), NEW i \in 1 .. Len(s), IsInjective(s)
  PROVE  IsInjective(RemoveAt(s, i)) /\ \A k \in 1 .. Len(s) - 1 : RemoveAt(s, i)[k] # s[i]
<1> DEFINE r == RemoveAt(s, i)
           Old(k) == IF k < i THEN k ELSE k + 1
<1>1. /\ r \in Seq(S) /\ Len(r) = Len(s) - 1
      /\ \A k \in 1 .. Len(s) - 1 : r[k] = IF k < i THEN s[k] ELSE s[k + 1]
  BY Removed
<1> HIDE DEF r
<1>2. \A k \in 1 .. Len(s) - 1 : Old(k) \in 1 .. Len(s) /\ Old(k) # i /\ r[k] = s[Old(k)]
  <2> SUFFICES ASSUME NEW k \in 1 .. Len(s) - 1
               PROVE  Old(k) \in 1 .. Len(s) /\ Old(k) # i /\ r[k] = s[Old(k)]
    OBVIOUS
  <2>1. CASE k < i
    BY <1>1, <2>1
  <2>2. CASE k >= i
    <3>1. k + 1 \in 1 .. Len(s) /\ k + 1 # i /\ ~ (k < i)
      BY <2>2
    <3> QED
      BY <1>1, <3>1
  <2>3. k < i \/ k >= i
    OBVIOUS
  <2> QED
    BY <2>1, <2>2, <2>3
<1>3. \A k, l \in 1 .. Len(s) - 1 : Old(k) = Old(l) => k = l
  OBVIOUS
<1> HIDE DEF Old
<1>4. DOMAIN r = 1 .. Len(s) - 1 /\ DOMAIN s = 1 .. Len(s)
  BY <1>1
<1>5. \A k, l \in 1 .. Len(s) : s[k] = s[l] => k = l
  BY <1>4 DEF IsInjective
<1>6. \A k, l \in 1 .. Len(s) - 1 : r[k] = r[l] => k = l
  BY <1>2, <1>3, <1>5
<1>7. \A k \in 1 .. Len(s) - 1 : r[k] # s[i]
  BY <1>2, <1>5
<1>8. IsInjective(r)
  BY <1>4, <1>6 DEF IsInjective
<1> QED
  BY <1>7, <1>8 DEF r

\* With one element more that it did not have it is still one.
LEMMA InsertedInjective ==
  ASSUME NEW S, NEW s \in Seq(S), NEW i \in 1 .. Len(s) + 1, NEW e \in S, IsInjective(s),
         \A k \in 1 .. Len(s) : s[k] # e
  PROVE  IsInjective(InsertAt(s, i, e))
<1> DEFINE t == InsertAt(s, i, e)
           Old(k) == IF k < i THEN k ELSE k - 1
<1>1. /\ t \in Seq(S) /\ Len(t) = Len(s) + 1
      /\ \A k \in 1 .. Len(s) + 1 : t[k] = IF k < i THEN s[k] ELSE IF k = i THEN e ELSE s[k - 1]
  BY Inserted
<1> HIDE DEF t
<1>2. \A k \in 1 .. Len(s) + 1 : k # i => Old(k) \in 1 .. Len(s) /\ t[k] = s[Old(k)]
  BY <1>1
<1>3. \A k, l \in 1 .. Len(s) + 1 : k # i /\ l # i /\ Old(k) = Old(l) => k = l
  OBVIOUS
<1> HIDE DEF Old
<1>4. DOMAIN t = 1 .. Len(s) + 1 /\ DOMAIN s = 1 .. Len(s)
  BY <1>1
<1>5. \A k, l \in 1 .. Len(s) : s[k] = s[l] => k = l
  BY <1>4 DEF IsInjective
<1>6. t[i] = e
  BY <1>1
<1>7. \A k, l \in 1 .. Len(s) + 1 : t[k] = t[l] => k = l
  BY <1>2, <1>3, <1>5, <1>6
<1>8. IsInjective(t)
  BY <1>4, <1>7 DEF IsInjective
<1> QED
  BY <1>8 DEF t

\* Where a profile is listed.
LEMMA Position ==
  ASSUME NEW p, NEW u, Record(p), get_item(p, u)
  PROVE  u \in Uids /\ position(p, u) \in 1 .. Len(p.items) /\ p.items[position(p, u)] = u
BY DEF Record, get_item, Contains, position

\* Choosing another current profile leaves a record.
LEMMA PatchRecord ==
  ASSUME NEW p, NEW u, Record(p)
  PROVE  /\ Record(patch_config(p, u))
         /\ \A v : get_item(patch_config(p, u), v) <=> get_item(p, v)
<1>1. CASE get_item(p, u)
  <2>1. u \in Uids /\ p.items # <<>>
    BY <1>1 DEF Record, get_item, Contains
  <2>2. u # NoOne
    BY <2>1, ProfilesAssumption
  <2>3. patch_config(p, u) = [current |-> u, items |-> p.items]
    BY <1>1 DEF Record, patch_config
  <2> QED
    BY <1>1, <2>1, <2>2, <2>3 DEF Record, get_item
<1>2. CASE ~ get_item(p, u)
  <2>1. patch_config(p, u) = p
    BY <1>2 DEF Record, patch_config
  <2> QED
    BY <2>1
<1> QED
  BY <1>1, <1>2

\* Adding a profile that is not listed leaves a record.
LEMMA AppendRecord ==
  ASSUME NEW p, NEW u \in Uids, Record(p), ~ get_item(p, u)
  PROVE  /\ Record(append_item(p, u))
         /\ \A v : get_item(append_item(p, u), v) => v = u \/ get_item(p, v)
<1> DEFINE q == append_item(p, u)
<1>1. q = [current |-> IF p.current = NoOne THEN u ELSE p.current, items |-> Append(p.items, u)]
  BY DEF append_item
<1> HIDE DEF q
<1>2. /\ q.items \in Seq(Uids) /\ Len(q.items) = Len(p.items) + 1 /\ q.items[Len(p.items) + 1] = u
      /\ \A k \in 1 .. Len(p.items) : q.items[k] = p.items[k]
      /\ Len(p.items) \in Nat
  BY <1>1 DEF Record
<1>3. IsInjective(q.items)
  <2>1. \A k \in 1 .. Len(p.items) : p.items[k] # u
    BY DEF get_item, Contains
  <2>2. DOMAIN q.items = 1 .. Len(p.items) + 1 /\ DOMAIN p.items = 1 .. Len(p.items)
    BY <1>2 DEF Record
  <2>3. \A k, l \in 1 .. Len(p.items) : p.items[k] = p.items[l] => k = l
    BY <2>2 DEF Record, IsInjective
  <2>4. \A k \in 1 .. Len(p.items) + 1 : k \in 1 .. Len(p.items) \/ k = Len(p.items) + 1
    BY <1>2
  <2>5. \A k, l \in 1 .. Len(p.items) + 1 : q.items[k] = q.items[l] => k = l
    BY <1>2, <2>1, <2>3, <2>4
  <2> QED
    BY <2>2, <2>5 DEF IsInjective
<1>4. \A v : get_item(q, v) <=> v = u \/ get_item(p, v)
  <2> DEFINE n == Len(p.items)
  <2>1. n \in Nat /\ \A k \in 1 .. n + 1 : k \in 1 .. n \/ k = n + 1
    BY <1>2
  <2>2. n + 1 \in 1 .. n + 1 /\ \A k \in 1 .. n : k \in 1 .. n + 1
    BY <2>1
  <2>3. \A v : (\E k \in 1 .. n + 1 : q.items[k] = v) <=> v = u \/ \E k \in 1 .. n : p.items[k] = v
    BY <1>2, <2>1, <2>2
  <2> QED
    BY <1>2, <2>3 DEF get_item, Contains
<1>5. u # NoOne /\ q.items # <<>>
  BY <1>2, ProfilesAssumption
<1>6. q.current # NoOne /\ get_item(q, q.current)
  BY <1>1, <1>4, <1>5 DEF Record
<1>7. Record(q)
  BY <1>1, <1>2, <1>3, <1>5, <1>6 DEF Record
<1> QED
  BY <1>4, <1>7 DEF q

\* Moving a profile leaves a record of the same profiles.
LEMMA ReorderRecord ==
  ASSUME NEW p, NEW u, NEW over, Record(p)
  PROVE  /\ Record(reorder(p, u, over))
         /\ \A v : get_item(reorder(p, u, over), v) => get_item(p, v)
<1>1. CASE ~ (get_item(p, u) /\ get_item(p, over))
  BY <1>1 DEF reorder
<1>2. CASE get_item(p, u) /\ get_item(p, over)
  <2> DEFINE s == p.items
             a == position(p, u)
             b == position(p, over)
             r == RemoveAt(s, a)
             t == InsertAt(r, b, u)
  <2>1. /\ s \in Seq(Uids) /\ u \in Uids /\ a \in 1 .. Len(s) /\ b \in 1 .. Len(s) /\ s[a] = u
        /\ Len(s) \in Nat
    BY <1>2, Position DEF Record
  <2>2. IsInjective(s) /\ DOMAIN s = 1 .. Len(s)
    BY DEF Record
  <2>3. reorder(p, u, over) = [current |-> p.current, items |-> t]
    BY <1>2 DEF reorder, Record
  <2> HIDE DEF s, a, b
  <2>4. /\ r \in Seq(Uids) /\ Len(r) = Len(s) - 1
        /\ \A k \in 1 .. Len(s) - 1 : r[k] = IF k < a THEN s[k] ELSE s[k + 1]
    BY <2>1, Removed
  <2>6. IsInjective(r) /\ \A k \in 1 .. Len(s) - 1 : r[k] # u
    BY <2>1, <2>2, RemovedInjective
  <2> HIDE DEF r
  <2>5. /\ t \in Seq(Uids) /\ Len(t) = Len(r) + 1
        /\ \A k \in 1 .. Len(r) + 1 : t[k] = IF k < b THEN r[k] ELSE IF k = b THEN u ELSE r[k - 1]
    <3>1. b \in 1 .. Len(r) + 1
      BY <2>1, <2>4
    <3> QED
      BY <2>1, <2>4, <3>1, Inserted
  <2> HIDE DEF t
  <2>8. IsInjective(t)
    <3>1. b \in 1 .. Len(r) + 1
      BY <2>1, <2>4
    <3> QED
      BY <2>1, <2>4, <2>6, <3>1, InsertedInjective DEF t
  <2>7. \A k \in 1 .. Len(r) : \E i \in 1 .. Len(s) : s[i] = r[k]
    BY <2>1, <2>4
  <2>9. \A v : (\E k \in 1 .. Len(t) : t[k] = v) => \E k \in 1 .. Len(s) : s[k] = v
    <3> SUFFICES ASSUME NEW k \in 1 .. Len(t) PROVE \E i \in 1 .. Len(s) : s[i] = t[k]
      OBVIOUS
    <3>1. Len(r) \in Nat /\ Len(t) = Len(r) + 1
      BY <2>1, <2>4, <2>5
    <3>2. CASE k < b
      BY <2>1, <2>4, <2>5, <2>7, <3>1, <3>2
    <3>3. CASE k = b
      BY <2>1, <2>5, <3>1, <3>3
    <3>4. CASE k > b
      <4>1. k - 1 \in 1 .. Len(r) /\ t[k] = r[k - 1]
        BY <2>1, <2>5, <3>1, <3>4
      <4> QED
        BY <2>7, <4>1
    <3> QED
      BY <2>1, <3>1, <3>2, <3>3, <3>4
  <2>10. \A k \in 1 .. Len(s) : s[k] = u \/ \E i \in 1 .. Len(r) : r[i] = s[k]
    <3> SUFFICES ASSUME NEW k \in 1 .. Len(s), k # a PROVE \E i \in 1 .. Len(r) : r[i] = s[k]
      BY <2>1
    <3>1. CASE k < a
      BY <2>1, <2>4, <3>1
    <3>2. CASE k > a
      <4>1. k - 1 \in 1 .. Len(r) /\ r[k - 1] = s[k]
        BY <2>1, <2>4, <3>2
      <4> QED
        BY <4>1
    <3> QED
      BY <2>1, <3>1, <3>2
  <2>11. \A i \in 1 .. Len(r) : \E k \in 1 .. Len(t) : t[k] = r[i]
    <3> SUFFICES ASSUME NEW i \in 1 .. Len(r) PROVE \E k \in 1 .. Len(t) : t[k] = r[i]
      OBVIOUS
    <3>1. CASE i < b
      BY <2>1, <2>4, <2>5, <3>1
    <3>2. CASE i >= b
      <4>1. i + 1 \in 1 .. Len(t) /\ t[i + 1] = r[i]
        BY <2>1, <2>4, <2>5, <3>2
      <4> QED
        BY <4>1
    <3> QED
      BY <2>1, <2>4, <3>1, <3>2
  <2>12. b \in 1 .. Len(t) /\ t[b] = u
    BY <2>1, <2>4, <2>5
  <2>13. \A k \in 1 .. Len(s) : \E i \in 1 .. Len(t) : t[i] = s[k]
    BY <2>10, <2>11, <2>12
  <2>14. t # <<>> /\ s # <<>>
    BY <2>1, <2>4, <2>5
  <2>15. p.current # NoOne /\ \E k \in 1 .. Len(s) : s[k] = p.current
    BY <2>14 DEF Record, get_item, Contains, s
  <2>16. Record([current |-> p.current, items |-> t])
    BY <2>5, <2>8, <2>13, <2>14, <2>15 DEF Record, get_item, Contains
  <2> QED
    BY <2>3, <2>9, <2>16 DEF get_item, Contains, s
<1> QED
  BY <1>1, <1>2

\* Deleting a profile leaves a record without it.
LEMMA PlanRecord ==
  ASSUME NEW p, NEW u, Record(p), get_item(p, u)
  PROVE  /\ Record(plan_delete_item(p, u))
         /\ ~ get_item(plan_delete_item(p, u), u)
         /\ \A v : get_item(plan_delete_item(p, u), v) => get_item(p, v)
<1> DEFINE s == p.items
           a == position(p, u)
           r == RemoveAt(s, a)
           c == IF p.current \notin {NoOne, u} THEN p.current ELSE IF r = <<>> THEN NoOne ELSE Head(r)
<1>1. s \in Seq(Uids) /\ u \in Uids /\ a \in 1 .. Len(s) /\ s[a] = u /\ Len(s) \in Nat
  BY Position DEF Record
<1>2. IsInjective(s) /\ DOMAIN s = 1 .. Len(s)
  BY DEF Record
<1>3. plan_delete_item(p, u) = [current |-> c, items |-> r]
  BY DEF plan_delete_item
<1>4. s # <<>> /\ p.current # NoOne /\ \E k \in 1 .. Len(s) : s[k] = p.current
  BY <1>1 DEF Record, get_item, Contains
<1> HIDE DEF s, a
<1>5. /\ r \in Seq(Uids) /\ Len(r) = Len(s) - 1
      /\ \A k \in 1 .. Len(s) - 1 : r[k] = IF k < a THEN s[k] ELSE s[k + 1]
  BY <1>1, Removed
<1>6. \A k \in 1 .. Len(r) : r[k] # u
  BY <1>1, <1>2, <1>5, RemovedInjective
<1>7. IsInjective(r)
  BY <1>1, <1>2, RemovedInjective
<1> HIDE DEF r
<1>8. \A v : (\E k \in 1 .. Len(r) : r[k] = v) => \E k \in 1 .. Len(s) : s[k] = v
  BY <1>1, <1>5
<1>9. \A k \in 1 .. Len(s) : s[k] # u => \E i \in 1 .. Len(r) : r[i] = s[k]
  <2> SUFFICES ASSUME NEW k \in 1 .. Len(s), k # a PROVE \E i \in 1 .. Len(r) : r[i] = s[k]
    BY <1>1
  <2>1. CASE k < a
    BY <1>1, <1>5, <2>1
  <2>2. CASE k > a
    <3>1. k - 1 \in 1 .. Len(r) /\ r[k - 1] = s[k]
      BY <1>1, <1>5, <2>2
    <3> QED
      BY <3>1
  <2> QED
    BY <1>1, <2>1, <2>2
<1>10. r # <<>> => 1 \in 1 .. Len(r) /\ Head(r) = r[1] /\ r[1] \in Uids
  BY <1>5
<1>11. NoOne \notin Uids
  BY ProfilesAssumption
<1>12. CASE p.current # u
  <2>1. c = p.current /\ \E i \in 1 .. Len(r) : r[i] = c
    BY <1>4, <1>9, <1>12
  <2>2. r # <<>>
    BY <1>5, <2>1
  <2>3. Record([current |-> c, items |-> r])
    BY <1>4, <1>5, <1>7, <2>1, <2>2 DEF Record, get_item, Contains
  <2> QED
    BY <1>3, <1>6, <1>8, <2>3 DEF get_item, Contains, s
<1>13. CASE p.current = u /\ r = <<>>
  <2>1. c = NoOne
    BY <1>13
  <2>3. Record([current |-> c, items |-> r])
    BY <1>5, <1>7, <1>13, <2>1 DEF Record, get_item, Contains
  <2> QED
    BY <1>3, <1>6, <1>8, <2>3 DEF get_item, Contains, s
<1>14. CASE p.current = u /\ r # <<>>
  <2>1. c = r[1] /\ c # NoOne
    BY <1>10, <1>11, <1>14
  <2>3. Record([current |-> c, items |-> r])
    BY <1>5, <1>7, <1>10, <1>14, <2>1 DEF Record, get_item, Contains
  <2> QED
    BY <1>3, <1>6, <1>8, <2>3 DEF get_item, Contains, s
<1> QED
  BY <1>12, <1>13, <1>14

\* The record of a backup.
LEMMA BackupRecord ==
  ASSUME NEW u \in Uids
  PROVE  /\ Record([current |-> u, items |-> <<u>>])
         /\ \A v : get_item([current |-> u, items |-> <<u>>], v) => v = u
BY ProfilesAssumption DEF Record, get_item, Contains, IsInjective

\* No profiles at all are a good record, too; so whatever a reading of
\* profiles.yaml comes up with is good.
LEMMA NothingRead ==
  ASSUME NEW f, NEW J, NEW p \in ReadProfiles, Good(profiles_yaml, f, J)
  PROVE  Good(p, f, J)
<1>1. Record(NoProfiles)
  BY DEF NoProfiles, Record, IsInjective
<1>2. \A v : ~ get_item(NoProfiles, v)
  BY DEF NoProfiles, get_item, Contains
<1>3. Good(NoProfiles, f, J)
  BY <1>1, <1>2 DEF Good
<1> QED
  BY <1>3 DEF ReadProfiles

\* A record stays good while the files it lists stay and no import begins with a
\* uid it lists.
LEMMA GoodKept ==
  ASSUME NEW p, NEW f, NEW J, NEW g, NEW K, Good(p, f, J),
         \A u \in Uids : get_item(p, u) /\ f[u] # "none" => g[u] # "none",
         \A k \in Jobs : Fresh(K[k]) => (Fresh(J[k]) /\ K[k].uid = J[k].uid) \/ ~ get_item(p, K[k].uid)
  PROVE  Good(p, g, K)
BY DEF Good

\* A record that lists no more than a good one is good.
LEMMA GoodPart ==
  ASSUME NEW p, NEW q, NEW f, NEW J, Good(p, f, J), Record(q),
         \A v : get_item(q, v) => get_item(p, v)
  PROVE  Good(q, f, J)
BY DEF Good

\* A good record with another current profile, in another order and without one
\* of its profiles is good.
LEMMA GoodMade ==
  ASSUME NEW p, NEW f, NEW J, Good(p, f, J), NEW u
  PROVE  /\ Good(patch_config(p, u), f, J)
         /\ \A over : Good(reorder(p, u, over), f, J)
         /\ get_item(p, u) => /\ Good(plan_delete_item(p, u), f, J)
                              /\ ~ get_item(plan_delete_item(p, u), u)
<1>1. Record(p)
  BY DEF Good
<1>2. Good(patch_config(p, u), f, J)
  BY <1>1, PatchRecord, GoodPart
<1>3. \A over : Good(reorder(p, u, over), f, J)
  BY <1>1, ReorderRecord, GoodPart
<1>4. get_item(p, u) => /\ Good(plan_delete_item(p, u), f, J)
                        /\ ~ get_item(plan_delete_item(p, u), u)
  BY <1>1, PlanRecord, GoodPart
<1> QED
  BY <1>2, <1>3, <1>4

\* What every step of a command keeps, as the command goes on as x: its locks, the
\* records there are, and the files behind them.
LEMMA StepKeeps ==
  ASSUME ProfilesInv, NEW j \in Jobs, NEW x, jobs' = [jobs EXCEPT ![j] = x], IsJob(x),
         files' = [u \in Uids |-> files'[u]],
         permit' = [by |-> permit'.by, stale |-> permit'.stale],
         permit'.by \in Jobs \/ permit' = NoPermit,
         x.op \in {"delete", "switch", "restore", "exit"} /\ x.pc # "lock" => write_lock' = j,
         write_lock' = write_lock \/ write_lock \in {NoOne, j},
         Modifies(x) => permit'.by = j,
         Deleting(x) => permit'.stale = FALSE,
         \A k \in Jobs \ {j} : permit.by = k =>
           permit'.by = k /\ (Deleting(jobs[k]) => permit'.stale = permit.stale),
         profiles_draft' # <<>> =>
           \/ write_lock' = j /\ Staged(x)
           \/ profiles_draft' = profiles_draft /\ write_lock # j,
         Good(profiles_yaml', files', jobs'),
         profiles_draft' # <<>> => Good(profiles_draft', files', jobs'),
         (\A k \in Jobs : ~ Gone(jobs'[k])) => Good(profiles', files', jobs'),
         CopyGood(j, x, files', jobs'),
         \A u \in Uids : files[u] # "none" => files'[u] # "none"
           \/ \A k \in Jobs \ {j} : Modifies(jobs[k]) => ~ get_item(jobs[k].copy, u),
         Fresh(x) => \/ Fresh(jobs[j]) /\ x.uid = jobs[j].uid
                     \/ files[x.uid] = "none" /\ \A k \in Jobs : jobs[k].uid # x.uid,
         x.op \in {"import", "restore"} => \/ x.op = jobs[j].op /\ x.uid = jobs[j].uid
                                           \/ \A k \in Jobs : Fresh(jobs[k]) => jobs[k].uid # x.uid,
         Recorded(x) => ~ get_item(profiles_yaml', x.uid),
         profiles_yaml' = profiles_yaml \/ \A k \in Jobs \ {j} : ~ Recorded(jobs[k])
  PROVE  ProfilesInv'
<1> USE DEF ProfilesInv
<1>1. jobs' = [k \in Jobs |-> jobs'[k]] /\ jobs'[j] = x /\ \A k \in Jobs \ {j} : jobs'[k] = jobs[k]
  BY DEF JobShape
<1>2. JobShape'
  BY <1>1 DEF JobShape
<1>3. Locks'
  <2>1. ASSUME NEW k \in Jobs
        PROVE  /\ jobs'[k].op \in {"delete", "switch", "restore", "exit"} /\ jobs'[k].pc # "lock" => write_lock' = k
               /\ Modifies(jobs'[k]) => permit'.by = k
               /\ Deleting(jobs'[k]) => permit'.stale = FALSE
    <3>1. CASE k = j
      BY <1>1, <3>1
    <3>2. CASE k # j
      <4>1. jobs'[k] = jobs[k] /\ k # NoOne
        BY <1>1, <3>2, ProfilesAssumption
      <4>2. Deleting(jobs[k]) => Modifies(jobs[k])
        BY DEF Modifies
      <4> QED
        BY <3>2, <4>1, <4>2 DEF Locks
    <3> QED
      BY <3>1, <3>2
  <2>2. profiles_draft' # <<>> => \E k \in Jobs : write_lock' = k /\ Staged(jobs'[k])
    <3>1. CASE write_lock' = j /\ Staged(x)
      BY <1>1, <3>1
    <3>2. CASE profiles_draft' = profiles_draft /\ write_lock # j
      <4> SUFFICES ASSUME profiles_draft' # <<>> PROVE \E k \in Jobs : write_lock' = k /\ Staged(jobs'[k])
        OBVIOUS
      <4>1. PICK k \in Jobs : write_lock = k /\ Staged(jobs[k])
        BY <3>2 DEF Locks
      <4>2. k # j /\ k # NoOne
        BY <3>2, <4>1, ProfilesAssumption
      <4> QED
        BY <1>1, <4>1, <4>2
    <3> QED
      BY <3>1, <3>2
  <2> QED
    BY <2>1, <2>2 DEF Locks
<1>4. \A k \in Jobs \ {j} : CopyGood(k, jobs'[k], files', jobs')
  <2> SUFFICES ASSUME NEW k \in Jobs \ {j} PROVE CopyGood(k, jobs[k], files', jobs')
    BY <1>1
  <2> DEFINE c == jobs[k].copy
             l == [files EXCEPT ![jobs[k].uid] = jobs[k].text]
             m == [files' EXCEPT ![jobs[k].uid] = jobs[k].text]
             rest == [jobs EXCEPT ![k] = NoJob]
             others == [jobs' EXCEPT ![k] = NoJob]
  <2>1. CopyGood(k, jobs[k], files, jobs)
    BY DEF Copies
  <2>2. Modifies(jobs[k]) => \A u \in Uids : get_item(c, u) /\ files[u] # "none" => files'[u] # "none"
    OBVIOUS
  <2>3. Modifies(jobs[k]) /\ ~ Fresh(jobs[k]) => Good(c, files', jobs')
    <3> SUFFICES ASSUME Modifies(jobs[k]), ~ Fresh(jobs[k]) PROVE Good(c, files', jobs')
      OBVIOUS
    <3>1. Good(c, files, jobs)
      BY <2>1 DEF CopyGood
    <3>2. ASSUME NEW i \in Jobs, Fresh(jobs'[i])
          PROVE  (Fresh(jobs[i]) /\ jobs'[i].uid = jobs[i].uid) \/ ~ get_item(c, jobs'[i].uid)
      <4>1. CASE i # j
        BY <1>1, <3>2, <4>1
      <4>2. CASE i = j
        <5>1. Fresh(x) /\ jobs'[i] = x /\ x.uid \in Uids
          BY <1>1, <3>2, <4>2 DEF Fresh, IsJob
        <5>2. CASE files[x.uid] = "none"
          BY <3>1, <5>1, <5>2 DEF Good
        <5> QED
          BY <4>2, <5>1, <5>2
      <4> QED
        BY <4>1, <4>2
    <3> HIDE DEF c
    <3> QED
      BY <2>2, <3>1, <3>2, GoodKept
  <2>4. Modifies(jobs[k]) /\ Fresh(jobs[k]) => Good(c, m, others)
    <3> SUFFICES ASSUME Modifies(jobs[k]), Fresh(jobs[k]) PROVE Good(c, m, others)
      OBVIOUS
    <3>1. Good(c, l, rest)
      BY <2>1 DEF CopyGood
    <3>2. \A i \in Jobs : rest[i] = (IF i = k THEN NoJob ELSE jobs[i]) /\ others[i] = (IF i = k THEN NoJob ELSE jobs'[i])
      BY <1>1 DEF JobShape
    <3>3. ~ Fresh(NoJob)
      BY DEF Fresh, NoJob
    <3>4. jobs[k].uid \in Uids /\ jobs[k].text # "none"
      BY DEF Fresh, JobShape, IsJob
    <3>5. \A u \in Uids : /\ l[u] = IF u = jobs[k].uid THEN jobs[k].text ELSE files[u]
                          /\ m[u] = IF u = jobs[k].uid THEN jobs[k].text ELSE files'[u]
      BY DEF JobShape
    <3> HIDE DEF c, l, m, rest, others
    <3>6. \A u \in Uids : get_item(c, u) /\ l[u] # "none" => m[u] # "none"
      BY <2>2, <3>4, <3>5
    <3>7. ASSUME NEW i \in Jobs, Fresh(others[i])
          PROVE  (Fresh(rest[i]) /\ others[i].uid = rest[i].uid) \/ ~ get_item(c, others[i].uid)
      <4>1. i # k /\ rest[i] = jobs[i] /\ others[i] = jobs'[i] /\ Fresh(jobs'[i])
        BY <3>2, <3>3, <3>7
      <4>2. CASE i # j
        BY <1>1, <4>1, <4>2
      <4>3. CASE i = j
        <5>1. Fresh(x) /\ jobs'[i] = x /\ x.uid \in Uids
          BY <1>1, <4>1, <4>3 DEF Fresh, IsJob
        <5>2. CASE files[x.uid] = "none" /\ \A h \in Jobs : jobs[h].uid # x.uid
          <6>1. l[x.uid] = "none"
            BY <3>5, <5>1, <5>2
          <6> QED
            BY <3>1, <4>1, <5>1, <6>1 DEF Good
        <5> QED
          BY <4>1, <4>3, <5>1, <5>2
      <4> QED
        BY <4>2, <4>3
    <3> QED
      BY <3>1, <3>6, <3>7, GoodKept
  <2> QED
    BY <2>1, <2>3, <2>4 DEF CopyGood
<1>5. Copies'
  <2>1. \A k \in Jobs : CopyGood(k, jobs'[k], files', jobs')
    BY <1>1, <1>4
  <2>2. \A k \in Jobs : Recorded(jobs'[k]) => ~ get_item(profiles_yaml', jobs'[k].uid)
    BY <1>1 DEF Copies
  <2> QED
    BY <2>1, <2>2 DEF Copies
<1>6. Distinct'
  <2> SUFFICES ASSUME NEW i \in Jobs, NEW k \in Jobs, Fresh(jobs'[i]), k # i, jobs'[k].op \in {"import", "restore"}
               PROVE  jobs'[k].uid # jobs'[i].uid
    BY DEF Distinct
  <2>1. CASE i # j /\ k # j
    BY <1>1, <2>1 DEF Distinct
  <2>2. CASE i = j
    BY <1>1, <2>2 DEF Distinct
  <2>3. CASE k = j
    BY <1>1, <2>3 DEF Distinct
  <2> QED
    BY <2>1, <2>2, <2>3
<1> QED
  BY <1>2, <1>3, <1>5, <1>6

\* What a step leaves of a good record when no file goes and no import begins.
LEMMA GoodStays ==
  ASSUME ProfilesInv, NEW j \in Jobs, NEW x, jobs' = [jobs EXCEPT ![j] = x],
         Fresh(x) => Fresh(jobs[j]) /\ x.uid = jobs[j].uid,
         \A u \in Uids : files[u] # "none" => files'[u] # "none"
  PROVE  \A p : Good(p, files, jobs) => Good(p, files', jobs')
<1>1. jobs'[j] = x /\ \A k \in Jobs \ {j} : jobs'[k] = jobs[k]
  BY DEF ProfilesInv, JobShape
<1>2. \A k \in Jobs : Fresh(jobs'[k]) => Fresh(jobs[k]) /\ jobs'[k].uid = jobs[k].uid
  BY <1>1
<1> QED
  BY <1>2, GoodKept

\* While nobody has the permit, there is no modification, and memory is right.
LEMMA NoneModify ==
  ASSUME ProfilesInv, permit = NoPermit
  PROVE  /\ \A k \in Jobs : ~ Modifies(jobs[k]) /\ ~ Deleting(jobs[k]) /\ ~ Gone(jobs[k]) /\ ~ Recorded(jobs[k])
         /\ Good(profiles, files, jobs)
<1>1. permit.by = NoOne
  BY DEF NoPermit
<1>2. \A k \in Jobs : ~ Modifies(jobs[k])
  BY <1>1, ProfilesAssumption DEF ProfilesInv, Locks
<1>3. \A k \in Jobs : ~ Deleting(jobs[k]) /\ ~ Gone(jobs[k]) /\ ~ Recorded(jobs[k])
  BY <1>2 DEF Modifies, Deleting, Gone, Recorded
<1> QED
  BY <1>2, <1>3 DEF ProfilesInv, Copies

\* A modification is alone.
LEMMA AloneModifies ==
  ASSUME ProfilesInv, NEW j \in Jobs, Modifies(jobs[j])
  PROVE  /\ permit.by = j /\ permit # NoPermit
         /\ \A k \in Jobs \ {j} : ~ Modifies(jobs[k]) /\ ~ Deleting(jobs[k]) /\ ~ Gone(jobs[k]) /\ ~ Recorded(jobs[k])
         /\ ~ Gone(jobs[j]) => Good(profiles, files, jobs)
<1>1. permit.by = j
  BY DEF ProfilesInv, Locks
<1>2. \A k \in Jobs \ {j} : ~ Modifies(jobs[k])
  BY <1>1 DEF ProfilesInv, Locks
<1>3. \A k \in Jobs \ {j} : ~ Deleting(jobs[k]) /\ ~ Gone(jobs[k]) /\ ~ Recorded(jobs[k])
  BY <1>2 DEF Modifies, Deleting, Gone, Recorded
<1>4. permit # NoPermit
  BY <1>1, ProfilesAssumption DEF NoPermit
<1> QED
  BY <1>1, <1>2, <1>3, <1>4 DEF ProfilesInv, Copies

\* A command that holds the write lock is the only one to delete or to stage.
LEMMA AloneLocks ==
  ASSUME ProfilesInv, NEW j \in Jobs,
         jobs[j].op \in {"delete", "switch", "restore", "exit"}, jobs[j].pc # "lock"
  PROVE  /\ write_lock = j
         /\ \A k \in Jobs \ {j} : ~ Deleting(jobs[k]) /\ ~ Gone(jobs[k]) /\ ~ Recorded(jobs[k])
         /\ profiles_draft # <<>> => Staged(jobs[j])
         /\ jobs[j].op # "delete" => Good(profiles, files, jobs) /\ Good(latest_arc, files, jobs)
<1>1. write_lock = j
  BY DEF ProfilesInv, Locks
<1>2. \A k \in Jobs \ {j} : ~ (jobs[k].op = "delete" /\ jobs[k].pc # "lock")
  BY <1>1 DEF ProfilesInv, Locks
<1>3. \A k \in Jobs \ {j} : ~ Deleting(jobs[k]) /\ ~ Gone(jobs[k]) /\ ~ Recorded(jobs[k])
  BY <1>2 DEF Deleting, Gone, Recorded
<1>4. profiles_draft # <<>> => Staged(jobs[j])
  BY <1>1 DEF ProfilesInv, Locks
<1>5. ASSUME jobs[j].op # "delete" PROVE Good(profiles, files, jobs)
  BY <1>3, <1>5 DEF ProfilesInv, Copies, Gone
<1>6. ASSUME jobs[j].op # "delete" PROVE Good(latest_arc, files, jobs)
  BY <1>5, <1>6 DEF ProfilesInv, Copies, latest_arc
<1> QED
  BY <1>1, <1>3, <1>4, <1>5, <1>6

\* A job y that goes on as x without touching what is shared.
Goes(y, x) ==
  /\ IsJob(x)
  /\ x.op \in {"delete", "switch", "restore", "exit"} /\ x.pc # "lock" => x.op = y.op /\ y.pc # "lock"
  /\ Modifies(x) => /\ Modifies(y) /\ x.copy = y.copy /\ x.uid = y.uid /\ x.text = y.text
                    /\ Fresh(y) => Fresh(x)
                    /\ Deleting(x) => Deleting(y)
  /\ Gone(y) => Gone(x)
  /\ Staged(y) => Staged(x)
  /\ Fresh(x) => Fresh(y) /\ x.uid = y.uid
  /\ x.op \in {"import", "restore"} => x.op = y.op /\ x.uid = y.uid
  /\ Recorded(x) => Recorded(y) /\ x.uid = y.uid

\* Such a step keeps the invariant.
LEMMA QuietKeeps ==
  ASSUME ProfilesInv, NEW j \in Jobs, NEW x, jobs' = [jobs EXCEPT ![j] = x], Goes(jobs[j], x),
         UNCHANGED <<profiles, profiles_draft, profiles_yaml, files, write_lock, permit>>
  PROVE  ProfilesInv'
<1> DEFINE y == jobs[j]
<1>1. jobs'[j] = x /\ \A k \in Jobs \ {j} : jobs'[k] = jobs[k]
  BY DEF ProfilesInv, JobShape
<1>2. \A p : Good(p, files, jobs) => Good(p, files', jobs')
  BY GoodStays DEF Goes
<1>3. IsJob(x) /\ files' = [u \in Uids |-> files'[u]]
  BY DEF Goes, ProfilesInv, JobShape
<1>4. permit' = [by |-> permit'.by, stale |-> permit'.stale] /\ (permit'.by \in Jobs \/ permit' = NoPermit)
  BY DEF ProfilesInv, JobShape
<1>5. x.op \in {"delete", "switch", "restore", "exit"} /\ x.pc # "lock" => write_lock' = j
  BY DEF Goes, ProfilesInv, Locks
<1>6. Modifies(x) => permit'.by = j
  BY DEF Goes, ProfilesInv, Locks
<1>7. Deleting(x) => permit'.stale = FALSE
  <2>1. Deleting(x) => Deleting(y)
    BY DEF Goes, Modifies
  <2> QED
    BY <2>1 DEF ProfilesInv, Locks
<1>8. profiles_draft' # <<>> => \/ write_lock' = j /\ Staged(x)
                                \/ profiles_draft' = profiles_draft /\ write_lock # j
  BY DEF Goes, ProfilesInv, Locks
<1>9. Good(profiles_yaml', files', jobs') /\ (profiles_draft' # <<>> => Good(profiles_draft', files', jobs'))
  BY <1>2 DEF ProfilesInv, Copies
<1>10. (\A k \in Jobs : ~ Gone(jobs'[k])) => Good(profiles', files', jobs')
  <2>1. (\A k \in Jobs : ~ Gone(jobs'[k])) => \A k \in Jobs : ~ Gone(jobs[k])
    BY <1>1 DEF Goes
  <2> QED
    BY <1>2, <2>1 DEF ProfilesInv, Copies
<1>11. CopyGood(j, x, files', jobs')
  <2>1. CopyGood(j, y, files, jobs)
    BY DEF ProfilesInv, Copies
  <2>2. [jobs' EXCEPT ![j] = NoJob] = [jobs EXCEPT ![j] = NoJob]
    BY DEF ProfilesInv, JobShape
  <2>3. Modifies(x) /\ ~ Fresh(x) => Good(x.copy, files', jobs')
    BY <1>2, <2>1 DEF Goes, CopyGood
  <2>4. Modifies(x) /\ Fresh(x) => Good(x.copy, [files' EXCEPT ![x.uid] = x.text], [jobs' EXCEPT ![j] = NoJob])
    BY <2>1, <2>2 DEF Goes, CopyGood
  <2>5. Deleting(x) => ~ get_item(x.copy, x.uid)
    BY <2>1 DEF Goes, CopyGood, Modifies
  <2> QED
    BY <2>3, <2>4, <2>5 DEF CopyGood
<1>12. Recorded(x) => ~ get_item(profiles_yaml', x.uid)
  BY DEF Goes, ProfilesInv, Copies
<1>13. Fresh(x) => Fresh(jobs[j]) /\ x.uid = jobs[j].uid
  BY DEF Goes
<1>14. x.op \in {"import", "restore"} => x.op = jobs[j].op /\ x.uid = jobs[j].uid
  BY DEF Goes
<1> QED
  BY <1>3, <1>4, <1>5, <1>6, <1>7, <1>8, <1>9, <1>10, <1>11, <1>12, <1>13, <1>14, StepKeeps

\* No job is a job, and none of the cases.
LEMMA NoJobIs ==
  /\ IsJob(NoJob) /\ NoJob.op = "none" /\ NoJob.pc = "idle" /\ NoJob.uid = NoOne
  /\ ~ Fresh(NoJob) /\ ~ Modifies(NoJob) /\ ~ Deleting(NoJob) /\ ~ Gone(NoJob) /\ ~ Staged(NoJob) /\ ~ Recorded(NoJob)
BY DEF NoJob, IsJob, Fresh, Modifies, Deleting, Gone, Staged, Recorded

\* The fields of a job that moves on.
LEMMA MovedIs ==
  ASSUME ProfilesInv, NEW j \in Jobs, NEW pc
  PROVE  LET y == jobs[j]
             x == [jobs[j] EXCEPT !.pc = pc]
         IN  /\ x.op = y.op /\ x.pc = pc /\ x.uid = y.uid /\ x.copy = y.copy /\ x.text = y.text
             /\ DOMAIN x = DOMAIN y
             /\ [jobs EXCEPT ![j].pc = pc] = [jobs EXCEPT ![j] = x]
             /\ IsJob(y)
<1>1. IsJob(jobs[j])
  BY DEF ProfilesInv, JobShape
<1> QED
  BY <1>1 DEF IsJob

\* A command ends without touching what is shared.
LEMMA EndKeeps ==
  ASSUME ProfilesInv, NEW j \in Jobs, JobDone(j), ~ Gone(jobs[j]), ~ Staged(jobs[j]),
         UNCHANGED <<profiles, profiles_draft, profiles_yaml, files, write_lock, permit>>
  PROVE  ProfilesInv'
<1>1. Goes(jobs[j], NoJob)
  BY NoJobIs DEF Goes
<1> QED
  BY <1>1, QuietKeeps DEF JobDone

\* A step from a to b of command op that touches nothing shared.
Passes(op, a, b) ==
  /\ b \in {"extract", "reload", "take"} => op = "restore"
  /\ b \in {"fetch by core", "fetch by proxy"} => op # "import"
  /\ op \in {"delete", "switch", "restore", "exit"} /\ b # "lock" => a # "lock"
  /\ b \notin {"write", "edited", "storing", "cleanup", "gone"} /\ a \notin {"write", "edited", "storing", "gone"}
  /\ op = "import" /\ b \in {"fetch", "append"} => a \in {"fetch", "append"}
  /\ op = "delete" /\ b \in {"update", "generate", "apply", "record", "rollback", "reapply"} =>
       a \in {"update", "generate", "apply", "record", "rollback", "reapply"}
  /\ op = "switch" /\ a \in {"update", "generate", "apply", "commit", "discard", "reinstate"} =>
       b \in {"update", "generate", "apply", "commit", "discard", "reinstate"}
  /\ op = "restore" => a # "take"

\* Such a step keeps the invariant, whatever else the job notes down.
LEMMA PassKeeps ==
  ASSUME ProfilesInv, NEW j \in Jobs, NEW x, jobs' = [jobs EXCEPT ![j] = x],
         x.op = jobs[j].op, x.uid = jobs[j].uid, x.copy = jobs[j].copy, x.text = jobs[j].text,
         DOMAIN x = DOMAIN jobs[j],
         Passes(jobs[j].op, jobs[j].pc, x.pc),
         UNCHANGED <<profiles, profiles_draft, profiles_yaml, files, write_lock, permit>>
  PROVE  ProfilesInv'
<1>2. IsJob(jobs[j])
  BY DEF ProfilesInv, JobShape
<1>3. IsJob(x)
  BY <1>2 DEF Passes, IsJob
<1>4. Modifies(x) => /\ Modifies(jobs[j]) /\ (Fresh(jobs[j]) => Fresh(x))
                     /\ Deleting(x) => Deleting(jobs[j])
  BY DEF Passes, Modifies, Deleting, Fresh
<1>5. (Gone(jobs[j]) => Gone(x)) /\ (Staged(jobs[j]) => Staged(x)) /\ (Recorded(x) => Recorded(jobs[j]))
  BY DEF Passes, Gone, Staged, Recorded
<1>6. Fresh(x) => Fresh(jobs[j])
  BY DEF Passes, Fresh
<1>7. x.op \in {"delete", "switch", "restore", "exit"} /\ x.pc # "lock" => jobs[j].pc # "lock"
  BY DEF Passes
<1>8. Goes(jobs[j], x)
  BY <1>3, <1>4, <1>5, <1>6, <1>7 DEF Goes
<1> QED
  BY <1>8, QuietKeeps

\* The same for a step that notes nothing.
LEMMA GotoKeeps ==
  ASSUME ProfilesInv, NEW j \in Jobs, NEW pc, JobGoto(j, pc), Passes(jobs[j].op, jobs[j].pc, pc),
         UNCHANGED <<profiles, profiles_draft, profiles_yaml, files, write_lock, permit>>
  PROVE  ProfilesInv'
<1> DEFINE x == [jobs[j] EXCEPT !.pc = pc]
<1>1. /\ x.op = jobs[j].op /\ x.pc = pc /\ x.uid = jobs[j].uid /\ x.copy = jobs[j].copy
      /\ x.text = jobs[j].text /\ DOMAIN x = DOMAIN jobs[j]
      /\ jobs' = [jobs EXCEPT ![j] = x]
  BY MovedIs DEF JobGoto
<1> HIDE DEF x
<1> QED
  BY <1>1, PassKeeps

\* Fetching, checking and reading touch nothing shared.
LEMMA ReadsKeep ==
  ASSUME ProfilesInv, NEW j \in Jobs,
         from_url(j) \/ should_update_profile(j) \/ SaveRead(j) \/ handle_saved_profile_file(j)
  PROVE  ProfilesInv'
<1>1. CASE from_url(j)
  <2>1. UNCHANGED <<profiles, profiles_draft, profiles_yaml, files, write_lock, permit>>
    BY <1>1 DEF from_url, store, persisted, flags
  <2>2. jobs[j].pc \in {"fetch", "fetch by core", "fetch by proxy"} /\ ~ Gone(jobs[j]) /\ ~ Staged(jobs[j])
    BY <1>1 DEF from_url, Gone, Staged
  <2>3. jobs[j].pc \in {"fetch by core", "fetch by proxy"} => jobs[j].op # "import"
    BY MovedIs DEF IsJob
  <2>4. CASE JobDone(j)
    BY <2>1, <2>2, <2>4, EndKeeps
  <2>5. CASE JobGoto(j, IF jobs[j].op = "import" THEN "append" ELSE "edit")
    <3>1. Passes(jobs[j].op, jobs[j].pc, IF jobs[j].op = "import" THEN "append" ELSE "edit")
      BY <2>2, <2>3 DEF Passes
    <3> QED
      BY <2>1, <2>5, <3>1, GotoKeeps
  <2>6. CASE jobs[j].op # "import" /\ \E pc \in {"fetch by core", "fetch by proxy"} : JobGoto(j, pc)
    <3>1. \A pc \in {"fetch by core", "fetch by proxy"} : Passes(jobs[j].op, jobs[j].pc, pc)
      BY <2>2, <2>6 DEF Passes
    <3> QED
      BY <2>1, <2>6, <3>1, GotoKeeps
  <2>7. perform_profile_update(j) =>
          JobDone(j) \/ (jobs[j].op # "import" /\ \E pc \in {"fetch by core", "fetch by proxy"} : JobGoto(j, pc))
    BY DEF perform_profile_update, At
  <2> QED
    BY <1>1, <2>4, <2>5, <2>6, <2>7 DEF from_url
<1>2. CASE should_update_profile(j)
  <2>1. UNCHANGED <<profiles, profiles_draft, profiles_yaml, files, write_lock, permit>>
    BY <1>2 DEF should_update_profile, store, persisted, flags
  <2>2. jobs[j].op = "update" /\ jobs[j].pc = "check" /\ ~ Gone(jobs[j]) /\ ~ Staged(jobs[j])
    BY <1>2 DEF should_update_profile, At, Gone, Staged
  <2>3. \A pc \in {"fetch", "update"} : Passes(jobs[j].op, jobs[j].pc, pc)
    BY <2>2 DEF Passes
  <2>4. JobDone(j) \/ JobGoto(j, "fetch") \/ JobGoto(j, "update")
    BY <1>2 DEF should_update_profile
  <2> QED
    BY <2>1, <2>2, <2>3, <2>4, EndKeeps, GotoKeeps
<1>3. CASE SaveRead(j)
  <2>1. UNCHANGED <<profiles, profiles_draft, profiles_yaml, files, write_lock, permit>>
    BY <1>3 DEF SaveRead, store, persisted, flags
  <2>2. jobs[j].op = "save" /\ jobs[j].pc = "read" /\ ~ Gone(jobs[j]) /\ ~ Staged(jobs[j])
    BY <1>3 DEF SaveRead, At, Gone, Staged
  <2>3. CASE JobDone(j)
    BY <2>1, <2>2, <2>3, EndKeeps
  <2>4. CASE jobs' = [jobs EXCEPT ![j].pc = "put", ![j].original = files[jobs[j].uid], ![j].prev = latest_arc.current]
    <3> DEFINE f == files[jobs[j].uid]
               c == latest_arc.current
               x == [jobs[j] EXCEPT !.pc = "put", !.original = f, !.prev = c]
    <3> HIDE DEF f, c
    <3>1. jobs' = [jobs EXCEPT ![j] = x]
      BY <2>4 DEF ProfilesInv, JobShape, f, c
    <3>2. IsJob(jobs[j])
      BY DEF ProfilesInv, JobShape
    <3>3. /\ x.op = jobs[j].op /\ x.pc = "put" /\ x.uid = jobs[j].uid /\ x.copy = jobs[j].copy
          /\ x.text = jobs[j].text /\ DOMAIN x = DOMAIN jobs[j]
      BY <3>2 DEF IsJob
    <3> HIDE DEF x
    <3>5. Passes(jobs[j].op, jobs[j].pc, x.pc)
      BY <2>2, <3>3 DEF Passes
    <3> QED
      BY <2>1, <3>1, <3>3, <3>5, PassKeeps
  <2> QED
    BY <1>3, <2>3, <2>4 DEF SaveRead
<1>4. CASE handle_saved_profile_file(j)
  <2>1. UNCHANGED <<profiles, profiles_draft, profiles_yaml, files, write_lock, permit>>
    BY <1>4 DEF handle_saved_profile_file, store, persisted, flags
  <2>2. jobs[j].op = "save" /\ jobs[j].pc = "validate" /\ ~ Gone(jobs[j]) /\ ~ Staged(jobs[j])
    BY <1>4 DEF handle_saved_profile_file, At, Gone, Staged
  <2>3. \A pc \in {"update", "restore"} : Passes(jobs[j].op, jobs[j].pc, pc)
    BY <2>2 DEF Passes
  <2>4. JobDone(j) \/ JobGoto(j, "update") \/ JobGoto(j, "restore")
    BY <1>4 DEF handle_saved_profile_file
  <2> QED
    BY <2>1, <2>2, <2>3, <2>4, EndKeeps, GotoKeeps
<1> QED
  BY <1>1, <1>2, <1>3, <1>4

\* A configuration update touches the core, its flag and nothing of the profiles.
LEMMA UpdateKeeps ==
  ASSUME ProfilesInv, NEW j \in Jobs,
         update_config_with_force(j) \/ generate(j) \/ validate_and_apply(j) \/ restore_profile_config(j)
  PROVE  ProfilesInv'
<1>1. UNCHANGED <<profiles, profiles_draft, profiles_yaml, files, write_lock, permit>>
  BY DEF update_config_with_force, generate, validate_and_apply, restore_profile_config, store, persisted, flags
<1>3. CASE update_config_with_force(j)
  <2>1. jobs[j].pc = "update" /\ (JobGoto(j, "generate") \/ JobGoto(j, Outcome(j, FALSE)))
    BY <1>3 DEF update_config_with_force
  <2>2. Passes(jobs[j].op, jobs[j].pc, "generate") /\ Passes(jobs[j].op, jobs[j].pc, Outcome(j, FALSE))
    BY <2>1 DEF Passes, Outcome
  <2> QED
    BY <1>1, <2>1, <2>2, GotoKeeps
<1>4. CASE generate(j)
  <2> DEFINE p == CASE jobs[j].pc = "rollback"      -> profiles
                    [] At(j, "delete", "generate") -> jobs[j].copy
                    [] OTHER                       -> latest_arc
             m == current_mapping(p)
             x == [jobs[j] EXCEPT !.seen = m, !.pc = IF @ = "rollback" THEN "reapply" ELSE "apply"]
  <2>1. /\ jobs[j].pc \in {"generate", "rollback"}
        /\ jobs' = [jobs EXCEPT ![j].seen = m, ![j].pc = IF @ = "rollback" THEN "reapply" ELSE "apply"]
    BY <1>4 DEF generate
  <2> HIDE DEF m
  <2>2. jobs' = [jobs EXCEPT ![j] = x]
    BY <2>1 DEF ProfilesInv, JobShape
  <2>3. IsJob(jobs[j])
    BY DEF ProfilesInv, JobShape
  <2>4. /\ x.op = jobs[j].op /\ x.pc = (IF jobs[j].pc = "rollback" THEN "reapply" ELSE "apply")
        /\ x.uid = jobs[j].uid /\ x.copy = jobs[j].copy
        /\ x.text = jobs[j].text /\ DOMAIN x = DOMAIN jobs[j]
    BY <2>3 DEF IsJob
  <2> HIDE DEF x
  <2>6. Passes(jobs[j].op, jobs[j].pc, x.pc)
    BY <2>1, <2>4 DEF Passes
  <2> QED
    BY <1>1, <2>2, <2>4, <2>6, PassKeeps
<1>5. CASE validate_and_apply(j)
  <2>1. /\ jobs[j].pc = "apply"
        /\ \/ JobGoto(j, Outcome(j, TRUE))
           \/ JobGoto(j, Outcome(j, FALSE))
           \/ jobs[j].op = "delete" /\ JobGoto(j, "rollback")
    BY <1>5 DEF validate_and_apply
  <2>2. Passes(jobs[j].op, jobs[j].pc, Outcome(j, TRUE)) /\ Passes(jobs[j].op, jobs[j].pc, Outcome(j, FALSE))
    BY <2>1 DEF Passes, Outcome
  <2>3. jobs[j].op = "delete" => Passes(jobs[j].op, jobs[j].pc, "rollback")
    BY <2>1 DEF Passes
  <2> QED
    BY <1>1, <2>1, <2>2, <2>3, GotoKeeps
<1>6. CASE restore_profile_config(j)
  <2>1. jobs[j].pc = "reapply" /\ JobGoto(j, "unlock")
    BY <1>6 DEF restore_profile_config
  <2>2. Passes(jobs[j].op, jobs[j].pc, "unlock")
    BY <2>1 DEF Passes
  <2> QED
    BY <1>1, <2>1, <2>2, GotoKeeps
<1> QED
  BY <1>3, <1>4, <1>5, <1>6

\* A modification begins: it takes the permit and its copy.
LEMMA CopyKeeps ==
  ASSUME ProfilesInv, NEW j \in Jobs, NEW pc, NEW c, CopyData(j, pc, c),
         UNCHANGED <<profiles, profiles_draft, profiles_yaml, files, write_lock>>,
         \/ jobs[j].op = "import" /\ jobs[j].pc = "append" /\ pc = "write"
         \/ jobs[j].pc \in {"edit", "store"} /\ pc \in {"edited", "storing"}
         \/ jobs[j].op = "delete" /\ jobs[j].pc = "plan" /\ pc \in {"update", "record"},
         pc # "write" => Good(c, files, jobs),
         pc = "write" => Good(c, [files EXCEPT ![jobs[j].uid] = jobs[j].text], [jobs EXCEPT ![j] = NoJob]),
         pc \in {"update", "record"} => ~ get_item(c, jobs[j].uid)
  PROVE  ProfilesInv'
<1> DEFINE x == [jobs[j] EXCEPT !.pc = pc, !.copy = c]
<1>1. IsJob(jobs[j]) /\ permit = NoPermit /\ permit' = [by |-> j, stale |-> FALSE]
  BY DEF ProfilesInv, JobShape, CopyData
<1>2. jobs' = [jobs EXCEPT ![j] = x]
  BY DEF CopyData, ProfilesInv, JobShape
<1>3. /\ x.op = jobs[j].op /\ x.pc = pc /\ x.uid = jobs[j].uid /\ x.copy = c
      /\ x.text = jobs[j].text /\ DOMAIN x = DOMAIN jobs[j]
  BY <1>1 DEF IsJob
<1> HIDE DEF x
<1>4. IsJob(x)
  BY <1>1, <1>3 DEF IsJob
<1>5. /\ Fresh(x) <=> pc = "write"
      /\ Fresh(x) => Fresh(jobs[j])
      /\ Deleting(x) => pc \in {"update", "record"}
      /\ ~ Gone(x) /\ ~ Recorded(x)
      /\ ~ Staged(jobs[j]) /\ jobs[j].pc # "lock"
  BY <1>3 DEF Fresh, Deleting, Gone, Recorded, Staged
<1>6. \A k \in Jobs : ~ Modifies(jobs[k]) /\ ~ Recorded(jobs[k])
  BY <1>1, NoneModify
<1>7. \A p : Good(p, files, jobs) => Good(p, files', jobs')
  BY <1>2, <1>3, <1>5, GoodStays
<1>8. CopyGood(j, x, files', jobs')
  <2>1. ~ Fresh(x) => Good(x.copy, files', jobs')
    BY <1>3, <1>5, <1>7
  <2>2. [jobs' EXCEPT ![j] = NoJob] = [jobs EXCEPT ![j] = NoJob]
    BY <1>2 DEF ProfilesInv, JobShape
  <2>3. Fresh(x) => Good(x.copy, [files' EXCEPT ![x.uid] = x.text], [jobs' EXCEPT ![j] = NoJob])
    BY <1>3, <1>5, <2>2
  <2>4. Deleting(x) => ~ get_item(x.copy, x.uid)
    BY <1>3, <1>5
  <2> QED
    BY <2>1, <2>3, <2>4 DEF CopyGood
<1>9. Good(profiles_yaml', files', jobs') /\ (profiles_draft' # <<>> => Good(profiles_draft', files', jobs'))
  BY <1>7 DEF ProfilesInv, Copies
<1>10. Good(profiles', files', jobs')
  BY <1>1, <1>7, NoneModify
<1>11. files' = [u \in Uids |-> files'[u]]
  BY DEF ProfilesInv, JobShape
<1>12. /\ permit' = [by |-> permit'.by, stale |-> permit'.stale] /\ permit'.by = j
       /\ permit'.stale = FALSE /\ \A k \in Jobs : permit.by # k
  BY <1>1, ProfilesAssumption DEF NoPermit
<1>13. x.op \in {"delete", "switch", "restore", "exit"} /\ x.pc # "lock" => write_lock' = j
  BY <1>3, <1>5 DEF ProfilesInv, Locks
<1>14. profiles_draft' # <<>> => profiles_draft' = profiles_draft /\ write_lock # j
  BY <1>5 DEF ProfilesInv, Locks
<1> QED
  BY <1>2, <1>3, <1>4, <1>5, <1>6, <1>8, <1>9, <1>10, <1>11, <1>12, <1>13, <1>14, StepKeeps

\* Copying the profiles: the commands that do.
LEMMA CopiesKeep ==
  ASSUME ProfilesInv, NEW j \in Jobs,
         profiles_append_item_safe(j) \/ Edit(j) \/ SaveCopy(j) \/ DeletePlan(j)
  PROVE  ProfilesInv'
<1>1. UNCHANGED <<profiles, profiles_draft, profiles_yaml, files, write_lock>>
  BY DEF profiles_append_item_safe, Edit, SaveCopy, DeletePlan, store, persisted, flags
<1>2. permit = NoPermit => Good(profiles, files, jobs)
  BY NoneModify
<1>3. CASE profiles_append_item_safe(j)
  <2> DEFINE u == jobs[j].uid
             t == jobs[j].text
             f == [files EXCEPT ![u] = t]
             rest == [jobs EXCEPT ![j] = NoJob]
             c == append_item(profiles, u)
  <2>1. jobs[j].op = "import" /\ jobs[j].pc = "append" /\ CopyData(j, "write", c) /\ permit = NoPermit
    BY <1>3 DEF profiles_append_item_safe, At, CopyData
  <2>2. u \in Uids /\ t # "none" /\ Fresh(jobs[j])
    BY <2>1 DEF ProfilesInv, JobShape, IsJob, Fresh
  <2>3. Good(profiles, files, jobs) /\ ~ get_item(profiles, u) /\ Record(profiles)
    BY <1>2, <2>1, <2>2 DEF Good
  <2>4. Record(c) /\ \A v : get_item(c, v) => v = u \/ get_item(profiles, v)
    BY <2>2, <2>3, AppendRecord
  <2>5. \A v \in Uids : f[v] = IF v = u THEN t ELSE files[v]
    BY DEF ProfilesInv, JobShape
  <2>6. \A k \in Jobs : rest[k] = IF k = j THEN NoJob ELSE jobs[k]
    BY DEF ProfilesInv, JobShape
  <2>7. \A k \in Jobs : k # j /\ Fresh(jobs[k]) => jobs[k].uid # u
    BY <2>1 DEF ProfilesInv, Distinct
  <2> HIDE DEF f, rest, c
  <2>8. \A v \in Uids : get_item(c, v) => f[v] # "none"
    BY <2>2, <2>3, <2>4, <2>5 DEF Good
  <2>9. \A k \in Jobs : Fresh(rest[k]) => ~ get_item(c, rest[k].uid)
    BY <2>3, <2>4, <2>6, <2>7, NoJobIs DEF Good
  <2>10. Good(c, f, rest)
    BY <2>4, <2>8, <2>9 DEF Good
  <2> QED
    BY <1>1, <2>1, <2>10, CopyKeeps DEF f, rest
<1>4. CASE Edit(j)
  <2> DEFINE c == IF jobs[j].op = "reorder" THEN reorder(profiles, jobs[j].uid, jobs[j].text) ELSE profiles
  <2>1. jobs[j].pc = "edit" /\ CopyData(j, "edited", c) /\ permit = NoPermit
    BY <1>4 DEF Edit, CopyData
  <2>2. Good(c, files, jobs)
    BY <1>2, <2>1, GoodMade
  <2> HIDE DEF c
  <2> QED
    BY <1>1, <2>1, <2>2, CopyKeeps
<1>5. CASE SaveCopy(j)
  <2>1. jobs[j].pc = "store" /\ CopyData(j, "storing", profiles) /\ permit = NoPermit
    BY <1>5 DEF SaveCopy, CopyData
  <2> QED
    BY <1>1, <1>2, <2>1, CopyKeeps
<1>6. CASE DeletePlan(j)
  <2> DEFINE c == plan_delete_item(profiles, jobs[j].uid)
             pc == IF profiles.current \in {NoOne, jobs[j].uid} THEN "update" ELSE "record"
  <2>1. jobs[j].op = "delete" /\ jobs[j].pc = "plan" /\ permit = NoPermit
    BY <1>6 DEF DeletePlan, At
  <2>2. CASE get_item(profiles, jobs[j].uid)
    <3>1. CopyData(j, pc, c) /\ pc \in {"update", "record"}
      BY <1>6, <2>2 DEF DeletePlan
    <3>2. Good(c, files, jobs) /\ ~ get_item(c, jobs[j].uid)
      BY <1>2, <2>1, <2>2, GoodMade
    <3> HIDE DEF c, pc
    <3> QED
      BY <1>1, <2>1, <3>1, <3>2, CopyKeeps
  <2>3. CASE ~ get_item(profiles, jobs[j].uid)
    <3>1. JobGoto(j, "unlock") /\ UNCHANGED permit
      BY <1>6, <2>3 DEF DeletePlan
    <3>2. Passes(jobs[j].op, jobs[j].pc, "unlock")
      BY <2>1 DEF Passes
    <3> QED
      BY <1>1, <3>1, <3>2, GotoKeeps
  <2> QED
    BY <2>2, <2>3
<1> QED
  BY <1>3, <1>4, <1>5, <1>6

\* A modification ends: the permit is given back, and what is left is good.
LEMMA ReleaseKeeps ==
  ASSUME ProfilesInv, NEW j \in Jobs, NEW x, jobs' = [jobs EXCEPT ![j] = x],
         Modifies(jobs[j]), permit' = NoPermit,
         UNCHANGED <<profiles_draft, write_lock>>,
         IsJob(x), ~ Modifies(x), ~ Fresh(x), x.pc # "lock",
         x.op = "none" \/ (x.op = jobs[j].op /\ x.uid = jobs[j].uid),
         files' = [u \in Uids |-> files'[u]],
         \A u \in Uids : files[u] # "none" => files'[u] # "none",
         Good(profiles_yaml', files, jobs) \/ Good(profiles_yaml', files', jobs'),
         Good(profiles', files, jobs) \/ Good(profiles', files', jobs')
  PROVE  ProfilesInv'
<1>1. \A p : Good(p, files, jobs) => Good(p, files', jobs')
  BY GoodStays
<1>2. /\ permit.by = j
      /\ \A k \in Jobs \ {j} : ~ Modifies(jobs[k]) /\ ~ Recorded(jobs[k])
  BY AloneModifies
<1>3. ~ Deleting(x) /\ ~ Recorded(x)
  BY DEF Modifies, Deleting, Recorded
<1>4. ~ Staged(jobs[j]) /\ jobs[j].pc # "lock"
  BY DEF Modifies, Deleting, Staged
<1>5. permit' = [by |-> permit'.by, stale |-> permit'.stale]
  BY DEF NoPermit
<1>6. x.op \in {"delete", "switch", "restore", "exit"} /\ x.pc # "lock" => write_lock' = j
  BY <1>4 DEF ProfilesInv, Locks
<1>7. profiles_draft' # <<>> => profiles_draft' = profiles_draft /\ write_lock # j
  BY <1>4 DEF ProfilesInv, Locks
<1>8. profiles_draft' # <<>> => Good(profiles_draft', files', jobs')
  BY <1>1 DEF ProfilesInv, Copies
<1>9. CopyGood(j, x, files', jobs')
  BY <1>3 DEF CopyGood
<1>10. Good(profiles_yaml', files', jobs') /\ Good(profiles', files', jobs')
  BY <1>1
<1>11. \A k \in Jobs \ {j} : permit.by # k
  BY <1>2
<1>12. x.op \in {"import", "restore"} => x.op = jobs[j].op /\ x.uid = jobs[j].uid
  OBVIOUS
<1> QED
  BY <1>2, <1>3, <1>5, <1>6, <1>7, <1>8, <1>9, <1>10, <1>11, <1>12, StepKeeps

\* The command ends with its modification, or goes on after it.
LEMMA ReleaseEnds ==
  ASSUME ProfilesInv, NEW j \in Jobs, Modifies(jobs[j]), permit' = NoPermit,
         \/ JobDone(j)
         \/ \E pc \in {"store", "update", "unlock"} : JobGoto(j, pc) /\ (pc = "update" => jobs[j].op = "update"),
         UNCHANGED <<profiles_draft, write_lock>>,
         files' = [u \in Uids |-> files'[u]],
         \A u \in Uids : files[u] # "none" => files'[u] # "none",
         Good(profiles_yaml', files, jobs) \/ Good(profiles_yaml', files', jobs'),
         Good(profiles', files, jobs) \/ Good(profiles', files', jobs')
  PROVE  ProfilesInv'
<1>1. CASE JobDone(j)
  <2>1. jobs' = [jobs EXCEPT ![j] = NoJob]
    BY <1>1 DEF JobDone
  <2>2. IsJob(NoJob) /\ ~ Modifies(NoJob) /\ ~ Fresh(NoJob) /\ NoJob.pc # "lock" /\ NoJob.op = "none"
    BY NoJobIs
  <2> HIDE DEF NoJob
  <2> QED
    BY <2>1, <2>2, ReleaseKeeps
<1>2. ASSUME NEW pc \in {"store", "update", "unlock"}, JobGoto(j, pc), pc = "update" => jobs[j].op = "update"
      PROVE  ProfilesInv'
  <2> DEFINE x == [jobs[j] EXCEPT !.pc = pc]
  <2>1. /\ x.op = jobs[j].op /\ x.pc = pc /\ x.uid = jobs[j].uid /\ x.text = jobs[j].text
        /\ DOMAIN x = DOMAIN jobs[j] /\ jobs' = [jobs EXCEPT ![j] = x] /\ IsJob(jobs[j])
    BY <1>2, MovedIs DEF JobGoto
  <2> HIDE DEF x
  <2>2. IsJob(x)
    BY <2>1 DEF IsJob
  <2>3. ~ Modifies(x) /\ ~ Fresh(x) /\ x.pc # "lock"
    BY <1>2, <2>1 DEF Modifies, Deleting, Fresh
  <2> QED
    BY <2>1, <2>2, <2>3, ReleaseKeeps
<1> QED
  BY <1>1, <1>2

\* The ends of the modifications: each commits its copy, unless the permit has
\* become stale, or fails.
LEMMA CommitsKeep ==
  ASSUME ProfilesInv, NEW j \in Jobs,
         AppendWrite(j) \/ update_item(j) \/ save_file(j) \/ DeleteCommit(j)
  PROVE  ProfilesInv'
<1> DEFINE u == jobs[j].uid
           t == jobs[j].text
           c == jobs[j].copy
<1>1. UNCHANGED <<profiles_draft, write_lock>>
  BY DEF AppendWrite, update_item, save_file, DeleteCommit, store, persisted, flags
<1>2. files = [v \in Uids |-> files[v]] /\ IsJob(jobs[j])
  BY DEF ProfilesInv, JobShape
<1>3. Good(profiles_yaml, files, jobs)
  BY DEF ProfilesInv, Copies
<1>4. CopyGood(j, jobs[j], files, jobs)
  BY DEF ProfilesInv, Copies
<1>5. CASE AppendWrite(j)
  <2>1. /\ jobs[j].op = "import" /\ jobs[j].pc = "write" /\ Modifies(jobs[j]) /\ Fresh(jobs[j]) /\ ~ Gone(jobs[j])
        /\ profiles_yaml' = profiles_yaml
    BY <1>5 DEF AppendWrite, At, Modifies, Fresh, Gone
  <2>2. Good(profiles, files, jobs)
    BY <2>1, AloneModifies
  <2>3. u \in Uids /\ t # "none"
    BY <1>2, <2>1 DEF IsJob
  <2>4. CASE permit' = NoPermit /\ JobDone(j) /\ UNCHANGED <<files, profiles>>
    BY <1>1, <1>2, <1>3, <2>1, <2>2, <2>4, ReleaseEnds
  <2>5. CASE /\ files' = [files EXCEPT ![u] = t]
             /\ CommitData(c)
             /\ IF permit.stale THEN JobDone(j) ELSE JobGoto(j, "store")
    <3>1. permit' = NoPermit /\ (profiles' = profiles \/ (profiles' = c /\ JobGoto(j, "store")))
      BY <2>5 DEF CommitData
    <3>2. files' = [v \in Uids |-> files'[v]] /\ \A v \in Uids : files[v] # "none" => files'[v] # "none"
      BY <1>2, <2>3, <2>5
    <3>3. JobGoto(j, "store") => Good(c, files', jobs')
      <4> SUFFICES ASSUME JobGoto(j, "store") PROVE Good(c, files', jobs')
        OBVIOUS
      <4> DEFINE rest == [jobs EXCEPT ![j] = NoJob]
      <4>1. Good(c, files', rest)
        BY <1>4, <2>1, <2>5 DEF CopyGood
      <4>2. \A k \in Jobs : k # j => jobs'[k] = jobs[k] /\ rest[k] = jobs[k]
        BY DEF JobGoto, ProfilesInv, JobShape
      <4>3. ~ Fresh(jobs'[j])
        BY <1>2 DEF JobGoto, ProfilesInv, JobShape, Fresh, IsJob
      <4> HIDE DEF rest
      <4> QED
        BY <4>1, <4>2, <4>3, GoodKept
    <3> HIDE DEF c
    <3> QED
      BY <1>1, <1>3, <2>1, <2>2, <2>5, <3>1, <3>2, <3>3, ReleaseEnds
  <2> QED
    BY <1>5, <2>4, <2>5 DEF AppendWrite
<1>6. CASE update_item(j)
  <2>1. jobs[j].pc = "edited" /\ Modifies(jobs[j]) /\ ~ Fresh(jobs[j]) /\ ~ Gone(jobs[j])
    BY <1>6 DEF update_item, Modifies, Fresh, Gone
  <2>2. Good(profiles, files, jobs) /\ Good(c, files, jobs)
    BY <1>4, <2>1, AloneModifies DEF CopyGood
  <2>3. jobs[j].op = "update" => u \in Uids /\ t # "none"
    BY <1>2 DEF IsJob
  <2>4. files' = files \/ (jobs[j].op = "update" /\ files' = [files EXCEPT ![u] = t])
    BY <1>6 DEF update_item
  <2>5. files' = [v \in Uids |-> files'[v]] /\ \A v \in Uids : files[v] # "none" => files'[v] # "none"
    BY <1>2, <2>3, <2>4
  <2>6. JobDone(j) \/ (jobs[j].op = "update" /\ JobGoto(j, "update"))
    BY <1>6 DEF update_item
  <2>7. permit' = NoPermit /\ profiles' \in {profiles, c} /\ profiles_yaml' \in {profiles_yaml, c}
    BY <1>6 DEF update_item, CommitData
  <2> HIDE DEF c
  <2> QED
    BY <1>1, <1>3, <2>1, <2>2, <2>5, <2>6, <2>7, ReleaseEnds
<1>7. CASE save_file(j)
  <2>1. jobs[j].pc = "storing" /\ Modifies(jobs[j]) /\ ~ Fresh(jobs[j]) /\ ~ Gone(jobs[j])
    BY <1>7 DEF save_file, Modifies, Fresh, Gone
  <2>2. Good(profiles, files, jobs) /\ Good(c, files, jobs)
    BY <1>4, <2>1, AloneModifies DEF CopyGood
  <2>3. JobDone(j) \/ JobGoto(j, "unlock")
    BY <1>7 DEF save_file
  <2>4. permit' = NoPermit /\ profiles' = profiles /\ files' = files /\ profiles_yaml' \in {profiles_yaml, c}
    BY <1>7 DEF save_file, store
  <2> HIDE DEF c
  <2> QED
    BY <1>1, <1>2, <1>3, <2>1, <2>2, <2>3, <2>4, ReleaseEnds
<1>8. CASE DeleteCommit(j)
  <2>1. jobs[j].op = "delete" /\ jobs[j].pc = "gone" /\ Deleting(jobs[j]) /\ Modifies(jobs[j]) /\ ~ Fresh(jobs[j])
    BY <1>8 DEF DeleteCommit, At, Modifies, Deleting, Fresh
  <2>2. Good(c, files, jobs) /\ permit.stale = FALSE
    BY <1>4, <2>1 DEF CopyGood, ProfilesInv, Locks
  <2>3. permit' = NoPermit /\ profiles' = c /\ files' = files /\ profiles_yaml' = profiles_yaml /\ JobGoto(j, "unlock")
    BY <1>8, <2>2 DEF DeleteCommit, CommitData, persisted
  <2> HIDE DEF c
  <2> QED
    BY <1>1, <1>2, <1>3, <2>1, <2>2, <2>3, ReleaseEnds
<1> QED
  BY <1>5, <1>6, <1>7, <1>8

\* A command that holds the write lock and does not delete goes on.
LEMMA LockedKeeps ==
  ASSUME ProfilesInv, NEW j \in Jobs, NEW x, jobs' = [jobs EXCEPT ![j] = x],
         x.op = jobs[j].op, x.uid = jobs[j].uid, x.text = jobs[j].text, DOMAIN x = DOMAIN jobs[j],
         jobs[j].op \in {"switch", "restore", "exit"}, jobs[j].pc # "lock",
         x.pc \in {"extract", "reload", "take"} => x.op = "restore",
         x.pc \notin {"lock", "write", "edited", "storing", "fetch by core", "fetch by proxy"},
         write_lock' = write_lock,
         permit' = permit \/ (permit' = [permit EXCEPT !.stale = TRUE] /\ permit # NoPermit),
         files' = [u \in Uids |-> files'[u]],
         \A u \in Uids : files[u] # "none" => files'[u] # "none",
         Good(profiles_yaml', files, jobs) \/ Good(profiles_yaml', files', jobs'),
         Good(profiles', files, jobs),
         profiles_draft' # <<>> => Good(profiles_draft', files, jobs) /\ Staged(x)
  PROVE  ProfilesInv'
<1>1. IsJob(jobs[j])
  BY DEF ProfilesInv, JobShape
<1>2. IsJob(x)
  BY <1>1 DEF IsJob
<1>3. ~ Modifies(x) /\ ~ Deleting(x) /\ ~ Fresh(x) /\ ~ Recorded(x)
  BY DEF Modifies, Deleting, Fresh, Recorded
<1>4. write_lock = j /\ \A k \in Jobs \ {j} : ~ Deleting(jobs[k]) /\ ~ Recorded(jobs[k])
  BY AloneLocks
<1>5. \A p : Good(p, files, jobs) => Good(p, files', jobs')
  BY <1>3, GoodStays
<1>6. permit = [by |-> permit.by, stale |-> permit.stale] /\ (permit.by \in Jobs \/ permit = NoPermit)
  BY DEF ProfilesInv, JobShape
<1>7. /\ permit' = [by |-> permit'.by, stale |-> permit'.stale] /\ permit'.by = permit.by
      /\ permit'.by \in Jobs \/ permit' = NoPermit
  BY <1>6
<1>8. CopyGood(j, x, files', jobs')
  BY <1>3 DEF CopyGood
<1>9. /\ Good(profiles_yaml', files', jobs') /\ Good(profiles', files', jobs')
      /\ profiles_draft' # <<>> => Good(profiles_draft', files', jobs')
  BY <1>5
<1>10. \A k \in Jobs \ {j} : permit.by = k =>
           permit'.by = k /\ (Deleting(jobs[k]) => permit'.stale = permit.stale)
  BY <1>4, <1>7
<1>11. profiles_draft' # <<>> => write_lock' = j /\ Staged(x)
  BY <1>4
<1> QED
  BY <1>2, <1>3, <1>4, <1>7, <1>8, <1>9, <1>10, <1>11, StepKeeps

\* The same for a step that notes nothing.
LEMMA LockedGoes ==
  ASSUME ProfilesInv, NEW j \in Jobs, NEW pc, JobGoto(j, pc),
         jobs[j].op \in {"switch", "restore", "exit"}, jobs[j].pc # "lock",
         pc \in {"reload", "take"} => jobs[j].op = "restore",
         pc \in {"current", "store", "unlock", "restage", "reinstate", "update", "reload", "take"},
         write_lock' = write_lock,
         permit' = permit \/ (permit' = [permit EXCEPT !.stale = TRUE] /\ permit # NoPermit),
         files' = [u \in Uids |-> files'[u]],
         \A u \in Uids : files[u] # "none" => files'[u] # "none",
         Good(profiles_yaml', files, jobs) \/ Good(profiles_yaml', files', jobs'),
         Good(profiles', files, jobs),
         profiles_draft' # <<>> =>
           /\ Good(profiles_draft', files, jobs)
           /\ (jobs[j].op = "switch" /\ pc = "reinstate") \/ (jobs[j].op = "restore" /\ pc = "take")
  PROVE  ProfilesInv'
<1> DEFINE x == [jobs[j] EXCEPT !.pc = pc]
<1>1. /\ x.op = jobs[j].op /\ x.pc = pc /\ x.uid = jobs[j].uid /\ x.text = jobs[j].text
      /\ DOMAIN x = DOMAIN jobs[j] /\ jobs' = [jobs EXCEPT ![j] = x]
  BY MovedIs DEF JobGoto
<1> HIDE DEF x
<1>2. profiles_draft' # <<>> => Good(profiles_draft', files, jobs) /\ Staged(x)
  BY <1>1 DEF Staged
<1>3. x.pc \notin {"lock", "write", "edited", "storing", "fetch by core", "fetch by proxy"}
  BY <1>1
<1>4. x.pc \in {"extract", "reload", "take"} => x.op = "restore"
  BY <1>1
<1> QED
  BY <1>1, <1>2, <1>3, <1>4, LockedKeeps

\* Switching, and saving at the exit.
LEMMA SwitchKeeps ==
  ASSUME ProfilesInv, NEW j \in Jobs,
         \/ SwitchStage(j) \/ commit_current_profile(j) \/ discard_and_restore(j)
         \/ restore_previous_profile(j) \/ ExitSave(j)
  PROVE  ProfilesInv'
<1>1. UNCHANGED <<files, write_lock>>
  BY DEF SwitchStage, commit_current_profile, discard_and_restore, restore_previous_profile, ExitSave, persisted, flags
<1>2. /\ jobs[j].op \in {"switch", "exit"}
      /\ jobs[j].pc \in {"stage", "commit", "current", "discard", "restage", "reinstate"}
  BY DEF SwitchStage, commit_current_profile, discard_and_restore, restore_previous_profile, ExitSave, At
<1>3. /\ Good(profiles, files, jobs) /\ Good(latest_arc, files, jobs)
      /\ profiles_draft # <<>> => Staged(jobs[j])
  BY <1>2, AloneLocks
<1>4. Good(profiles_yaml, files, jobs)
  BY DEF ProfilesInv, Copies
<1>5. files' = [u \in Uids |-> files'[u]] /\ \A u \in Uids : files[u] # "none" => files'[u] # "none"
  BY <1>1 DEF ProfilesInv, JobShape
<1>6. \A u : Good(patch_config(profiles, u), files, jobs) /\ Good(patch_config(latest_arc, u), files, jobs)
  BY <1>3, GoodMade
<1>7. ApplyDraft => /\ profiles' = latest_arc /\ profiles_draft' = <<>>
                    /\ permit' = permit \/ (permit' = [permit EXCEPT !.stale = TRUE] /\ permit # NoPermit)
  BY DEF ApplyDraft
<1>8. CASE SwitchStage(j)
  <2> DEFINE c == profiles.current
             x == [jobs[j] EXCEPT !.pc = "update", !.prev = c]
  <2>1. /\ jobs[j].op = "switch" /\ profiles_draft' = patch_config(latest_arc, jobs[j].uid)
        /\ jobs' = [jobs EXCEPT ![j].pc = "update", ![j].prev = c]
        /\ UNCHANGED <<profiles, profiles_yaml, permit>>
    BY <1>8 DEF SwitchStage, At, persisted
  <2> HIDE DEF c
  <2>2. jobs' = [jobs EXCEPT ![j] = x] /\ IsJob(jobs[j])
    BY <2>1 DEF ProfilesInv, JobShape
  <2>3. /\ x.op = jobs[j].op /\ x.pc = "update" /\ x.uid = jobs[j].uid
        /\ x.text = jobs[j].text /\ DOMAIN x = DOMAIN jobs[j]
    BY <2>2 DEF IsJob
  <2> HIDE DEF x
  <2>4. Staged(x) /\ Good(profiles_draft', files, jobs)
    BY <1>6, <2>1, <2>3 DEF Staged
  <2>5. x.pc \notin {"lock", "write", "edited", "storing", "fetch by core", "fetch by proxy", "extract", "reload", "take"}
    BY <2>3
  <2> QED
    BY <1>1, <1>2, <1>3, <1>4, <1>5, <2>1, <2>2, <2>3, <2>4, <2>5, LockedKeeps
<1>9. CASE commit_current_profile(j)
  <2>1. UNCHANGED <<profiles_yaml, permit>>
    BY <1>9 DEF commit_current_profile, persisted
  <2>2. CASE At(j, "switch", "commit") /\ profiles_draft' = <<>> /\ JobGoto(j, "current") /\ profiles' = profiles
    BY <1>1, <1>2, <1>3, <1>4, <1>5, <2>1, <2>2, LockedGoes DEF At
  <2>3. CASE /\ At(j, "switch", "current") /\ profiles' = patch_config(profiles, jobs[j].uid)
             /\ JobGoto(j, "store") /\ profiles_draft' = profiles_draft
    <3>1. profiles_draft = <<>>
      BY <1>3, <2>3 DEF At, Staged
    <3> QED
      BY <1>1, <1>2, <1>4, <1>5, <1>6, <2>1, <2>3, <3>1, LockedGoes
  <2> QED
    BY <1>9, <2>2, <2>3 DEF commit_current_profile
<1>10. CASE discard_and_restore(j)
  <2>1. /\ UNCHANGED <<profiles, profiles_yaml, permit>> /\ profiles_draft' = <<>>
        /\ \E pc \in {"unlock", "restage"} : JobGoto(j, pc)
    BY <1>10 DEF discard_and_restore, persisted
  <2> QED
    BY <1>1, <1>2, <1>3, <1>4, <1>5, <2>1, LockedGoes
<1>11. CASE restore_previous_profile(j)
  <2>1. profiles_yaml' = profiles_yaml
    BY <1>11 DEF restore_previous_profile, persisted
  <2>2. CASE /\ At(j, "switch", "restage") /\ profiles_draft' = patch_config(latest_arc, jobs[j].prev)
             /\ JobGoto(j, "reinstate") /\ UNCHANGED <<profiles, permit>>
    <3>1. Good(profiles_draft', files, jobs) /\ jobs[j].op = "switch"
      BY <1>6, <2>2 DEF At
    <3> QED
      BY <1>1, <1>2, <1>3, <1>4, <1>5, <2>1, <2>2, <3>1, LockedGoes
  <2>3. CASE At(j, "switch", "reinstate") /\ ApplyDraft /\ JobGoto(j, "unlock")
    BY <1>1, <1>2, <1>3, <1>4, <1>5, <1>7, <2>1, <2>3, LockedGoes
  <2> QED
    BY <1>11, <2>2, <2>3 DEF restore_previous_profile
<1>12. CASE ExitSave(j)
  <2>1. ApplyDraft /\ profiles_yaml' \in {profiles_yaml, latest_arc} /\ JobGoto(j, "unlock")
    BY <1>12 DEF ExitSave
  <2> QED
    BY <1>1, <1>2, <1>3, <1>4, <1>5, <1>7, <2>1, LockedGoes
<1> QED
  BY <1>8, <1>9, <1>10, <1>11, <1>12

\* Restoring a backup.
LEMMA RestoreKeeps ==
  ASSUME ProfilesInv, NEW j \in Jobs, extract(j) \/ finalize_restored_verge_config(j)
  PROVE  ProfilesInv'
<1> DEFINE u == jobs[j].uid
           t == jobs[j].text
           b == [current |-> u, items |-> <<u>>]
<1>1. write_lock' = write_lock
  BY DEF extract, finalize_restored_verge_config, flags
<1>2. jobs[j].pc \in {"extract", "reload", "take"}
  BY DEF extract, finalize_restored_verge_config
<1>3. jobs[j].op = "restore" /\ jobs[j].pc # "lock" /\ u \in Uids /\ t # "none"
  BY <1>2 DEF ProfilesInv, JobShape, IsJob
<1>4. /\ Good(profiles, files, jobs) /\ Good(latest_arc, files, jobs)
      /\ profiles_draft # <<>> => Staged(jobs[j])
  BY <1>3, AloneLocks
<1>5. Good(profiles_yaml, files, jobs)
  BY DEF ProfilesInv, Copies
<1>6. files = [v \in Uids |-> files[v]]
  BY DEF ProfilesInv, JobShape
<1>7. CASE extract(j)
  <2>1. UNCHANGED <<profiles, profiles_draft, permit>>
    BY <1>7 DEF extract, store
  <2>2. profiles_draft = <<>>
    BY <1>3, <1>4, <1>7 DEF extract, Staged
  <2>3. files' = files \/ files' = [files EXCEPT ![u] = t]
    BY <1>7 DEF extract, persisted
  <2>4. files' = [v \in Uids |-> files'[v]] /\ \A v \in Uids : files[v] # "none" => files'[v] # "none"
    BY <1>3, <1>6, <2>3
  <2>5. PICK pc \in {"unlock", "reload"} : JobGoto(j, pc)
    BY <1>7 DEF extract
  <2>6. profiles_yaml' = profiles_yaml \/ (files' = [files EXCEPT ![u] = t] /\ profiles_yaml' = b)
    BY <1>7 DEF extract, persisted
  <2>7. ASSUME files' = [files EXCEPT ![u] = t] PROVE Good(b, files', jobs')
    <3>1. Record(b) /\ \A v : get_item(b, v) => v = u
      BY <1>3, BackupRecord
    <3>2. files'[u] # "none"
      BY <1>3, <1>6, <2>7
    <3>3. ASSUME NEW k \in Jobs, Fresh(jobs'[k]) PROVE jobs'[k].uid # u
      <4>1. ~ Fresh(jobs'[j])
        BY <1>3, <2>5, MovedIs DEF JobGoto, ProfilesInv, JobShape, Fresh
      <4>2. k # j => jobs'[k] = jobs[k]
        BY <2>5 DEF JobGoto, ProfilesInv, JobShape
      <4> QED
        BY <1>3, <3>3, <4>1, <4>2 DEF ProfilesInv, Distinct
    <3> HIDE DEF b
    <3> QED
      BY <3>1, <3>2, <3>3 DEF Good
  <2>8. Good(profiles_yaml', files, jobs) \/ Good(profiles_yaml', files', jobs')
    BY <1>5, <2>6, <2>7
  <2> HIDE DEF b
  <2> QED
    BY <1>1, <1>3, <1>4, <2>1, <2>2, <2>4, <2>5, <2>8, LockedGoes
<1>8. CASE finalize_restored_verge_config(j)
  <2>1. files' = files /\ profiles_yaml' = profiles_yaml
    BY <1>8 DEF finalize_restored_verge_config, persisted
  <2>2. CASE profiles_draft' \in ReadProfiles /\ JobGoto(j, "take") /\ UNCHANGED <<profiles, permit>>
    <3>1. Good(profiles_draft', files, jobs)
      BY <1>5, <2>2, NothingRead
    <3> QED
      BY <1>1, <1>3, <1>4, <1>5, <1>6, <2>1, <2>2, <3>1, LockedGoes
  <2>3. CASE ApplyDraft /\ JobGoto(j, "update")
    <3>1. /\ profiles' = latest_arc /\ profiles_draft' = <<>>
          /\ permit' = permit \/ (permit' = [permit EXCEPT !.stale = TRUE] /\ permit # NoPermit)
      BY <2>3 DEF ApplyDraft
    <3> QED
      BY <1>1, <1>3, <1>4, <1>5, <1>6, <2>1, <2>3, <3>1, LockedGoes
  <2> QED
    BY <1>8, <2>2, <2>3 DEF finalize_restored_verge_config
<1> QED
  BY <1>7, <1>8

\* Taking the write lock and giving everything back.
LEMMA LockKeeps ==
  ASSUME ProfilesInv, NEW j \in Jobs, WriteLock(j) \/ Unlock(j)
  PROVE  ProfilesInv'
<1>1. UNCHANGED <<profiles, profiles_draft, profiles_yaml, files>>
  BY DEF WriteLock, Unlock, store, persisted
<1>2. files' = [u \in Uids |-> files'[u]] /\ \A u \in Uids : files[u] # "none" => files'[u] # "none"
  BY <1>1 DEF ProfilesInv, JobShape
<1>3. permit = [by |-> permit.by, stale |-> permit.stale] /\ (permit.by \in Jobs \/ permit = NoPermit)
  BY DEF ProfilesInv, JobShape
<1>4. CASE WriteLock(j)
  <2> DEFINE pc == CASE jobs[j].op = "delete"  -> "plan"
                     [] jobs[j].op = "restore" -> "extract"
                     [] OTHER                  -> "stage"
             x == [jobs[j] EXCEPT !.pc = pc]
  <2>1. jobs[j].pc = "lock" /\ write_lock = NoOne /\ write_lock' = j /\ JobGoto(j, pc) /\ permit' = permit
    BY <1>4 DEF WriteLock
  <2>2. pc \in {"plan", "stage", "extract"} /\ (pc = "extract" => jobs[j].op = "restore")
    OBVIOUS
  <2> HIDE DEF pc
  <2>3. /\ x.op = jobs[j].op /\ x.pc = pc /\ x.uid = jobs[j].uid /\ x.text = jobs[j].text
        /\ DOMAIN x = DOMAIN jobs[j] /\ jobs' = [jobs EXCEPT ![j] = x] /\ IsJob(jobs[j])
    BY <2>1, MovedIs DEF JobGoto
  <2> HIDE DEF x
  <2>4. IsJob(x)
    BY <2>2, <2>3 DEF IsJob
  <2>5. ~ Modifies(x) /\ ~ Deleting(x) /\ ~ Fresh(x) /\ ~ Recorded(x)
    BY <2>2, <2>3 DEF Modifies, Deleting, Fresh, Recorded
  <2>6. profiles_draft = <<>>
    BY <2>1, ProfilesAssumption DEF ProfilesInv, Locks
  <2>7. \A p : Good(p, files, jobs) => Good(p, files', jobs')
    BY <1>2, <2>3, <2>5, GoodStays
  <2>8. Good(profiles_yaml', files', jobs')
    BY <1>1, <2>7 DEF ProfilesInv, Copies
  <2>9. (\A k \in Jobs : ~ Gone(jobs'[k])) => Good(profiles', files', jobs')
    <3>1. ~ Gone(jobs[j]) /\ \A k \in Jobs : k # j => jobs'[k] = jobs[k]
      BY <2>1, <2>3 DEF Gone, ProfilesInv, JobShape
    <3> QED
      BY <1>1, <2>7, <3>1 DEF ProfilesInv, Copies
  <2>10. CopyGood(j, x, files', jobs')
    BY <2>5 DEF CopyGood
  <2> QED
    BY <1>1, <1>2, <1>3, <2>1, <2>3, <2>4, <2>5, <2>6, <2>8, <2>9, <2>10, StepKeeps
<1>5. CASE Unlock(j)
  <2>1. /\ jobs[j].pc = "unlock" /\ jobs' = [jobs EXCEPT ![j] = NoJob]
        /\ write_lock' = (IF write_lock = j THEN NoOne ELSE write_lock)
        /\ permit' = (IF permit.by = j THEN NoPermit ELSE permit)
    BY <1>5 DEF Unlock, JobDone
  <2>2. /\ IsJob(NoJob) /\ ~ Modifies(NoJob) /\ ~ Deleting(NoJob) /\ ~ Fresh(NoJob) /\ ~ Recorded(NoJob)
        /\ NoJob.op = "none"
    BY NoJobIs
  <2>3. ~ Staged(jobs[j]) /\ ~ Gone(jobs[j])
    BY <2>1 DEF Staged, Gone
  <2>4. \A p : Good(p, files, jobs) => Good(p, files', jobs')
    BY <1>2, <2>1, <2>2, GoodStays
  <2>5. Good(profiles_yaml', files', jobs') /\ (profiles_draft' # <<>> => Good(profiles_draft', files', jobs'))
    BY <1>1, <2>4 DEF ProfilesInv, Copies
  <2>6. (\A k \in Jobs : ~ Gone(jobs'[k])) => Good(profiles', files', jobs')
    <3>1. \A k \in Jobs : k # j => jobs'[k] = jobs[k]
      BY <2>1 DEF ProfilesInv, JobShape
    <3> QED
      BY <1>1, <2>3, <2>4, <3>1 DEF ProfilesInv, Copies
  <2>7. CopyGood(j, NoJob, files', jobs')
    BY <2>2 DEF CopyGood
  <2>8. permit' = [by |-> permit'.by, stale |-> permit'.stale] /\ (permit'.by \in Jobs \/ permit' = NoPermit)
    BY <1>3, <2>1 DEF NoPermit
  <2>9. profiles_draft' # <<>> => profiles_draft' = profiles_draft /\ write_lock # j
    BY <1>1, <2>3 DEF ProfilesInv, Locks
  <2>10. \A k \in Jobs \ {j} : permit.by = k => permit' = permit
    BY <2>1
  <2>11. write_lock' = write_lock \/ write_lock \in {NoOne, j}
    BY <2>1
  <2> HIDE DEF NoJob
  <2> QED
    BY <1>1, <1>2, <2>1, <2>2, <2>5, <2>6, <2>7, <2>8, <2>9, <2>10, <2>11, StepKeeps
<1> QED
  BY <1>4, <1>5

\* Writing the text of a profile, and taking it back.
LEMMA TextKeeps ==
  ASSUME ProfilesInv, NEW j \in Jobs, SavePut(j) \/ (restore_original(j) /\ ~ taken_back')
  PROVE  ProfilesInv'
<1> DEFINE u == jobs[j].uid
<1>1. UNCHANGED <<profiles, profiles_draft, profiles_yaml, write_lock, permit>>
  BY DEF SavePut, restore_original, store, flags
<1>2. jobs[j].op = "save" /\ jobs[j].pc \in {"put", "restore"} /\ u \in Uids /\ jobs[j].text # "none"
  BY DEF SavePut, restore_original, At, ProfilesInv, JobShape, IsJob
<1>3. PICK t : files' = [files EXCEPT ![u] = t] /\ (t = "none" => ~ Listed(u))
  BY <1>2 DEF SavePut, restore_original
<1>4. files = [v \in Uids |-> files[v]] /\ IsJob(jobs[j])
  BY DEF ProfilesInv, JobShape
<1>5. files' = [v \in Uids |-> files'[v]] /\ \A v \in Uids : files'[v] = IF v = u THEN t ELSE files[v]
  BY <1>3, <1>4
<1>6. PICK x : /\ jobs' = [jobs EXCEPT ![j] = x] /\ IsJob(x)
               /\ x.op \in {"none", "save"} /\ x.pc \in {"idle", "validate"}
  <2>1. CASE JobDone(j)
    BY <2>1, NoJobIs DEF JobDone
  <2>2. CASE JobGoto(j, "validate")
    <3> DEFINE x == [jobs[j] EXCEPT !.pc = "validate"]
    <3>1. /\ x.op = "save" /\ x.pc = "validate" /\ x.uid = jobs[j].uid /\ x.text = jobs[j].text
          /\ DOMAIN x = DOMAIN jobs[j] /\ jobs' = [jobs EXCEPT ![j] = x]
      BY <1>2, <2>2, MovedIs DEF JobGoto
    <3> HIDE DEF x
    <3>2. IsJob(x)
      BY <1>2, <1>4, <3>1 DEF IsJob
    <3> QED
      BY <3>1, <3>2
  <2> QED
    BY <2>1, <2>2 DEF SavePut, restore_original
<1>7. ~ Modifies(x) /\ ~ Deleting(x) /\ ~ Fresh(x) /\ ~ Recorded(x) /\ ~ Gone(x)
  BY <1>6 DEF Modifies, Deleting, Fresh, Recorded, Gone
<1>8. ~ Staged(jobs[j]) /\ ~ Gone(jobs[j])
  BY <1>2 DEF Staged, Gone
<1>9. \A k \in Jobs : k # j => jobs'[k] = jobs[k]
  BY <1>6 DEF ProfilesInv, JobShape
<1>10. jobs'[j] = x
  BY <1>6 DEF ProfilesInv, JobShape
<1>11. ASSUME NEW p, Good(p, files, jobs), t = "none" => ~ get_item(p, u) PROVE Good(p, files', jobs')
  <2>1. \A v \in Uids : get_item(p, v) /\ files[v] # "none" => files'[v] # "none"
    BY <1>5, <1>11
  <2>2. \A k \in Jobs : Fresh(jobs'[k]) => Fresh(jobs[k]) /\ jobs'[k].uid = jobs[k].uid
    BY <1>7, <1>9, <1>10
  <2> QED
    BY <1>11, <2>1, <2>2, GoodKept
<1>12. t = "none" => ~ get_item(profiles_yaml, u) /\ ~ get_item(profiles, u) /\ ~ get_item(latest_arc, u)
  BY <1>3 DEF Listed
<1>13. Good(profiles_yaml', files', jobs')
  BY <1>1, <1>11, <1>12 DEF ProfilesInv, Copies
<1>14. profiles_draft' # <<>> => Good(profiles_draft', files', jobs')
  BY <1>1, <1>11, <1>12 DEF ProfilesInv, Copies, latest_arc
<1>15. (\A k \in Jobs : ~ Gone(jobs'[k])) => Good(profiles', files', jobs')
  BY <1>1, <1>8, <1>9, <1>11, <1>12 DEF ProfilesInv, Copies
<1>16. CopyGood(j, x, files', jobs')
  BY <1>7 DEF CopyGood
<1>17. ASSUME NEW v \in Uids, files[v] # "none", files'[v] = "none", NEW k \in Jobs \ {j}, Modifies(jobs[k])
       PROVE  ~ get_item(jobs[k].copy, v)
  <2>1. v = u /\ t = "none"
    BY <1>5, <1>17
  <2>2. permit.by = k /\ permit # NoPermit
    BY <1>17, AloneModifies
  <2> QED
    BY <1>3, <2>1, <2>2 DEF Listed
<1>18. \A v \in Uids : files[v] # "none" => files'[v] # "none"
           \/ \A k \in Jobs \ {j} : Modifies(jobs[k]) => ~ get_item(jobs[k].copy, v)
  BY <1>17
<1>19. profiles_draft' # <<>> => profiles_draft' = profiles_draft /\ write_lock # j
  BY <1>1, <1>8 DEF ProfilesInv, Locks
<1>20. permit' = [by |-> permit'.by, stale |-> permit'.stale] /\ (permit'.by \in Jobs \/ permit' = NoPermit)
  BY <1>1 DEF ProfilesInv, JobShape
<1> QED
  BY <1>1, <1>5, <1>6, <1>7, <1>13, <1>14, <1>15, <1>16, <1>18, <1>19, <1>20, StepKeeps

\* A deletion writes profiles.yaml and then removes the file.
LEMMA DeleteKeeps ==
  ASSUME ProfilesInv, NEW j \in Jobs, DeleteRecord(j) \/ DeleteCleanup(j)
  PROVE  ProfilesInv'
<1> DEFINE u == jobs[j].uid
           c == jobs[j].copy
<1>1. UNCHANGED <<profiles, profiles_draft, write_lock, permit>>
  BY DEF DeleteRecord, DeleteCleanup, store, flags
<1>2. /\ jobs[j].op = "delete" /\ jobs[j].pc \in {"record", "cleanup"}
      /\ Deleting(jobs[j]) /\ Modifies(jobs[j]) /\ ~ Fresh(jobs[j]) /\ ~ Gone(jobs[j]) /\ ~ Staged(jobs[j])
  BY DEF DeleteRecord, DeleteCleanup, At, Deleting, Modifies, Fresh, Gone, Staged
<1>3. /\ Good(c, files, jobs) /\ ~ get_item(c, u) /\ permit.by = j /\ permit.stale = FALSE /\ write_lock = j
      /\ Good(profiles_yaml, files, jobs)
  BY <1>2 DEF ProfilesInv, Copies, CopyGood, Locks
<1>4. /\ Good(profiles, files, jobs)
      /\ \A k \in Jobs \ {j} : ~ Modifies(jobs[k]) /\ ~ Recorded(jobs[k])
  BY <1>2, AloneModifies
<1>5. profiles_draft = <<>>
  BY <1>2, AloneLocks
<1>6. files = [v \in Uids |-> files[v]] /\ permit = [by |-> permit.by, stale |-> permit.stale] /\ permit.by \in Jobs
  BY <1>3 DEF ProfilesInv, JobShape
<1>7. CASE JobGoto(j, "rollback") \/ JobGoto(j, "unlock")
  <2>1. jobs[j].pc = "record" /\ UNCHANGED <<profiles_yaml, files>>
    <3>1. JobGoto(j, "cleanup") => jobs'[j].pc = "cleanup"
      BY DEF JobGoto, ProfilesInv, JobShape, IsJob
    <3>2. JobGoto(j, "gone") => jobs'[j].pc = "gone"
      BY DEF JobGoto, ProfilesInv, JobShape, IsJob
    <3>3. jobs'[j].pc \in {"rollback", "unlock"}
      BY <1>7 DEF JobGoto, ProfilesInv, JobShape, IsJob
    <3> QED
      BY <3>1, <3>2, <3>3 DEF DeleteRecord, DeleteCleanup, At
  <2>2. \A pc \in {"rollback", "unlock"} : Passes(jobs[j].op, jobs[j].pc, pc)
    BY <1>2, <2>1 DEF Passes
  <2> QED
    BY <1>1, <1>7, <2>1, <2>2, GotoKeeps
<1>8. ASSUME NEW pc \in {"cleanup", "gone"}, JobGoto(j, pc),
             profiles_yaml' \in {profiles_yaml, c}, ~ get_item(profiles_yaml', u),
             files' = files \/ (pc = "gone" /\ files' = [files EXCEPT ![u] = "none"])
      PROVE  ProfilesInv'
  <2> DEFINE x == [jobs[j] EXCEPT !.pc = pc]
  <2>1. /\ x.op = jobs[j].op /\ x.pc = pc /\ x.uid = jobs[j].uid /\ x.copy = jobs[j].copy
        /\ x.text = jobs[j].text /\ DOMAIN x = DOMAIN jobs[j] /\ jobs' = [jobs EXCEPT ![j] = x] /\ IsJob(jobs[j])
    BY <1>8, MovedIs DEF JobGoto
  <2> HIDE DEF x
  <2>2. /\ IsJob(x) /\ Deleting(x) /\ Modifies(x) /\ ~ Fresh(x) /\ (pc = "gone" <=> Gone(x))
        /\ x.op = "delete"
    BY <1>2, <2>1 DEF IsJob, Deleting, Modifies, Fresh, Gone
  <2>3. jobs'[j] = x /\ \A k \in Jobs : k # j => jobs'[k] = jobs[k]
    BY <2>1 DEF ProfilesInv, JobShape
  <2>4. /\ files' = [v \in Uids |-> files'[v]]
        /\ \A v \in Uids : v # u \/ pc = "cleanup" => files'[v] = files[v]
    BY <1>6, <1>8
  <2>5. ASSUME NEW p, Good(p, files, jobs), ~ get_item(p, u) \/ pc = "cleanup" PROVE Good(p, files', jobs')
    <3>1. \A v \in Uids : get_item(p, v) /\ files[v] # "none" => files'[v] # "none"
      BY <2>4, <2>5
    <3>2. \A k \in Jobs : Fresh(jobs'[k]) => Fresh(jobs[k]) /\ jobs'[k].uid = jobs[k].uid
      BY <2>2, <2>3
    <3> QED
      BY <2>5, <3>1, <3>2, GoodKept
  <2>6. Good(profiles_yaml, files, jobs) /\ Good(c, files, jobs)
    BY <1>3
  <2>7. Good(profiles_yaml', files', jobs')
    BY <1>8, <2>5, <2>6
  <2>8. (\A k \in Jobs : ~ Gone(jobs'[k])) => Good(profiles', files', jobs')
    BY <1>1, <1>4, <1>8, <2>2, <2>3, <2>5
  <2>9. CopyGood(j, x, files', jobs')
    BY <1>3, <2>1, <2>2, <2>5 DEF CopyGood
  <2>10. \A k \in Jobs \ {j} : permit.by # k
    BY <1>3
  <2>11. /\ permit' = [by |-> permit'.by, stale |-> permit'.stale] /\ permit'.by = j
         /\ permit'.stale = FALSE
    BY <1>1, <1>3, <1>6
  <2>12. Recorded(x) => ~ get_item(profiles_yaml', x.uid)
    BY <1>8, <2>1
  <2> QED
    BY <1>1, <1>3, <1>4, <1>5, <2>1, <2>2, <2>4, <2>7, <2>8, <2>9, <2>10, <2>11, <2>12, StepKeeps
<1>9. CASE DeleteRecord(j)
  <2>1. files' = files
    BY <1>9 DEF DeleteRecord
  <2> QED
    BY <1>3, <1>7, <1>8, <1>9, <2>1 DEF DeleteRecord
<1>10. CASE DeleteCleanup(j)
  <2>1. Recorded(jobs[j]) /\ profiles_yaml' = profiles_yaml /\ JobGoto(j, "gone")
    BY <1>10 DEF DeleteCleanup, At, Recorded
  <2>2. ~ get_item(profiles_yaml, u)
    BY <2>1 DEF ProfilesInv, Copies
  <2>3. files' = files \/ files' = [files EXCEPT ![u] = "none"]
    BY <1>10 DEF DeleteCleanup
  <2> QED
    BY <1>8, <2>1, <2>2, <2>3
<1> QED
  BY <1>9, <1>10

\* A command that starts and has nothing to do with the others.
LEMMA CallKeeps ==
  ASSUME ProfilesInv, NEW j \in Jobs, NEW x, jobs[j] = NoJob, jobs' = [jobs EXCEPT ![j] = x],
         DOMAIN x = {"op", "pc", "uid", "prev", "copy", "text", "original", "seen"},
         \/ x.op \in {"delete", "switch", "exit"} /\ x.pc = "lock"
         \/ x.op \in {"reorder", "enhance"} /\ x.pc \in {"edit", "update"}
         \/ x.op \in {"update", "save"} /\ x.pc \in {"check", "read"} /\ x.uid \in Uids /\ x.text # "none",
         UNCHANGED <<profiles, profiles_draft, profiles_yaml, files, write_lock, permit>>
  PROVE  ProfilesInv'
<1>1. IsJob(x)
  BY DEF IsJob
<1>2. ~ Modifies(x) /\ ~ Fresh(x) /\ ~ Recorded(x)
  BY DEF Modifies, Deleting, Fresh, Recorded
<1>3. Goes(NoJob, x)
  BY <1>1, <1>2, NoJobIs DEF Goes
<1> QED
  BY <1>3, QuietKeeps

\* An import or a restoration starts: its uid is not one that an import has.
LEMMA NewKeeps ==
  ASSUME ProfilesInv, NEW j \in Jobs, import_profile(j) \/ restore_local_backup(j)
  PROVE  ProfilesInv'
<1>1. /\ UNCHANGED <<profiles, profiles_draft, profiles_yaml, files, write_lock, permit>>
      /\ jobs[j] = NoJob
  BY DEF import_profile, restore_local_backup, ProfilesCall, store, persisted, flags
<1>2. PICK op \in {"import", "restore"}, u \in Uids, text \in {"good", "bad"} :
        /\ jobs' = [jobs EXCEPT ![j] = [NoJob EXCEPT !.op = op, !.pc = IF op = "import" THEN "fetch" ELSE "lock",
                                                     !.uid = u, !.text = text]]
        /\ op = "import" => files[u] = "none" /\ \A k \in Jobs : jobs[k].uid # u
        /\ op = "restore" => \A k \in Jobs : jobs[k].op = "import" => jobs[k].uid # u
  <2>1. CASE import_profile(j)
    <3>1. PICK u \in Uids, text \in {"good", "bad"} :
            /\ files[u] = "none" /\ \A k \in Jobs : jobs[k].uid # u
            /\ jobs' = [jobs EXCEPT ![j] = [NoJob EXCEPT !.op = "import", !.pc = "fetch", !.uid = u, !.text = text]]
      BY <2>1 DEF import_profile, ProfilesCall
    <3> HIDE DEF NoJob
    <3> QED
      BY <3>1
  <2>2. CASE restore_local_backup(j)
    <3>1. PICK u \in Uids :
            /\ \A k \in Jobs : jobs[k].op = "import" => jobs[k].uid # u
            /\ jobs' = [jobs EXCEPT ![j] = [NoJob EXCEPT !.op = "restore", !.pc = "lock", !.uid = u, !.text = "good"]]
      BY <2>2 DEF restore_local_backup, ProfilesCall
    <3> HIDE DEF NoJob
    <3> QED
      BY <3>1
  <2> QED
    BY <2>1, <2>2
<1> DEFINE pc == IF op = "import" THEN "fetch" ELSE "lock"
           x == [NoJob EXCEPT !.op = op, !.pc = pc, !.uid = u, !.text = text]
<1>3. /\ x.op = op /\ x.pc = pc /\ x.uid = u /\ x.text = text
      /\ DOMAIN x = {"op", "pc", "uid", "prev", "copy", "text", "original", "seen"}
  BY DEF NoJob
<1>4. jobs' = [jobs EXCEPT ![j] = x]
  BY <1>2
<1> HIDE DEF x
<1>5. IsJob(x)
  BY <1>3 DEF IsJob
<1>6. ~ Modifies(x) /\ ~ Deleting(x) /\ ~ Recorded(x) /\ (Fresh(x) <=> op = "import")
  BY <1>3 DEF Modifies, Deleting, Fresh, Recorded
<1>7. ~ Staged(jobs[j]) /\ ~ Gone(jobs[j])
  BY <1>1, NoJobIs
<1>8. jobs'[j] = x /\ \A k \in Jobs : k # j => jobs'[k] = jobs[k]
  BY <1>4 DEF ProfilesInv, JobShape
<1>9. ASSUME NEW p, Good(p, files, jobs) PROVE Good(p, files', jobs')
  <2>1. \A k \in Jobs : Fresh(jobs'[k]) => (Fresh(jobs[k]) /\ jobs'[k].uid = jobs[k].uid) \/ ~ get_item(p, jobs'[k].uid)
    BY <1>2, <1>3, <1>6, <1>8, <1>9 DEF Good
  <2> QED
    BY <1>1, <1>9, <2>1, GoodKept
<1>10. Good(profiles_yaml', files', jobs') /\ (profiles_draft' # <<>> => Good(profiles_draft', files', jobs'))
  BY <1>1, <1>9 DEF ProfilesInv, Copies
<1>11. (\A k \in Jobs : ~ Gone(jobs'[k])) => Good(profiles', files', jobs')
  BY <1>1, <1>7, <1>8, <1>9 DEF ProfilesInv, Copies
<1>12. CopyGood(j, x, files', jobs')
  BY <1>6 DEF CopyGood
<1>13. files' = [v \in Uids |-> files'[v]]
  BY <1>1 DEF ProfilesInv, JobShape
<1>14. permit' = [by |-> permit'.by, stale |-> permit'.stale] /\ (permit'.by \in Jobs \/ permit' = NoPermit)
  BY <1>1 DEF ProfilesInv, JobShape
<1>15. profiles_draft' # <<>> => profiles_draft' = profiles_draft /\ write_lock # j
  BY <1>1, <1>7 DEF ProfilesInv, Locks
<1>16. Fresh(x) => files[x.uid] = "none" /\ \A k \in Jobs : jobs[k].uid # x.uid
  BY <1>2, <1>3, <1>6
<1>17. \A k \in Jobs : Fresh(jobs[k]) => jobs[k].uid # x.uid
  BY <1>2, <1>3 DEF Fresh
<1>18. x.op \in {"delete", "switch", "restore", "exit"} => x.pc = "lock"
  BY <1>3
<1> QED
  BY <1>1, <1>4, <1>5, <1>6, <1>10, <1>11, <1>12, <1>13, <1>14, <1>15, <1>16, <1>17, <1>18, StepKeeps

\* The start of every command.
LEMMA StartKeeps ==
  ASSUME ProfilesInv, NEW j \in Jobs, ProfilesStart(j)
  PROVE  ProfilesInv'
<1>1. CASE import_profile(j) \/ restore_local_backup(j)
  BY <1>1, NewKeeps
<1>2. ASSUME ~ (import_profile(j) \/ restore_local_backup(j)) PROVE ProfilesInv'
  <2>1. /\ UNCHANGED <<profiles, profiles_draft, profiles_yaml, files, write_lock, permit>>
        /\ jobs[j] = NoJob
    BY <1>2 DEF ProfilesStart, update_profile, save_profile_file, delete_profile, reorder_profile,
                enhance_profiles, patch_profiles_config, apply_all_and_save_file, ProfilesCall, store, persisted, flags
  <2>2. CASE update_profile(j)
    <3>1. PICK u \in Uids, text \in {"new", "bad"} :
            jobs' = [jobs EXCEPT ![j] = [NoJob EXCEPT !.op = "update", !.pc = "check", !.uid = u, !.text = text]]
      BY <2>2 DEF update_profile, ProfilesCall
    <3> DEFINE x == [NoJob EXCEPT !.op = "update", !.pc = "check", !.uid = u, !.text = text]
    <3>2. /\ x.op = "update" /\ x.pc = "check" /\ x.uid \in Uids /\ x.text # "none"
          /\ DOMAIN x = {"op", "pc", "uid", "prev", "copy", "text", "original", "seen"}
      BY DEF NoJob
    <3>3. jobs' = [jobs EXCEPT ![j] = x]
      BY <3>1
    <3> HIDE DEF x
    <3> QED
      BY <2>1, <3>2, <3>3, CallKeeps
  <2>3. CASE save_profile_file(j)
    <3>1. PICK u \in Uids, text \in {"new", "bad"} :
            jobs' = [jobs EXCEPT ![j] = [NoJob EXCEPT !.op = "save", !.pc = "read", !.uid = u, !.text = text]]
      BY <2>3 DEF save_profile_file, ProfilesCall
    <3> DEFINE x == [NoJob EXCEPT !.op = "save", !.pc = "read", !.uid = u, !.text = text]
    <3>2. /\ x.op = "save" /\ x.pc = "read" /\ x.uid \in Uids /\ x.text # "none"
          /\ DOMAIN x = {"op", "pc", "uid", "prev", "copy", "text", "original", "seen"}
      BY DEF NoJob
    <3>3. jobs' = [jobs EXCEPT ![j] = x]
      BY <3>1
    <3> HIDE DEF x
    <3> QED
      BY <2>1, <3>2, <3>3, CallKeeps
  <2>4. CASE delete_profile(j)
    <3>1. PICK u \in Uids :
            jobs' = [jobs EXCEPT ![j] = [NoJob EXCEPT !.op = "delete", !.pc = "lock", !.uid = u, !.text = "none"]]
      BY <2>4 DEF delete_profile, ProfilesCall
    <3> DEFINE x == [NoJob EXCEPT !.op = "delete", !.pc = "lock", !.uid = u, !.text = "none"]
    <3>2. /\ x.op = "delete" /\ x.pc = "lock"
          /\ DOMAIN x = {"op", "pc", "uid", "prev", "copy", "text", "original", "seen"}
      BY DEF NoJob
    <3>3. jobs' = [jobs EXCEPT ![j] = x]
      BY <3>1
    <3> HIDE DEF x
    <3> QED
      BY <2>1, <3>2, <3>3, CallKeeps
  <2>5. CASE reorder_profile(j)
    <3>1. PICK u \in Uids, over \in Uids :
            jobs' = [jobs EXCEPT ![j] = [NoJob EXCEPT !.op = "reorder", !.pc = "edit", !.uid = u, !.text = over]]
      BY <2>5 DEF reorder_profile, ProfilesCall
    <3> DEFINE x == [NoJob EXCEPT !.op = "reorder", !.pc = "edit", !.uid = u, !.text = over]
    <3>2. /\ x.op = "reorder" /\ x.pc = "edit"
          /\ DOMAIN x = {"op", "pc", "uid", "prev", "copy", "text", "original", "seen"}
      BY DEF NoJob
    <3>3. jobs' = [jobs EXCEPT ![j] = x]
      BY <3>1
    <3> HIDE DEF x
    <3> QED
      BY <2>1, <3>2, <3>3, CallKeeps
  <2>6. CASE enhance_profiles(j)
    <3>1. jobs' = [jobs EXCEPT ![j] = [NoJob EXCEPT !.op = "enhance", !.pc = "update", !.uid = NoOne, !.text = "none"]]
      BY <2>6 DEF enhance_profiles, ProfilesCall
    <3> DEFINE x == [NoJob EXCEPT !.op = "enhance", !.pc = "update", !.uid = NoOne, !.text = "none"]
    <3>2. /\ x.op = "enhance" /\ x.pc = "update"
          /\ DOMAIN x = {"op", "pc", "uid", "prev", "copy", "text", "original", "seen"}
      BY DEF NoJob
    <3>3. jobs' = [jobs EXCEPT ![j] = x]
      BY <3>1
    <3> HIDE DEF x
    <3> QED
      BY <2>1, <3>2, <3>3, CallKeeps
  <2>7. CASE patch_profiles_config(j)
    <3>1. PICK u \in Uids :
            jobs' = [jobs EXCEPT ![j] = [NoJob EXCEPT !.op = "switch", !.pc = "lock", !.uid = u]]
      BY <2>7 DEF patch_profiles_config
    <3> DEFINE x == [NoJob EXCEPT !.op = "switch", !.pc = "lock", !.uid = u]
    <3>2. /\ x.op = "switch" /\ x.pc = "lock"
          /\ DOMAIN x = {"op", "pc", "uid", "prev", "copy", "text", "original", "seen"}
      BY DEF NoJob
    <3>3. jobs' = [jobs EXCEPT ![j] = x]
      BY <3>1
    <3> HIDE DEF x
    <3> QED
      BY <2>1, <3>2, <3>3, CallKeeps
  <2>8. CASE apply_all_and_save_file(j)
    <3>1. jobs' = [jobs EXCEPT ![j] = [NoJob EXCEPT !.op = "exit", !.pc = "lock", !.uid = NoOne, !.text = "none"]]
      BY <2>8 DEF apply_all_and_save_file, ProfilesCall
    <3> DEFINE x == [NoJob EXCEPT !.op = "exit", !.pc = "lock", !.uid = NoOne, !.text = "none"]
    <3>2. /\ x.op = "exit" /\ x.pc = "lock"
          /\ DOMAIN x = {"op", "pc", "uid", "prev", "copy", "text", "original", "seen"}
      BY DEF NoJob
    <3>3. jobs' = [jobs EXCEPT ![j] = x]
      BY <3>1
    <3> HIDE DEF x
    <3> QED
      BY <2>1, <3>2, <3>3, CallKeeps
  <2> QED
    BY <1>2, <2>2, <2>3, <2>4, <2>5, <2>6, <2>7, <2>8 DEF ProfilesStart
<1> QED
  BY <1>1, <1>2

\* A save in the background waits until nobody has the permit.
LEMMA BackgroundKeeps ==
  ASSUME ProfilesInv, BackgroundSave
  PROVE  ProfilesInv'
<1>1. /\ UNCHANGED <<profiles, profiles_draft, files, write_lock, permit, jobs>>
      /\ permit = NoPermit /\ profiles_yaml' \in {profiles_yaml, profiles}
  BY DEF BackgroundSave, store, flags
<1>2. Good(profiles, files, jobs) /\ \A k \in Jobs : ~ Recorded(jobs[k])
  BY <1>1, NoneModify
<1>3. Good(profiles_yaml', files, jobs)
  BY <1>1, <1>2 DEF ProfilesInv, Copies
<1>4. Copies'
  BY <1>1, <1>2, <1>3 DEF ProfilesInv, Copies
<1>5. JobShape' /\ Locks' /\ Distinct'
  BY <1>1 DEF ProfilesInv, JobShape, Locks, Distinct
<1> QED
  BY <1>4, <1>5 DEF ProfilesInv

\* Once nobody works, a record that is good on disk is all that is needed.
LEMMA IdleIsRight ==
  ASSUME jobs = [j \in Jobs |-> NoJob], permit = NoPermit, profiles_draft = <<>>,
         files = [u \in Uids |-> files[u]],
         Good(profiles, files, jobs), profiles_yaml = profiles
  PROVE  ProfilesInv
<1>1. \A j \in Jobs : jobs[j] = NoJob
  OBVIOUS
<1>2. permit = [by |-> permit.by, stale |-> permit.stale]
  BY DEF NoPermit
<1> HIDE DEF NoJob
<1>3. JobShape
  BY <1>1, <1>2, NoJobIs DEF JobShape
<1>4. Locks
  BY <1>1, NoJobIs DEF Locks
<1>5. Copies
  BY <1>1, NoJobIs DEF Copies, CopyGood
<1>6. Distinct
  BY <1>1, NoJobIs DEF Distinct
<1> QED
  BY <1>3, <1>4, <1>5, <1>6 DEF ProfilesInv

\* The first start, with one profile.
LEMMA InitAgrees ==
  ASSUME ProfilesInit
  PROVE  ProfilesInv
<1>1. PICK u \in Uids : /\ profiles = [current |-> u, items |-> <<u>>]
                        /\ files = [v \in Uids |-> IF v = u THEN "good" ELSE "none"]
  BY DEF ProfilesInit
<1>2. /\ profiles_draft = <<>> /\ profiles_yaml = profiles /\ permit = NoPermit
      /\ jobs = [j \in Jobs |-> NoJob]
  BY DEF ProfilesInit
<1>3. Record(profiles) /\ \A v : get_item(profiles, v) => v = u
  BY <1>1, BackupRecord
<1>4. files[u] = "good" /\ files = [v \in Uids |-> files[v]]
  BY <1>1
<1>5. \A k \in Jobs : jobs[k] = NoJob
  BY <1>2
<1>6. \A k \in Jobs : ~ Fresh(jobs[k])
  BY <1>5, NoJobIs
<1>7. Good(profiles, files, jobs)
  BY <1>3, <1>4, <1>6 DEF Good
<1> HIDE DEF NoJob
<1> QED
  BY <1>2, <1>4, <1>7, IdleIsRight

\* The process dies and starts with what is on disk.
LEMMA RestartKeeps ==
  ASSUME ProfilesInv, ProfilesRestart
  PROVE  ProfilesInv'
<1>1. /\ profiles' \in ReadProfiles /\ profiles_yaml' = profiles_yaml /\ files' = files
      /\ profiles_draft' = <<>> /\ permit' = NoPermit /\ jobs' = [j \in Jobs |-> NoJob]
  BY DEF ProfilesRestart, persisted
<1>2. \A k \in Jobs : jobs'[k] = NoJob
  BY <1>1
<1>3. \A k \in Jobs : ~ Fresh(jobs'[k])
  BY <1>2, NoJobIs
<1>4. files = [u \in Uids |-> files[u]] /\ Good(profiles_yaml, files, jobs)
  BY DEF ProfilesInv, JobShape, Copies
<1>5. Good(profiles', files', jobs') /\ Good(profiles_yaml', files', jobs')
  <2>1. Good(profiles', files, jobs)
    BY <1>1, <1>4, NothingRead
  <2> QED
    BY <1>1, <1>3, <1>4, <2>1 DEF Good
<1>6. JobShape'
  <2>1. (permit = [by |-> permit.by, stale |-> permit.stale])'
    BY <1>1 DEF NoPermit
  <2> HIDE DEF NoJob
  <2> QED
    BY <1>1, <1>2, <1>4, <2>1, NoJobIs DEF JobShape
<1>7. Locks'
  BY <1>1, <1>2, NoJobIs DEF Locks
<1>8. Copies'
  BY <1>1, <1>2, <1>5, NoJobIs DEF Copies, CopyGood
<1>9. Distinct'
  BY <1>2, NoJobIs DEF Distinct
<1> QED
  BY <1>6, <1>7, <1>8, <1>9 DEF ProfilesInv

\* What a save has taken back stays so.
LEMMA TakenStays ==
  ASSUME taken_back, ProfilesNext
  PROVE  taken_back'
<1>1. CASE BackgroundSave \/ ProfilesRestart
  BY <1>1 DEF BackgroundSave, ProfilesRestart
<1>2. ASSUME NEW j \in Jobs, ProfilesStart(j) PROVE taken_back'
  BY <1>2 DEF ProfilesStart, import_profile, update_profile, save_profile_file, delete_profile, reorder_profile,
              enhance_profiles, patch_profiles_config, apply_all_and_save_file, restore_local_backup, ProfilesCall
<1>3. ASSUME NEW j \in Jobs, ProfilesStep(j) PROVE taken_back'
  <2>1. CASE restore_original(j)
    BY <2>1 DEF restore_original
  <2>2. CASE \/ from_url(j) \/ profiles_append_item_safe(j) \/ AppendWrite(j) \/ should_update_profile(j)
             \/ Edit(j) \/ update_item(j) \/ SaveCopy(j) \/ save_file(j)
             \/ SaveRead(j) \/ SavePut(j) \/ handle_saved_profile_file(j)
    BY <2>2 DEF from_url, profiles_append_item_safe, AppendWrite, should_update_profile, Edit, update_item,
                SaveCopy, save_file, SaveRead, SavePut, handle_saved_profile_file
  <2>3. CASE \/ update_config_with_force(j) \/ generate(j) \/ validate_and_apply(j) \/ restore_profile_config(j)
             \/ WriteLock(j) \/ SwitchStage(j) \/ commit_current_profile(j) \/ discard_and_restore(j)
             \/ restore_previous_profile(j) \/ ExitSave(j) \/ Unlock(j)
    BY <2>3 DEF update_config_with_force, generate, validate_and_apply, restore_profile_config, WriteLock,
                SwitchStage, commit_current_profile, discard_and_restore, restore_previous_profile, ExitSave, Unlock
  <2>4. CASE \/ DeletePlan(j) \/ DeleteRecord(j) \/ DeleteCleanup(j) \/ DeleteCommit(j)
             \/ extract(j) \/ finalize_restored_verge_config(j)
    BY <2>4 DEF DeletePlan, DeleteRecord, DeleteCleanup, DeleteCommit, extract, finalize_restored_verge_config
  <2> QED
    BY <1>3, <2>1, <2>2, <2>3, <2>4 DEF ProfilesStep
<1> QED
  BY <1>1, <1>2, <1>3 DEF ProfilesNext

\* Every step of the profiles keeps the invariant, unless a save takes back a
\* profile that was restored.
LEMMA NextAgrees ==
  ASSUME ProfilesInv, ProfilesNext, ~ taken_back'
  PROVE  ProfilesInv'
<1>1. CASE BackgroundSave
  BY <1>1, BackgroundKeeps
<1>2. CASE ProfilesRestart
  BY <1>2, RestartKeeps
<1>3. ASSUME NEW j \in Jobs, ProfilesStart(j) PROVE ProfilesInv'
  BY <1>3, StartKeeps
<1>4. ASSUME NEW j \in Jobs, ProfilesStep(j) PROVE ProfilesInv'
  BY <1>4, ReadsKeep, CopiesKeep, CommitsKeep, TextKeeps, UpdateKeeps, LockKeeps, SwitchKeeps, DeleteKeeps,
     RestoreKeeps DEF ProfilesStep
<1> QED
  BY <1>1, <1>2, <1>3, <1>4 DEF ProfilesNext

\* The record on disk is always sound, and the one in memory except between the
\* removal of a deleted profile's file and the commit: whatever commands race,
\* and wherever the process dies.  A save that takes back a restored profile is
\* excepted.
THEOREM AgreeCorrect == ProfilesSpec => []ProfilesAgree
<1> DEFINE Inv == taken_back \/ ProfilesInv
<1>1. ProfilesInit => Inv
  BY InitAgrees
<1>2. Inv /\ [ProfilesNext]_profVars => Inv'
  <2> SUFFICES ASSUME Inv, [ProfilesNext]_profVars PROVE Inv'
    OBVIOUS
  <2>1. CASE ProfilesNext
    BY <2>1, NextAgrees, TakenStays
  <2>2. CASE UNCHANGED profVars
    BY <2>2 DEF profVars, ProfilesInv, JobShape, Locks, Copies, Distinct
  <2> QED
    BY <2>1, <2>2
<1>3. Inv => ProfilesAgree
  <2> SUFFICES ASSUME ProfilesInv PROVE ProfilesAgree
    BY DEF ProfilesAgree
  <2>1. \A p : Good(p, files, jobs) => Sound(p)
    BY DEF Good, Record, Sound
  <2>2. \A j \in Jobs : Gone(jobs[j]) <=> At(j, "delete", "gone")
    BY DEF Gone, At
  <2> QED
    BY <2>1, <2>2 DEF ProfilesInv, Copies, ProfilesAgree
<1> QED
  BY <1>1, <1>2, <1>3, PTL DEF ProfilesSpec


(***************************************************************************)
(* Profiles: who waits for whom                                            *)
(***************************************************************************)

\* The commands that take the write lock, and when they have it.
LockOps == {"delete", "switch", "restore", "exit"}
LockAt(op, pc) == op \in LockOps /\ pc # "lock"

\* The steps at which a command may have the permit, and the update flag.
PermitAt(op, pc) ==
  \/ pc \in {"write", "edited", "storing"}
  \/ /\ op = "delete"
     /\ pc \in {"update", "generate", "apply", "rollback", "reapply", "record", "cleanup", "gone", "unlock"}
FlagAt(op, pc) ==
  \/ pc \in {"generate", "apply", "rollback", "reapply"}
  \/ op = "delete" /\ pc \in {"record", "cleanup", "gone", "unlock"}

\* The steps of each command.
StepOf(op, pc) ==
  \/ op = "none" /\ pc = "idle"
  \/ op = "import" /\ pc \in {"fetch", "append", "write", "store", "storing"}
  \/ op = "reorder" /\ pc \in {"edit", "edited"}
  \/ op = "update" /\ pc \in {"check", "fetch", "fetch by core", "fetch by proxy", "edit", "edited"}
  \/ op = "save" /\ pc \in {"read", "put", "validate", "restore"}
  \/ op \in {"update", "save", "enhance", "restore"} /\ pc \in {"update", "generate", "apply", "unlock"}
  \/ op = "delete" /\ pc \in {"lock", "plan", "update", "generate", "apply", "rollback", "reapply", "record",
                              "cleanup", "gone", "unlock"}
  \/ op = "switch" /\ pc \in {"lock", "stage", "update", "generate", "apply", "commit", "current", "store",
                              "storing", "discard", "restage", "reinstate", "unlock"}
  \/ op = "restore" /\ pc \in {"lock", "extract", "reload", "take"}
  \/ op = "exit" /\ pc \in {"lock", "stage", "unlock"}

\* A job has its fields and is at a step of its command.
OnItsWay(y) ==
  /\ DOMAIN y = {"op", "pc", "uid", "prev", "copy", "text", "original", "seen"}
  /\ StepOf(y.op, y.pc)

\* What is held is held by a command at a step that gives it back, and the flag
\* of a switch by a switch.
HeldRight ==
  /\ jobs = [k \in Jobs |-> jobs[k]] /\ \A k \in Jobs : OnItsWay(jobs[k])
  /\ write_lock = NoOne \/ (write_lock \in Jobs /\ LockAt(jobs[write_lock].op, jobs[write_lock].pc))
  /\ permit = [by |-> permit.by, stale |-> permit.stale]
  /\ permit = NoPermit \/ (permit.by \in Jobs /\ PermitAt(jobs[permit.by].op, jobs[permit.by].pc))
  /\ updating = NoOne \/ (updating \in Jobs /\ FlagAt(jobs[updating].op, jobs[updating].pc))
  /\ switching \in BOOLEAN /\ (switching => \E k \in Jobs : jobs[k].op = "switch")
  /\ savers \in Nat

\* A command that is none.
LEMMA NoJobHolds == OnItsWay(NoJob) /\ NoJob.op = "none" /\ NoJob.pc = "idle"
BY DEF NoJob, OnItsWay, StepOf

\* Nothing is held while nobody works.
LEMMA IdleHolds ==
  ASSUME jobs = [k \in Jobs |-> NoJob], write_lock = NoOne, permit = NoPermit, updating = NoOne,
         switching = FALSE, savers = 0
  PROVE  HeldRight
<1>1. \A k \in Jobs : jobs[k] = NoJob
  OBVIOUS
<1>2. jobs = [k \in Jobs |-> jobs[k]]
  OBVIOUS
<1>3. permit = [by |-> permit.by, stale |-> permit.stale]
  BY DEF NoPermit
<1> HIDE DEF NoJob
<1>4. \A k \in Jobs : OnItsWay(jobs[k])
  BY <1>1, NoJobHolds
<1> QED
  BY <1>2, <1>3, <1>4 DEF HeldRight

\* What has the lock, the permit or the flag before a step of command j, which
\* goes on as x: it has been given back, or j has it now and may, or nothing
\* changed and j may keep what it has.
Keeps(j, x, At1(_, _), held, new) ==
  \/ new = NoOne
  \/ new = j /\ At1(x.op, x.pc)
  \/ new = held /\ (At1(jobs[j].op, jobs[j].pc) => (At1(x.op, x.pc) \/ held # j))

\* Such a step keeps the invariant.
LEMMA HeldKept ==
  ASSUME HeldRight, NEW j \in Jobs, NEW x, jobs' = [jobs EXCEPT ![j] = x], OnItsWay(x),
         Keeps(j, x, LockAt, write_lock, write_lock'),
         permit' = NoPermit \/ (permit' = [by |-> permit'.by, stale |-> permit'.stale] /\ permit'.by \in Jobs),
         Keeps(j, x, PermitAt, permit.by, permit'.by),
         Keeps(j, x, FlagAt, updating, updating'),
         switching' \in BOOLEAN,
         switching' => (x.op = "switch" \/ (switching /\ jobs[j].op # "switch")),
         savers' \in Nat
  PROVE  HeldRight'
<1>1. /\ jobs' = [k \in Jobs |-> jobs'[k]] /\ jobs'[j] = x
      /\ \A k \in Jobs \ {j} : jobs'[k] = jobs[k]
  BY DEF HeldRight
<1>2. \A k \in Jobs : OnItsWay(jobs'[k])
  BY <1>1 DEF HeldRight
<1>3. write_lock' = NoOne \/ (write_lock' \in Jobs /\ LockAt(jobs'[write_lock'].op, jobs'[write_lock'].pc))
  BY <1>1 DEF HeldRight, Keeps
<1>4. permit' = NoPermit \/ (permit'.by \in Jobs /\ PermitAt(jobs'[permit'.by].op, jobs'[permit'.by].pc))
  <2>1. permit.by = NoOne \/ (permit.by \in Jobs /\ PermitAt(jobs[permit.by].op, jobs[permit.by].pc))
    BY DEF HeldRight, NoPermit
  <2>2. permit' = NoPermit \/ permit'.by # NoOne
    BY ProfilesAssumption
  <2> QED
    BY <1>1, <2>1, <2>2 DEF Keeps
<1>5. updating' = NoOne \/ (updating' \in Jobs /\ FlagAt(jobs'[updating'].op, jobs'[updating'].pc))
  BY <1>1 DEF HeldRight, Keeps
<1>6. switching' => \E k \in Jobs : jobs'[k].op = "switch"
  BY <1>1 DEF HeldRight
<1>7. permit' = [by |-> permit'.by, stale |-> permit'.stale]
  BY DEF NoPermit
<1> QED
  BY <1>1, <1>2, <1>3, <1>4, <1>5, <1>6, <1>7 DEF HeldRight

\* A step from a to b of command op gives nothing back.
Onward(op, a, b) ==
  /\ StepOf(op, b)
  /\ LockAt(op, a) => LockAt(op, b)
  /\ PermitAt(op, a) => PermitAt(op, b)
  /\ FlagAt(op, a) => FlagAt(op, b)

\* A command that goes on as x with what it holds.
LEMMA GoesOn ==
  ASSUME HeldRight, NEW j \in Jobs, NEW x, jobs' = [jobs EXCEPT ![j] = x],
         DOMAIN x = DOMAIN jobs[j], x.op = jobs[j].op, Onward(jobs[j].op, jobs[j].pc, x.pc),
         UNCHANGED <<write_lock, switching, updating>>, savers' \in Nat,
         permit' = permit \/ (permit # NoPermit /\ permit' = [permit EXCEPT !.stale = TRUE])
  PROVE  HeldRight'
<1>1. OnItsWay(x)
  BY DEF OnItsWay, HeldRight, Onward
<1>2. Keeps(j, x, LockAt, write_lock, write_lock') /\ Keeps(j, x, FlagAt, updating, updating')
  BY DEF Keeps, Onward
<1>3. /\ permit'.by = permit.by
      /\ permit' = NoPermit \/ (permit' = [by |-> permit'.by, stale |-> permit'.stale] /\ permit'.by \in Jobs)
  BY DEF HeldRight, NoPermit
<1>4. Keeps(j, x, PermitAt, permit.by, permit'.by)
  BY <1>3 DEF Keeps, Onward
<1>5. /\ switching' \in BOOLEAN
      /\ switching' => (x.op = "switch" \/ (switching /\ jobs[j].op # "switch"))
  BY DEF HeldRight
<1> QED
  BY <1>1, <1>2, <1>3, <1>4, <1>5, HeldKept

\* The fields of a job that goes to pc.
LEMMA WentTo ==
  ASSUME HeldRight, NEW j \in Jobs, NEW pc
  PROVE  LET x == [jobs[j] EXCEPT !.pc = pc]
         IN  /\ DOMAIN x = DOMAIN jobs[j] /\ x.op = jobs[j].op /\ x.pc = pc
             /\ [jobs EXCEPT ![j].pc = pc] = [jobs EXCEPT ![j] = x]
<1>1. OnItsWay(jobs[j])
  BY DEF HeldRight
<1> QED
  BY <1>1 DEF OnItsWay

\* A command that goes to pc with what it holds.
LEMMA GoesTo ==
  ASSUME HeldRight, NEW j \in Jobs, NEW pc, JobGoto(j, pc), Onward(jobs[j].op, jobs[j].pc, pc),
         UNCHANGED <<write_lock, switching, updating>>, savers' \in Nat,
         permit' = permit \/ (permit # NoPermit /\ permit' = [permit EXCEPT !.stale = TRUE])
  PROVE  HeldRight'
<1> DEFINE x == [jobs[j] EXCEPT !.pc = pc]
<1>1. DOMAIN x = DOMAIN jobs[j] /\ x.op = jobs[j].op /\ x.pc = pc /\ jobs' = [jobs EXCEPT ![j] = x]
  BY WentTo DEF JobGoto
<1> HIDE DEF x
<1> QED
  BY <1>1, GoesOn

\* A command that has no lock and, but for the permit it gives back, nothing
\* else ends.
LEMMA Ends ==
  ASSUME HeldRight, NEW j \in Jobs, JobDone(j), ~ LockAt(jobs[j].op, jobs[j].pc),
         ~ FlagAt(jobs[j].op, jobs[j].pc), jobs[j].op # "switch",
         permit' = NoPermit \/ (permit' = permit /\ ~ PermitAt(jobs[j].op, jobs[j].pc)),
         UNCHANGED <<write_lock, switching, updating, savers>>
  PROVE  HeldRight'
<1>1. jobs' = [jobs EXCEPT ![j] = NoJob] /\ OnItsWay(NoJob)
  BY NoJobHolds DEF JobDone
<1> HIDE DEF NoJob
<1>2. Keeps(j, NoJob, LockAt, write_lock, write_lock') /\ Keeps(j, NoJob, FlagAt, updating, updating')
  BY DEF Keeps
<1>3. permit' = NoPermit \/ (permit' = [by |-> permit'.by, stale |-> permit'.stale] /\ permit'.by \in Jobs)
  BY DEF HeldRight
<1>4. Keeps(j, NoJob, PermitAt, permit.by, permit'.by)
  BY DEF Keeps, NoPermit
<1>5. /\ switching' \in BOOLEAN /\ savers' \in Nat
      /\ switching' => (NoJob.op = "switch" \/ (switching /\ jobs[j].op # "switch"))
  BY DEF HeldRight
<1> QED
  BY <1>1, <1>2, <1>3, <1>4, <1>5, HeldKept

\* A command that takes the permit with its copy.
LEMMA TakesPermit ==
  ASSUME HeldRight, NEW j \in Jobs, NEW pc, NEW c, CopyData(j, pc, c),
         Onward(jobs[j].op, jobs[j].pc, pc), PermitAt(jobs[j].op, pc),
         UNCHANGED <<write_lock, switching, updating, savers>>
  PROVE  HeldRight'
<1> DEFINE x == [jobs[j] EXCEPT !.pc = pc, !.copy = c]
<1>1. OnItsWay(jobs[j])
  BY DEF HeldRight
<1>2. jobs' = [jobs EXCEPT ![j] = x] /\ permit' = [by |-> j, stale |-> FALSE]
  BY DEF CopyData, HeldRight
<1>3. DOMAIN x = DOMAIN jobs[j] /\ x.op = jobs[j].op /\ x.pc = pc
  BY <1>1 DEF OnItsWay
<1> HIDE DEF x
<1>4. OnItsWay(x)
  BY <1>1, <1>3 DEF OnItsWay, Onward
<1>5. Keeps(j, x, LockAt, write_lock, write_lock') /\ Keeps(j, x, FlagAt, updating, updating')
  BY <1>3 DEF Keeps, Onward
<1>6. Keeps(j, x, PermitAt, permit.by, permit'.by)
  BY <1>2, <1>3 DEF Keeps
<1>7. /\ switching' \in BOOLEAN /\ savers' \in Nat
      /\ switching' => (x.op = "switch" \/ (switching /\ jobs[j].op # "switch"))
  BY <1>3 DEF HeldRight
<1>8. permit' = [by |-> permit'.by, stale |-> permit'.stale] /\ permit'.by \in Jobs
  BY <1>2
<1> QED
  BY <1>2, <1>4, <1>5, <1>6, <1>7, <1>8, HeldKept

\* A command that goes to pc, and gives the permit, the flag or both back, or
\* takes the lock or the flag.
LEMMA HandsOver ==
  ASSUME HeldRight, NEW j \in Jobs, NEW pc, JobGoto(j, pc), StepOf(jobs[j].op, pc),
         \/ write_lock' = j /\ LockAt(jobs[j].op, pc)
         \/ write_lock' = write_lock /\ (LockAt(jobs[j].op, jobs[j].pc) => LockAt(jobs[j].op, pc)),
         \/ permit' = NoPermit
         \/ permit' = permit /\ (PermitAt(jobs[j].op, jobs[j].pc) => PermitAt(jobs[j].op, pc)),
         \/ updating' = NoOne
         \/ updating' = j /\ FlagAt(jobs[j].op, pc)
         \/ updating' = updating /\ (FlagAt(jobs[j].op, jobs[j].pc) => FlagAt(jobs[j].op, pc)),
         UNCHANGED <<switching, savers>>
  PROVE  HeldRight'
<1> DEFINE x == [jobs[j] EXCEPT !.pc = pc]
<1>1. DOMAIN x = DOMAIN jobs[j] /\ x.op = jobs[j].op /\ x.pc = pc /\ jobs' = [jobs EXCEPT ![j] = x]
  BY WentTo DEF JobGoto
<1> HIDE DEF x
<1>2. OnItsWay(x)
  BY <1>1 DEF OnItsWay, HeldRight
<1>3. Keeps(j, x, LockAt, write_lock, write_lock') /\ Keeps(j, x, FlagAt, updating, updating')
  BY <1>1 DEF Keeps
<1>4. permit' = NoPermit \/ (permit' = [by |-> permit'.by, stale |-> permit'.stale] /\ permit'.by \in Jobs)
  BY DEF HeldRight
<1>5. Keeps(j, x, PermitAt, permit.by, permit'.by)
  BY <1>1 DEF Keeps, NoPermit
<1>6. /\ switching' \in BOOLEAN /\ savers' \in Nat
      /\ switching' => (x.op = "switch" \/ (switching /\ jobs[j].op # "switch"))
  BY <1>1 DEF HeldRight
<1> QED
  BY <1>1, <1>2, <1>3, <1>4, <1>5, <1>6, HeldKept

\* Fetching, and saving the text of a profile.
LEMMA ReadsGo ==
  ASSUME HeldRight, NEW j \in Jobs,
         \/ from_url(j) \/ should_update_profile(j) \/ SaveRead(j) \/ SavePut(j)
         \/ handle_saved_profile_file(j) \/ restore_original(j)
  PROVE  HeldRight'
<1>1. UNCHANGED <<write_lock, switching, updating, permit, savers>>
  BY DEF from_url, should_update_profile, SaveRead, SavePut, handle_saved_profile_file, restore_original, flags
<1>2. StepOf(jobs[j].op, jobs[j].pc) /\ savers' \in Nat
  BY <1>1 DEF HeldRight, OnItsWay
<1>3. CASE from_url(j)
  <2>1. jobs[j].op \in {"import", "update"} /\ jobs[j].pc \in {"fetch", "fetch by core", "fetch by proxy"}
    BY <1>2, <1>3 DEF from_url, StepOf
  <2>2. CASE JobDone(j)
    BY <1>1, <2>1, <2>2, Ends DEF LockAt, LockOps, FlagAt, PermitAt
  <2>3. CASE JobGoto(j, IF jobs[j].op = "import" THEN "append" ELSE "edit")
    <3>1. Onward(jobs[j].op, jobs[j].pc, IF jobs[j].op = "import" THEN "append" ELSE "edit")
      BY <2>1 DEF Onward, StepOf, LockAt, LockOps, FlagAt, PermitAt
    <3> QED
      BY <1>1, <1>2, <2>3, <3>1, GoesTo
  <2>4. ASSUME NEW pc \in {"fetch by core", "fetch by proxy"}, jobs[j].op = "update", JobGoto(j, pc)
        PROVE  HeldRight'
    <3>1. Onward(jobs[j].op, jobs[j].pc, pc)
      BY <2>1, <2>4 DEF Onward, StepOf, LockAt, LockOps, FlagAt, PermitAt
    <3> QED
      BY <1>1, <1>2, <2>4, <3>1, GoesTo
  <2>5. \/ JobGoto(j, IF jobs[j].op = "import" THEN "append" ELSE "edit")
        \/ jobs[j].op = "update" /\ JobGoto(j, "fetch by core")
        \/ jobs[j].op = "update" /\ JobGoto(j, "fetch by proxy")
        \/ JobDone(j)
    BY <1>3 DEF from_url, perform_profile_update, At
  <2> QED
    BY <2>2, <2>3, <2>4, <2>5
<1>4. CASE should_update_profile(j)
  <2>1. jobs[j].op = "update" /\ jobs[j].pc = "check"
    BY <1>4 DEF should_update_profile, At
  <2>2. CASE JobDone(j)
    BY <1>1, <2>1, <2>2, Ends DEF LockAt, LockOps, FlagAt, PermitAt
  <2>3. Onward(jobs[j].op, jobs[j].pc, "fetch") /\ Onward(jobs[j].op, jobs[j].pc, "update")
    BY <2>1 DEF Onward, StepOf, LockAt, LockOps, FlagAt, PermitAt
  <2>4. CASE JobGoto(j, "fetch") \/ JobGoto(j, "update")
    BY <1>1, <1>2, <2>3, <2>4, GoesTo
  <2> QED
    BY <1>4, <2>2, <2>4 DEF should_update_profile
<1>5. CASE SaveRead(j)
  <2>1. jobs[j].op = "save" /\ jobs[j].pc = "read"
    BY <1>5 DEF SaveRead, At
  <2>2. CASE JobDone(j)
    BY <1>1, <2>1, <2>2, Ends DEF LockAt, LockOps, FlagAt, PermitAt
  <2>3. ASSUME NEW original, NEW prev,
               jobs' = [jobs EXCEPT ![j].pc = "put", ![j].original = original, ![j].prev = prev]
        PROVE  HeldRight'
    <3> DEFINE x == [jobs[j] EXCEPT !.pc = "put", !.original = original, !.prev = prev]
    <3>1. jobs' = [jobs EXCEPT ![j] = x]
      BY <2>3 DEF HeldRight
    <3>2. OnItsWay(jobs[j])
      BY DEF HeldRight
    <3>3. DOMAIN x = DOMAIN jobs[j] /\ x.op = jobs[j].op /\ x.pc = "put"
      BY <3>2 DEF OnItsWay
    <3> HIDE DEF x
    <3>4. Onward(jobs[j].op, jobs[j].pc, x.pc)
      BY <2>1, <3>3 DEF Onward, StepOf, LockAt, LockOps, FlagAt, PermitAt
    <3> QED
      BY <1>1, <1>2, <3>1, <3>3, <3>4, GoesOn
  <2> QED
    BY <1>5, <2>2, <2>3 DEF SaveRead
<1>6. CASE SavePut(j)
  <2>1. jobs[j].op = "save" /\ jobs[j].pc = "put" /\ JobGoto(j, "validate")
    BY <1>6 DEF SavePut, At
  <2>2. Onward(jobs[j].op, jobs[j].pc, "validate")
    BY <2>1 DEF Onward, StepOf, LockAt, LockOps, FlagAt, PermitAt
  <2> QED
    BY <1>1, <1>2, <2>1, <2>2, GoesTo
<1>7. CASE handle_saved_profile_file(j)
  <2>1. /\ jobs[j].op = "save" /\ jobs[j].pc = "validate"
        /\ JobDone(j) \/ JobGoto(j, "update") \/ JobGoto(j, "restore")
    BY <1>7 DEF handle_saved_profile_file, At
  <2>2. CASE JobDone(j)
    BY <1>1, <2>1, <2>2, Ends DEF LockAt, LockOps, FlagAt, PermitAt
  <2>3. Onward(jobs[j].op, jobs[j].pc, "update") /\ Onward(jobs[j].op, jobs[j].pc, "restore")
    BY <2>1 DEF Onward, StepOf, LockAt, LockOps, FlagAt, PermitAt
  <2> QED
    BY <1>1, <1>2, <2>1, <2>2, <2>3, GoesTo
<1>8. CASE restore_original(j)
  <2>1. jobs[j].op = "save" /\ jobs[j].pc = "restore" /\ JobDone(j)
    BY <1>8 DEF restore_original, At
  <2> QED
    BY <1>1, <2>1, Ends DEF LockAt, LockOps, FlagAt, PermitAt
<1> QED
  BY <1>3, <1>4, <1>5, <1>6, <1>7, <1>8

\* A modification begins.
LEMMA CopiesGo ==
  ASSUME HeldRight, NEW j \in Jobs,
         profiles_append_item_safe(j) \/ Edit(j) \/ SaveCopy(j) \/ DeletePlan(j)
  PROVE  HeldRight'
<1>1. UNCHANGED <<write_lock, switching, updating, savers>>
  BY DEF profiles_append_item_safe, Edit, SaveCopy, DeletePlan, flags
<1>2. StepOf(jobs[j].op, jobs[j].pc) /\ savers' \in Nat
  BY <1>1 DEF HeldRight, OnItsWay
<1>3. CASE profiles_append_item_safe(j)
  <2>1. /\ jobs[j].op = "import" /\ jobs[j].pc = "append"
        /\ CopyData(j, "write", append_item(profiles, jobs[j].uid))
    BY <1>3 DEF profiles_append_item_safe, At
  <2>2. Onward(jobs[j].op, jobs[j].pc, "write") /\ PermitAt(jobs[j].op, "write")
    BY <2>1 DEF Onward, StepOf, LockAt, LockOps, FlagAt, PermitAt
  <2> QED
    BY <1>1, <2>1, <2>2, TakesPermit
<1>4. CASE Edit(j)
  <2> DEFINE c == IF jobs[j].op = "reorder" THEN reorder(profiles, jobs[j].uid, jobs[j].text) ELSE profiles
  <2>1. jobs[j].pc = "edit" /\ CopyData(j, "edited", c)
    BY <1>4 DEF Edit
  <2> HIDE DEF c
  <2>2. Onward(jobs[j].op, jobs[j].pc, "edited") /\ PermitAt(jobs[j].op, "edited")
    BY <1>2, <2>1 DEF Onward, StepOf, LockAt, LockOps, FlagAt, PermitAt
  <2> QED
    BY <1>1, <2>1, <2>2, TakesPermit
<1>5. CASE SaveCopy(j)
  <2>1. jobs[j].pc = "store" /\ CopyData(j, "storing", profiles)
    BY <1>5 DEF SaveCopy
  <2>2. Onward(jobs[j].op, jobs[j].pc, "storing") /\ PermitAt(jobs[j].op, "storing")
    BY <1>2, <2>1 DEF Onward, StepOf, LockAt, LockOps, FlagAt, PermitAt
  <2> QED
    BY <1>1, <2>1, <2>2, TakesPermit
<1>6. CASE DeletePlan(j)
  <2>1. jobs[j].op = "delete" /\ jobs[j].pc = "plan"
    BY <1>6 DEF DeletePlan, At
  <2>2. CASE JobGoto(j, "unlock") /\ UNCHANGED permit
    <3>1. Onward(jobs[j].op, jobs[j].pc, "unlock")
      BY <2>1 DEF Onward, StepOf, LockAt, LockOps, FlagAt, PermitAt
    <3> QED
      BY <1>1, <1>2, <2>2, <3>1, GoesTo
  <2>3. ASSUME NEW pc \in {"update", "record"}, CopyData(j, pc, plan_delete_item(profiles, jobs[j].uid))
        PROVE  HeldRight'
    <3>1. Onward(jobs[j].op, jobs[j].pc, pc) /\ PermitAt(jobs[j].op, pc)
      BY <2>1 DEF Onward, StepOf, LockAt, LockOps, FlagAt, PermitAt
    <3> QED
      BY <1>1, <2>3, <3>1, TakesPermit
  <2> QED
    BY <1>6, <2>2, <2>3 DEF DeletePlan
<1> QED
  BY <1>3, <1>4, <1>5, <1>6

\* A modification ends and gives the permit back.
LEMMA CommitsGo ==
  ASSUME HeldRight, NEW j \in Jobs, AppendWrite(j) \/ update_item(j) \/ save_file(j) \/ DeleteCommit(j)
  PROVE  HeldRight'
<1>1. UNCHANGED <<write_lock, switching, updating, savers>> /\ permit' = NoPermit
  BY DEF AppendWrite, update_item, save_file, DeleteCommit, CommitData, flags
<1>2. StepOf(jobs[j].op, jobs[j].pc)
  BY DEF HeldRight, OnItsWay
<1>3. CASE AppendWrite(j)
  <2>1. jobs[j].op = "import" /\ jobs[j].pc = "write" /\ (JobDone(j) \/ JobGoto(j, "store"))
    BY <1>3 DEF AppendWrite, At
  <2>2. CASE JobDone(j)
    BY <1>1, <2>1, <2>2, Ends DEF LockAt, LockOps, FlagAt
  <2>3. StepOf(jobs[j].op, "store") /\ ~ LockAt(jobs[j].op, jobs[j].pc) /\ ~ FlagAt(jobs[j].op, jobs[j].pc)
    BY <2>1 DEF StepOf, LockAt, LockOps, FlagAt
  <2> QED
    BY <1>1, <2>1, <2>2, <2>3, HandsOver
<1>4. CASE update_item(j)
  <2>1. /\ jobs[j].pc = "edited"
        /\ JobDone(j) \/ (jobs[j].op = "update" /\ JobGoto(j, "update"))
    BY <1>4 DEF update_item
  <2>2. jobs[j].op \in {"update", "reorder"}
    BY <1>2, <2>1 DEF StepOf
  <2>3. CASE JobDone(j)
    BY <1>1, <2>1, <2>2, <2>3, Ends DEF LockAt, LockOps, FlagAt
  <2>4. CASE jobs[j].op = "update" /\ JobGoto(j, "update")
    <3>1. StepOf(jobs[j].op, "update") /\ ~ LockAt(jobs[j].op, jobs[j].pc) /\ ~ FlagAt(jobs[j].op, jobs[j].pc)
      BY <2>1, <2>4 DEF StepOf, LockAt, LockOps, FlagAt
    <3> QED
      BY <1>1, <2>4, <3>1, HandsOver
  <2> QED
    BY <2>1, <2>3, <2>4
<1>5. CASE save_file(j)
  <2>1. jobs[j].pc = "storing" /\ jobs[j].op \in {"import", "switch"}
    BY <1>2, <1>5 DEF save_file, StepOf
  <2>2. CASE jobs[j].op = "import"
    <3>1. JobDone(j)
      BY <1>5, <2>2 DEF save_file
    <3> QED
      BY <1>1, <2>1, <2>2, <3>1, Ends DEF LockAt, LockOps, FlagAt
  <2>3. CASE jobs[j].op = "switch"
    <3>1. JobGoto(j, "unlock")
      BY <1>5, <2>3 DEF save_file
    <3>2. StepOf(jobs[j].op, "unlock") /\ LockAt(jobs[j].op, "unlock") /\ ~ FlagAt(jobs[j].op, jobs[j].pc)
      BY <2>1, <2>3 DEF StepOf, LockAt, LockOps, FlagAt
    <3> QED
      BY <1>1, <3>1, <3>2, HandsOver
  <2> QED
    BY <2>1, <2>2, <2>3
<1>6. CASE DeleteCommit(j)
  <2>1. jobs[j].op = "delete" /\ jobs[j].pc = "gone" /\ JobGoto(j, "unlock")
    BY <1>6 DEF DeleteCommit, At
  <2>2. StepOf(jobs[j].op, "unlock") /\ LockAt(jobs[j].op, "unlock") /\ FlagAt(jobs[j].op, "unlock")
    BY <2>1 DEF StepOf, LockAt, LockOps, FlagAt
  <2> QED
    BY <1>1, <2>1, <2>2, HandsOver
<1> QED
  BY <1>3, <1>4, <1>5, <1>6

\* A configuration update ends where the command goes on.
LEMMA OutcomeGoes ==
  ASSUME HeldRight, NEW j \in Jobs, NEW valid \in BOOLEAN, jobs[j].pc \in {"update", "apply"}
  PROVE  /\ StepOf(jobs[j].op, Outcome(j, valid))
         /\ LockAt(jobs[j].op, jobs[j].pc) => LockAt(jobs[j].op, Outcome(j, valid))
         /\ PermitAt(jobs[j].op, jobs[j].pc) => PermitAt(jobs[j].op, Outcome(j, valid))
         /\ jobs[j].op = "delete" => FlagAt(jobs[j].op, Outcome(j, valid))
<1>1. /\ jobs[j].op \in {"update", "save", "enhance", "restore", "delete", "switch"}
      /\ StepOf(jobs[j].op, jobs[j].pc)
  BY DEF HeldRight, OnItsWay, StepOf
<1>2. CASE jobs[j].op = "switch"
  BY <1>2 DEF Outcome, StepOf, LockAt, LockOps, PermitAt, FlagAt
<1>3. CASE jobs[j].op = "delete"
  BY <1>3 DEF Outcome, StepOf, LockAt, LockOps, PermitAt, FlagAt
<1>4. CASE jobs[j].op \in {"update", "save", "enhance", "restore"}
  <2>1. Outcome(j, valid) = "unlock" \/ (jobs[j].op = "save" /\ Outcome(j, valid) = "restore")
    BY <1>4 DEF Outcome
  <2> QED
    BY <1>4, <2>1 DEF StepOf, LockAt, LockOps, PermitAt, FlagAt
<1> QED
  BY <1>1, <1>2, <1>3, <1>4

\* A configuration update takes the flag and, but for a deletion, gives it back.
LEMMA UpdatesGo ==
  ASSUME HeldRight, NEW j \in Jobs,
         update_config_with_force(j) \/ generate(j) \/ validate_and_apply(j) \/ restore_profile_config(j)
  PROVE  HeldRight'
<1>1. UNCHANGED <<write_lock, switching, permit, savers>>
  BY DEF update_config_with_force, generate, validate_and_apply, restore_profile_config, flags
<1>2. StepOf(jobs[j].op, jobs[j].pc) /\ savers' \in Nat
  BY <1>1 DEF HeldRight, OnItsWay
<1>3. CASE update_config_with_force(j)
  <2>1. jobs[j].pc = "update"
    BY <1>3 DEF update_config_with_force
  <2>2. CASE updating' = j /\ JobGoto(j, "generate")
    <3>1. /\ StepOf(jobs[j].op, "generate") /\ FlagAt(jobs[j].op, "generate")
          /\ LockAt(jobs[j].op, jobs[j].pc) => LockAt(jobs[j].op, "generate")
          /\ PermitAt(jobs[j].op, jobs[j].pc) => PermitAt(jobs[j].op, "generate")
      BY <1>2, <2>1 DEF StepOf, LockAt, LockOps, PermitAt, FlagAt
    <3> QED
      BY <1>1, <2>2, <3>1, HandsOver
  <2>3. CASE JobGoto(j, Outcome(j, FALSE)) /\ UNCHANGED updating
    <3>1. ~ FlagAt(jobs[j].op, jobs[j].pc)
      BY <2>1 DEF FlagAt
    <3> QED
      BY <1>1, <2>1, <2>3, <3>1, OutcomeGoes, HandsOver
  <2> QED
    BY <1>3, <2>2, <2>3 DEF update_config_with_force
<1>4. CASE generate(j)
  <2> DEFINE p == CASE jobs[j].pc = "rollback"      -> profiles
                    [] At(j, "delete", "generate") -> jobs[j].copy
                    [] OTHER                       -> latest_arc
             m == current_mapping(p)
             x == [jobs[j] EXCEPT !.seen = m, !.pc = IF @ = "rollback" THEN "reapply" ELSE "apply"]
  <2>1. /\ jobs[j].pc \in {"generate", "rollback"} /\ UNCHANGED updating
        /\ jobs' = [jobs EXCEPT ![j].seen = m, ![j].pc = IF @ = "rollback" THEN "reapply" ELSE "apply"]
    BY <1>4 DEF generate, flags
  <2> HIDE DEF m
  <2>2. jobs' = [jobs EXCEPT ![j] = x]
    BY <2>1 DEF HeldRight
  <2>3. OnItsWay(jobs[j])
    BY DEF HeldRight
  <2>4. /\ x.op = jobs[j].op /\ x.pc = (IF jobs[j].pc = "rollback" THEN "reapply" ELSE "apply")
        /\ DOMAIN x = DOMAIN jobs[j]
    BY <2>3 DEF OnItsWay
  <2> HIDE DEF x
  <2>5. Onward(jobs[j].op, jobs[j].pc, x.pc)
    BY <1>2, <2>1, <2>4 DEF Onward, StepOf, LockAt, LockOps, PermitAt, FlagAt
  <2> QED
    BY <1>1, <1>2, <2>1, <2>2, <2>4, <2>5, GoesOn
<1>5. CASE validate_and_apply(j)
  <2>1. jobs[j].pc = "apply"
    BY <1>5 DEF validate_and_apply
  <2>2. ASSUME NEW valid \in BOOLEAN, JobGoto(j, Outcome(j, valid)),
               updating' = NoOne \/ (jobs[j].op = "delete" /\ UNCHANGED updating)
        PROVE  HeldRight'
    BY <1>1, <2>1, <2>2, OutcomeGoes, HandsOver
  <2>3. CASE jobs[j].op = "delete" /\ JobGoto(j, "rollback") /\ UNCHANGED updating
    <3>1. Onward(jobs[j].op, jobs[j].pc, "rollback")
      BY <2>1, <2>3 DEF Onward, StepOf, LockAt, LockOps, PermitAt, FlagAt
    <3> QED
      BY <1>1, <1>2, <2>3, <3>1, GoesTo
  <2>4. \/ /\ JobGoto(j, Outcome(j, TRUE))
           /\ updating' = NoOne \/ (jobs[j].op = "delete" /\ UNCHANGED updating)
        \/ JobGoto(j, Outcome(j, FALSE)) /\ updating' = NoOne
        \/ jobs[j].op = "delete" /\ JobGoto(j, "rollback") /\ UNCHANGED updating
    BY <1>5 DEF validate_and_apply
  <2> QED
    BY <2>2, <2>3, <2>4
<1>6. CASE restore_profile_config(j)
  <2>1. jobs[j].op = "delete" /\ jobs[j].pc = "reapply" /\ JobGoto(j, "unlock") /\ updating' = NoOne
    BY <1>2, <1>6 DEF restore_profile_config, StepOf
  <2>2. StepOf(jobs[j].op, "unlock") /\ LockAt(jobs[j].op, "unlock") /\ PermitAt(jobs[j].op, "unlock")
    BY <2>1 DEF StepOf, LockAt, LockOps, PermitAt
  <2> QED
    BY <1>1, <2>1, <2>2, HandsOver
<1> QED
  BY <1>3, <1>4, <1>5, <1>6

\* A command takes the write lock, and gives back whatever it has with it.
LEMMA LocksGo ==
  ASSUME HeldRight, NEW j \in Jobs, WriteLock(j) \/ Unlock(j)
  PROVE  HeldRight'
<1>1. StepOf(jobs[j].op, jobs[j].pc)
  BY DEF HeldRight, OnItsWay
<1>2. CASE WriteLock(j)
  <2>1. /\ jobs[j].pc = "lock" /\ write_lock' = j
        /\ UNCHANGED <<switching, updating, permit, savers>>
    BY <1>2 DEF WriteLock
  <2>2. ~ PermitAt(jobs[j].op, jobs[j].pc) /\ ~ FlagAt(jobs[j].op, jobs[j].pc)
    BY <2>1 DEF PermitAt, FlagAt
  <2>3. ASSUME NEW pc, JobGoto(j, pc), StepOf(jobs[j].op, pc), pc # "lock"
        PROVE  HeldRight'
    <3>1. LockAt(jobs[j].op, pc)
      BY <1>1, <2>1, <2>3 DEF LockAt, LockOps, StepOf
    <3> QED
      BY <2>1, <2>2, <2>3, <3>1, HandsOver
  <2>4. jobs[j].op \in {"delete", "switch", "restore", "exit"}
    BY <1>1, <2>1 DEF StepOf
  <2>5. CASE jobs[j].op = "delete" /\ JobGoto(j, "plan")
    BY <2>3, <2>5 DEF StepOf
  <2>6. CASE jobs[j].op = "restore" /\ JobGoto(j, "extract")
    BY <2>3, <2>6 DEF StepOf
  <2>7. CASE jobs[j].op \in {"switch", "exit"} /\ JobGoto(j, "stage")
    BY <2>3, <2>7 DEF StepOf
  <2> QED
    BY <1>2, <2>4, <2>5, <2>6, <2>7 DEF WriteLock
<1>3. CASE Unlock(j)
  <2>1. /\ write_lock' = IF write_lock = j THEN NoOne ELSE write_lock
        /\ switching' = (switching /\ jobs[j].op # "switch")
        /\ updating' = IF updating = j THEN NoOne ELSE updating
        /\ permit' = IF permit.by = j THEN NoPermit ELSE permit
        /\ jobs' = [jobs EXCEPT ![j] = NoJob] /\ OnItsWay(NoJob) /\ UNCHANGED savers
    BY <1>3, NoJobHolds DEF Unlock, JobDone
  <2> HIDE DEF NoJob
  <2>2. Keeps(j, NoJob, LockAt, write_lock, write_lock') /\ Keeps(j, NoJob, FlagAt, updating, updating')
    BY <2>1 DEF Keeps
  <2>3. permit' = NoPermit \/ (permit' = [by |-> permit'.by, stale |-> permit'.stale] /\ permit'.by \in Jobs)
    BY <2>1 DEF HeldRight
  <2>4. Keeps(j, NoJob, PermitAt, permit.by, permit'.by)
    BY <2>1 DEF Keeps, NoPermit
  <2>5. /\ switching' \in BOOLEAN /\ savers' \in Nat
        /\ switching' => (NoJob.op = "switch" \/ (switching /\ jobs[j].op # "switch"))
    BY <2>1 DEF HeldRight
  <2> QED
    BY <2>1, <2>2, <2>3, <2>4, <2>5, HeldKept
<1> QED
  BY <1>2, <1>3

\* A switch, the exit, a deletion and a backup go on with what they hold.
LEMMA LockedGo ==
  ASSUME HeldRight, NEW j \in Jobs,
         \/ SwitchStage(j) \/ commit_current_profile(j) \/ discard_and_restore(j) \/ restore_previous_profile(j)
         \/ ExitSave(j) \/ DeleteRecord(j) \/ DeleteCleanup(j) \/ extract(j) \/ finalize_restored_verge_config(j)
  PROVE  HeldRight'
<1>1. /\ UNCHANGED <<write_lock, switching, updating>> /\ savers' \in Nat
      /\ permit' = permit \/ (permit # NoPermit /\ permit' = [permit EXCEPT !.stale = TRUE])
  <2>1. UNCHANGED <<write_lock, switching, updating>> /\ savers' \in {savers, savers + 1}
    BY DEF SwitchStage, commit_current_profile, discard_and_restore, restore_previous_profile, ExitSave,
           DeleteRecord, DeleteCleanup, extract, finalize_restored_verge_config, flags
  <2>2. UNCHANGED permit \/ ApplyDraft
    BY DEF SwitchStage, commit_current_profile, discard_and_restore, restore_previous_profile, ExitSave,
           DeleteRecord, DeleteCleanup, extract, finalize_restored_verge_config
  <2> QED
    BY <2>1, <2>2 DEF ApplyDraft, HeldRight
<1>2. StepOf(jobs[j].op, jobs[j].pc)
  BY DEF HeldRight, OnItsWay
<1>3. ASSUME NEW pc, JobGoto(j, pc), Onward(jobs[j].op, jobs[j].pc, pc)
      PROVE  HeldRight'
  BY <1>1, <1>3, GoesTo
<1>4. CASE SwitchStage(j)
  <2> DEFINE x == [jobs[j] EXCEPT !.pc = "update", !.prev = profiles.current]
  <2>1. jobs[j].op = "switch" /\ jobs[j].pc = "stage"
    BY <1>4 DEF SwitchStage, At
  <2>2. jobs' = [jobs EXCEPT ![j] = x]
    BY <1>4 DEF SwitchStage, HeldRight
  <2>3. OnItsWay(jobs[j])
    BY DEF HeldRight
  <2>4. DOMAIN x = DOMAIN jobs[j] /\ x.op = jobs[j].op /\ x.pc = "update"
    BY <2>3 DEF OnItsWay
  <2> HIDE DEF x
  <2>5. Onward(jobs[j].op, jobs[j].pc, x.pc)
    BY <2>1, <2>4 DEF Onward, StepOf, LockAt, LockOps, PermitAt, FlagAt
  <2> QED
    BY <1>1, <2>2, <2>4, <2>5, GoesOn
<1>5. CASE commit_current_profile(j)
  <2>1. /\ jobs[j].op = "switch"
        /\ \/ jobs[j].pc = "commit" /\ JobGoto(j, "current")
           \/ jobs[j].pc = "current" /\ JobGoto(j, "store")
    BY <1>5 DEF commit_current_profile, At
  <2>2. Onward(jobs[j].op, jobs[j].pc, "current") /\ Onward(jobs[j].op, jobs[j].pc, "store")
    BY <2>1 DEF Onward, StepOf, LockAt, LockOps, PermitAt, FlagAt
  <2> QED
    BY <1>3, <2>1, <2>2
<1>6. CASE discard_and_restore(j)
  <2>1. jobs[j].op = "switch" /\ jobs[j].pc = "discard" /\ (JobGoto(j, "unlock") \/ JobGoto(j, "restage"))
    BY <1>6 DEF discard_and_restore, At
  <2>2. Onward(jobs[j].op, jobs[j].pc, "unlock") /\ Onward(jobs[j].op, jobs[j].pc, "restage")
    BY <2>1 DEF Onward, StepOf, LockAt, LockOps, PermitAt, FlagAt
  <2> QED
    BY <1>3, <2>1, <2>2
<1>7. CASE restore_previous_profile(j)
  <2>1. /\ jobs[j].op = "switch" /\ jobs[j].pc \in {"restage", "reinstate"}
        /\ JobGoto(j, "reinstate") \/ JobGoto(j, "unlock")
    BY <1>7 DEF restore_previous_profile, At
  <2>2. Onward(jobs[j].op, jobs[j].pc, "reinstate") /\ Onward(jobs[j].op, jobs[j].pc, "unlock")
    BY <2>1 DEF Onward, StepOf, LockAt, LockOps, PermitAt, FlagAt
  <2> QED
    BY <1>3, <2>1, <2>2
<1>8. CASE ExitSave(j)
  <2>1. jobs[j].op = "exit" /\ jobs[j].pc = "stage" /\ JobGoto(j, "unlock")
    BY <1>8 DEF ExitSave, At
  <2>2. Onward(jobs[j].op, jobs[j].pc, "unlock")
    BY <2>1 DEF Onward, StepOf, LockAt, LockOps, PermitAt, FlagAt
  <2> QED
    BY <1>3, <2>1, <2>2
<1>9. CASE DeleteRecord(j) \/ DeleteCleanup(j)
  <2>1. /\ jobs[j].op = "delete" /\ jobs[j].pc \in {"record", "cleanup"}
        /\ JobGoto(j, "cleanup") \/ JobGoto(j, "rollback") \/ JobGoto(j, "unlock") \/ JobGoto(j, "gone")
    BY <1>9 DEF DeleteRecord, DeleteCleanup, At
  <2>2. \A pc \in {"cleanup", "rollback", "unlock", "gone"} : Onward(jobs[j].op, jobs[j].pc, pc)
    BY <2>1 DEF Onward, StepOf, LockAt, LockOps, PermitAt, FlagAt
  <2> QED
    BY <1>3, <2>1, <2>2
<1>10. CASE extract(j) \/ finalize_restored_verge_config(j)
  <2>1. /\ jobs[j].pc \in {"extract", "reload", "take"}
        /\ JobGoto(j, "unlock") \/ JobGoto(j, "reload") \/ JobGoto(j, "take") \/ JobGoto(j, "update")
    BY <1>10 DEF extract, finalize_restored_verge_config
  <2>2. \A pc \in {"unlock", "reload", "take", "update"} : Onward(jobs[j].op, jobs[j].pc, pc)
    BY <1>2, <2>1 DEF Onward, StepOf, LockAt, LockOps, PermitAt, FlagAt
  <2> QED
    BY <1>3, <2>1, <2>2
<1> QED
  BY <1>4, <1>5, <1>6, <1>7, <1>8, <1>9, <1>10

\* A command that starts has nothing.
LEMMA StartsGo ==
  ASSUME HeldRight, NEW j \in Jobs, ProfilesStart(j)
  PROVE  HeldRight'
<1>1. ASSUME NEW x, jobs[j] = NoJob, OnItsWay(x), ~ LockAt(x.op, x.pc), jobs' = [jobs EXCEPT ![j] = x],
             UNCHANGED <<write_lock, updating, permit, savers>>,
             switching' \in BOOLEAN, switching' => (switching \/ x.op = "switch")
      PROVE  HeldRight'
  <2>1. jobs[j].op = "none" /\ jobs[j].pc = "idle"
    BY <1>1, NoJobHolds
  <2> HIDE DEF NoJob
  <2>2. ~ LockAt(jobs[j].op, jobs[j].pc) /\ ~ PermitAt(jobs[j].op, jobs[j].pc) /\ ~ FlagAt(jobs[j].op, jobs[j].pc)
    BY <2>1 DEF LockAt, LockOps, PermitAt, FlagAt
  <2>3. Keeps(j, x, LockAt, write_lock, write_lock') /\ Keeps(j, x, FlagAt, updating, updating')
    BY <1>1, <2>2 DEF Keeps
  <2>4. permit' = NoPermit \/ (permit' = [by |-> permit'.by, stale |-> permit'.stale] /\ permit'.by \in Jobs)
    BY <1>1 DEF HeldRight
  <2>5. Keeps(j, x, PermitAt, permit.by, permit'.by)
    BY <1>1, <2>2 DEF Keeps
  <2>6. switching' => (x.op = "switch" \/ (switching /\ jobs[j].op # "switch"))
    BY <1>1, <2>1
  <2>7. savers' \in Nat
    BY <1>1 DEF HeldRight
  <2> QED
    BY <1>1, <2>3, <2>4, <2>5, <2>6, <2>7, HeldKept
<1>2. ASSUME NEW op, NEW pc, NEW u, NEW text, ProfilesCall(j, op, pc, u, text), StepOf(op, pc), ~ LockAt(op, pc)
      PROVE  HeldRight'
  <2> DEFINE x == [NoJob EXCEPT !.op = op, !.pc = pc, !.uid = u, !.text = text]
  <2>1. OnItsWay(x) /\ x.op = op /\ x.pc = pc
    BY <1>2 DEF NoJob, OnItsWay
  <2>2. /\ jobs[j] = NoJob /\ jobs' = [jobs EXCEPT ![j] = x]
        /\ UNCHANGED <<write_lock, switching, updating, permit, savers>>
    BY <1>2 DEF ProfilesCall, flags
  <2> HIDE DEF x, NoJob
  <2>3. switching' \in BOOLEAN
    BY <2>2 DEF HeldRight
  <2> QED
    BY <1>1, <1>2, <2>1, <2>2, <2>3
<1>3. CASE import_profile(j)
  BY <1>2, <1>3 DEF import_profile, StepOf, LockAt, LockOps
<1>4. CASE update_profile(j)
  BY <1>2, <1>4 DEF update_profile, StepOf, LockAt, LockOps
<1>5. CASE save_profile_file(j)
  BY <1>2, <1>5 DEF save_profile_file, StepOf, LockAt, LockOps
<1>6. CASE delete_profile(j)
  BY <1>2, <1>6 DEF delete_profile, StepOf, LockAt
<1>7. CASE reorder_profile(j)
  BY <1>2, <1>7 DEF reorder_profile, StepOf, LockAt, LockOps
<1>8. CASE enhance_profiles(j)
  BY <1>2, <1>8 DEF enhance_profiles, StepOf, LockAt, LockOps
<1>9. CASE apply_all_and_save_file(j)
  BY <1>2, <1>9 DEF apply_all_and_save_file, StepOf, LockAt
<1>10. CASE restore_local_backup(j)
  BY <1>2, <1>10 DEF restore_local_backup, StepOf, LockAt
<1>11. CASE patch_profiles_config(j)
  <2>1. PICK u \in Uids : jobs' = [jobs EXCEPT ![j] = [NoJob EXCEPT !.op = "switch", !.pc = "lock", !.uid = u]]
    BY <1>11 DEF patch_profiles_config
  <2> DEFINE x == [NoJob EXCEPT !.op = "switch", !.pc = "lock", !.uid = u]
  <2>2. OnItsWay(x) /\ x.op = "switch" /\ ~ LockAt(x.op, x.pc)
    BY DEF NoJob, OnItsWay, StepOf, LockAt
  <2>3. /\ jobs[j] = NoJob /\ jobs' = [jobs EXCEPT ![j] = x] /\ switching' \in BOOLEAN
        /\ UNCHANGED <<write_lock, updating, permit, savers>>
    BY <1>11, <2>1 DEF patch_profiles_config
  <2> HIDE DEF x, NoJob
  <2> QED
    BY <1>1, <2>2, <2>3
<1> QED
  BY <1>3, <1>4, <1>5, <1>6, <1>7, <1>8, <1>9, <1>10, <1>11 DEF ProfilesStart

\* Every step keeps the invariant.
LEMMA NextHolds ==
  ASSUME HeldRight, [ProfilesNext]_profVars
  PROVE  HeldRight'
<1>1. CASE BackgroundSave
  <2>1. UNCHANGED <<write_lock, switching, updating, permit, jobs>> /\ savers > 0 /\ savers' = savers - 1
    BY <1>1 DEF BackgroundSave, flags
  <2> QED
    BY <2>1 DEF HeldRight
<1>2. CASE ProfilesRestart
  <2>1. /\ jobs' = [k \in Jobs |-> NoJob] /\ write_lock' = NoOne /\ permit' = NoPermit /\ updating' = NoOne
        /\ switching' = FALSE /\ savers' = 0
    BY <1>2 DEF ProfilesRestart
  <2>2. permit' = [by |-> permit'.by, stale |-> permit'.stale]
    BY <2>1 DEF NoPermit
  <2> HIDE DEF NoJob
  <2>3. \A k \in Jobs : OnItsWay(jobs'[k])
    BY <2>1, NoJobHolds
  <2> QED
    BY <2>1, <2>2, <2>3 DEF HeldRight
<1>3. ASSUME NEW j \in Jobs, ProfilesStart(j) PROVE HeldRight'
  BY <1>3, StartsGo
<1>4. ASSUME NEW j \in Jobs, ProfilesStep(j) PROVE HeldRight'
  BY <1>4, ReadsGo, CopiesGo, CommitsGo, UpdatesGo, LocksGo, LockedGo DEF ProfilesStep
<1>5. CASE UNCHANGED profVars
  BY <1>5 DEF profVars, HeldRight
<1> QED
  BY <1>1, <1>2, <1>3, <1>4, <1>5 DEF ProfilesNext

\* The write lock, the permit and the update flag never make the commands wait
\* for each other: who has the permit goes on, if nobody has it who has the
\* write lock goes on, and once nobody works nothing is kept.
THEOREM GoesOnCorrect == ProfilesSpec => []SomebodyGoesOn
<1>1. ProfilesInit => HeldRight
  BY IdleHolds DEF ProfilesInit
<1>2. HeldRight => SomebodyGoesOn
  <2> SUFFICES ASSUME HeldRight PROVE SomebodyGoesOn
    OBVIOUS
  <2> HIDE DEF NoJob
  <2>1. CASE permit # NoPermit
    <3>1. permit.by \in Jobs /\ PermitAt(jobs[permit.by].op, jobs[permit.by].pc)
      BY <2>1 DEF HeldRight
    <3>2. jobs[permit.by] # NoJob /\ ~ Waits(permit.by)
      BY <3>1, NoJobHolds DEF PermitAt, Waits
    <3> QED
      BY <3>1, <3>2 DEF SomebodyGoesOn
  <2>2. CASE permit = NoPermit /\ write_lock # NoOne
    <3>1. write_lock \in Jobs /\ LockAt(jobs[write_lock].op, jobs[write_lock].pc)
      BY <2>2 DEF HeldRight
    <3>2. jobs[write_lock] # NoJob /\ ~ Waits(write_lock)
      BY <2>2, <3>1, NoJobHolds DEF LockAt, LockOps, Waits
    <3> QED
      BY <3>1, <3>2 DEF SomebodyGoesOn
  <2>3. CASE permit = NoPermit /\ write_lock = NoOne
    <3>1. CASE \E j \in Jobs : jobs[j] # NoJob
      BY <2>3, <3>1 DEF SomebodyGoesOn, Waits
    <3>2. CASE savers > 0
      BY <2>3, <3>2 DEF SomebodyGoesOn
    <3>3. CASE savers = 0 /\ \A j \in Jobs : jobs[j] = NoJob
      <4>1. \A j \in Jobs : jobs[j].op = "none" /\ jobs[j].pc = "idle"
        BY <3>3, NoJobHolds
      <4>2. updating = NoOne /\ switching = FALSE
        BY <4>1 DEF HeldRight, FlagAt
      <4> QED
        BY <2>3, <3>3, <4>2 DEF SomebodyGoesOn, NobodyWorks
    <3> QED
      BY <3>1, <3>2, <3>3 DEF HeldRight
  <2> QED
    BY <2>1, <2>2, <2>3
<1> QED
  BY <1>1, <1>2, NextHolds, PTL DEF ProfilesSpec

=============================================================================

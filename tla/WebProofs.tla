------------------------------- MODULE WebProofs -------------------------------
(***************************************************************************)
(* Proofs about three parts of the server, each on its own: the settings   *)
(* and the sign-ins (Settings), the event stream of a run (EventStream)    *)
(* and the scopes of a run (RunScopes), for any threads, connections,      *)
(* events, scopes and modules.                                             *)
(***************************************************************************)
EXTENDS Settings, EventStream, RunScopes, SequenceTheorems, FiniteSetTheorems, TLAPS

------------------------------------------------------------------------------
(***************************************************************************)
(* The settings.  The environment is what was loaded, but for what the run *)
(* overrides, and the run knows what it has to put back.                   *)
(***************************************************************************)
EnvInv ==
    /\ EnvScoped /\ DOMAIN loaded = Keys
    /\ run.pc \in {"idle", "scheduled", "inside", "scope"}
    /\ run.pc \in {"idle", "scheduled"} => run.days = Absent
    /\ run.pc \in {"inside", "scope"} /\ run.days # Absent => run.saved = loaded["days"]
    /\ run.pc = "scope" => run.prev = loaded["source"]

(***************************************************************************)
(* The sign-ins.                                                           *)
(***************************************************************************)
Signing(p) == {l \in Logins : flow[l].of = p /\ flow[l].pc \in {"listening", "saving"}}

SignInInv ==
    /\ flow \in [Logins -> [of : Providers, pc : {"unused", "listening", "saving", "over"}]]
    /\ status \in [Providers -> {"idle", "pending", "ready", "error"}]
    /\ \A p \in Providers : /\ \A l, k \in Signing(p) : l = k
                            /\ status[p] = "pending" <=> Signing(p) # {}

(***************************************************************************)
(* The file.  Only a sign-in writes the token, and as long as no write was *)
(* based on an outdated copy none takes it away again.                     *)
(***************************************************************************)
TokenChange == [key |-> "token", value |-> Granted]
PageChange == [key : {"source", "account"}, value : Values]

ThreadInv ==
    /\ todo \in [Threads -> Seq(PageChange \cup {TokenChange})]
    /\ held \in [Threads -> [read : BOOLEAN, file : [Keys -> Values]]]
    /\ file \in [Keys -> Values]
    /\ \A w \in Threads : held[w].read => todo[w] # <<>>
    /\ \A w \in Writers : todo[w] \in Seq(PageChange)
    /\ \A l \in Logins : todo[l] \in {<<>>, <<TokenChange>>}

Saved == overlapped \/ file["token"] = Granted
TokenInv ==
    /\ status["snowflake"] = "ready" => Saved
    /\ \A l \in Logins : flow[l].pc = "saving" => flow[l].of = "snowflake"
    /\ \A l \in Logins : flow[l].pc = "saving" /\ todo[l] = <<>> => Saved

SettingsInv == EnvInv /\ SignInInv /\ ThreadInv /\ TokenInv

LEMMA EnvStep ==
  ASSUME EnvInv, [SettingsNext]_settingsVars
  PROVE  EnvInv'
  <1> USE DEF EnvInv, EnvScoped
  <1>1. CASE UNCHANGED inFlightVars
    BY <1>1 DEF inFlightVars
  <1>2. CASE RunStarts
    <2>1. DOMAIN Load = Keys /\ Load = [k \in Keys |-> Load[k]]
      BY DEF Load
    <2>2. env' = Load /\ loaded' = Load /\ run'.pc \in {"idle", "scheduled"} /\ run'.days = Absent
      BY <1>2 DEF RunStarts, NoRun
    <2> QED
      BY <2>1, <2>2
  <1>3. ASSUME NEW days, RunEnters(days) PROVE EnvInv'
    BY <1>3 DEF RunEnters, Keys
  <1>4. ASSUME NEW source, ScopeBegins(source) PROVE EnvInv'
    BY <1>4 DEF ScopeBegins, Keys
  <1>5. CASE ScopeEnds
    BY <1>5 DEF ScopeEnds, Restored, Keys
  <1>6. CASE RunEnds
    BY <1>6 DEF RunEnds, NoRun, Keys
  <1>7. CASE RestartServer
    BY <1>7, SettingsAssumption DEF RestartServer, NoRun
  <1> QED
    BY <1>1, <1>2, <1>3, <1>4, <1>5, <1>6, <1>7
    DEF SettingsNext, Write, SignIn, PutBegins, WriterReads, WriterReplaces, FlowTimesOut, FlowFails,
      GoogleReady, FlowGranted, FlowReady, FlowUnsaved, Login, Reset, settingsVars

LEMMA OverSettles ==
  ASSUME SignInInv, NEW l \in Logins, flow[l].pc \in {"listening", "saving"}, NEW s, Over(l, s),
         s \in {"idle", "ready", "error"}
  PROVE  SignInInv'
  <1> DEFINE p == flow[l].of
  <1>1. p \in Providers /\ flow[l] \in [of : Providers, pc : {"unused", "listening", "saving", "over"}]
    BY DEF SignInInv
  <1>2. /\ flow' = [flow EXCEPT ![l].pc = "over"] /\ status' = [status EXCEPT ![p] = s]
    BY DEF Over
  <1>3. /\ flow' \in [Logins -> [of : Providers, pc : {"unused", "listening", "saving", "over"}]]
        /\ status' \in [Providers -> {"idle", "pending", "ready", "error"}]
    BY <1>1, <1>2 DEF SignInInv
  <1>4. /\ \A k \in Logins \ {l} : flow'[k] = flow[k]
        /\ flow'[l].pc = "over" /\ flow'[l].of = p
    BY <1>1, <1>2 DEF SignInInv
  <1>5. \A q \in Providers : Signing(q)' = Signing(q) \ {l}
    BY <1>4 DEF Signing
  <1>6. l \in Signing(p) /\ \A q \in Providers \ {p} : l \notin Signing(q)
    BY <1>1 DEF Signing
  <1>7. status'[p] # "pending" /\ \A q \in Providers \ {p} : status'[q] = status[q]
    BY <1>1, <1>2 DEF SignInInv
  <1> HIDE DEF p
  <1>8. \A q \in Providers : /\ \A i, k \in Signing(q) : i = k
                             /\ status[q] = "pending" <=> Signing(q) # {}
    BY DEF SignInInv
  <1>9. ASSUME NEW q \in Providers
        PROVE  /\ \A i, k \in Signing(q)' : i = k
               /\ status'[q] = "pending" <=> Signing(q)' # {}
    BY <1>5, <1>6, <1>7, <1>8, <1>9
  <1> QED
    BY <1>3, <1>9 DEF SignInInv

LEMMA SignInStep ==
  ASSUME SignInInv, [SettingsNext]_settingsVars
  PROVE  SignInInv'
  <1>1. CASE UNCHANGED <<flow, status>>
    BY <1>1 DEF SignInInv, Signing
  <1>2. ASSUME NEW l \in Logins, NEW p \in Providers, Login(l, p) PROVE SignInInv'
    <2>1. /\ flow[l].pc = "unused" /\ status[p] # "pending"
          /\ flow' = [flow EXCEPT ![l] = [of |-> p, pc |-> "listening"]]
          /\ status' = [status EXCEPT ![p] = "pending"]
      BY <1>2 DEF Login, LoginAllowed
    <2>2. /\ flow' \in [Logins -> [of : Providers, pc : {"unused", "listening", "saving", "over"}]]
          /\ status' \in [Providers -> {"idle", "pending", "ready", "error"}]
      BY <2>1 DEF SignInInv
    <2>3. /\ \A k \in Logins \ {l} : flow'[k] = flow[k]
          /\ flow'[l].pc = "listening" /\ flow'[l].of = p
      BY <2>1 DEF SignInInv
    <2>4. Signing(p) = {} /\ Signing(p)' = {l}
      BY <2>1, <2>3 DEF SignInInv, Signing
    <2>5. \A q \in Providers \ {p} : Signing(q)' = Signing(q) /\ status'[q] = status[q]
      BY <2>1, <2>3 DEF Signing, SignInInv
    <2>6. status'[p] = "pending"
      BY <2>1 DEF SignInInv
    <2>7. \A q \in Providers : /\ \A i, k \in Signing(q) : i = k
                               /\ status[q] = "pending" <=> Signing(q) # {}
      BY DEF SignInInv
    <2>8. ASSUME NEW q \in Providers
          PROVE  /\ \A i, k \in Signing(q)' : i = k
                 /\ status'[q] = "pending" <=> Signing(q)' # {}
      BY <2>4, <2>5, <2>6, <2>7, <2>8
    <2> QED
      BY <2>2, <2>8 DEF SignInInv
  <1>3. ASSUME NEW l \in Logins, SignIn(l) PROVE SignInInv'
    <2>1. CASE FlowTimesOut(l)
      BY <2>1, OverSettles DEF FlowTimesOut, Failed
    <2>2. CASE FlowFails(l)
      BY <2>2, OverSettles DEF FlowFails, Failed
    <2>3. CASE GoogleReady(l)
      BY <2>3, OverSettles DEF GoogleReady
    <2>4. CASE FlowGranted(l)
      <3>1. /\ flow[l] = [of |-> "snowflake", pc |-> "listening"] /\ status' = status
            /\ flow' = [flow EXCEPT ![l].pc = "saving"]
        BY <2>4 DEF FlowGranted
      <3>2. flow' \in [Logins -> [of : Providers, pc : {"unused", "listening", "saving", "over"}]]
        BY <3>1 DEF SignInInv
      <3>3. /\ \A k \in Logins \ {l} : flow'[k] = flow[k]
            /\ flow'[l].pc = "saving" /\ flow'[l].of = flow[l].of
        BY <3>1 DEF SignInInv
      <3>4. \A q \in Providers : Signing(q)' = Signing(q)
        BY <3>1, <3>3 DEF Signing
      <3> QED
        BY <3>1, <3>2, <3>4 DEF SignInInv
    <2>5. CASE FlowReady(l)
      BY <2>5, OverSettles DEF FlowReady, TokenSaved
    <2>6. CASE FlowUnsaved(l)
      BY <2>6, OverSettles DEF FlowUnsaved, Failed
    <2> QED
      BY <1>3, <2>1, <2>2, <2>3, <2>4, <2>5, <2>6 DEF SignIn
  <1>4. ASSUME NEW p \in Providers, Reset(p) PROVE SignInInv'
    <2>1. /\ status[p] # "pending" /\ status' = [status EXCEPT ![p] = "idle"] /\ flow' = flow
      BY <1>4 DEF Reset
    <2>2. \A q \in Providers : Signing(q)' = Signing(q) /\ (status'[q] = "pending" <=> status[q] = "pending")
      BY <2>1 DEF Signing, SignInInv
    <2> QED
      BY <2>1, <2>2 DEF SignInInv
  <1>5. CASE RestartServer
    <2>1. /\ \A l \in Logins : flow'[l].pc \notin {"listening", "saving"}
          /\ \A q \in Providers : status'[q] = "idle"
          /\ flow' \in [Logins -> [of : Providers, pc : {"unused", "listening", "saving", "over"}]]
          /\ status' \in [Providers -> {"idle", "pending", "ready", "error"}]
      BY <1>5 DEF RestartServer, SignInInv
    <2>2. \A q \in Providers : Signing(q)' = {}
      BY <2>1 DEF Signing
    <2> QED
      BY <2>1, <2>2 DEF SignInInv
  <1> QED
    BY <1>1, <1>2, <1>3, <1>4, <1>5
    DEF SettingsNext, Write, PutBegins, WriterReads, WriterReplaces, RunStarts, ScopeEnds, RunEnds,
      RunEnters, ScopeBegins, settingsVars, flowVars

\* Replacing the file keeps the token, or notes that the copy was outdated.
LEMMA ReplaceKeeps ==
  ASSUME ThreadInv, NEW w \in Threads, held[w].read, Replace(w)
  PROVE  /\ ThreadInv' /\ (Saved => Saved') /\ (w \in Logins => Saved')
         /\ \A l \in Logins \ {w} : todo'[l] = todo[l]
  <1> DEFINE change == Head(todo[w])
             base == held[w].file
  <1>1. /\ todo[w] \in Seq(PageChange \cup {TokenChange}) /\ todo[w] # <<>>
        /\ base \in [Keys -> Values]
        /\ (w \in Writers => todo[w] \in Seq(PageChange))
        /\ (w \in Logins => todo[w] = <<TokenChange>>)
    BY DEF ThreadInv
  <1>2. change \in PageChange \cup {TokenChange} /\ Tail(todo[w]) \in Seq(PageChange \cup {TokenChange})
    BY <1>1, HeadTailProperties
  <1>3. /\ (w \in Writers => change \in PageChange /\ Tail(todo[w]) \in Seq(PageChange))
        /\ (w \in Logins => change = TokenChange /\ Tail(todo[w]) = <<>>)
    <2>1. Head(<<TokenChange>>) = TokenChange /\ Tail(<<TokenChange>>) = <<>>
      OBVIOUS
    <2>2. CASE w \in Writers
      <3>1. Head(todo[w]) \in PageChange /\ Tail(todo[w]) \in Seq(PageChange)
        BY <1>1, <2>2, HeadTailProperties
      <3> QED
        BY <1>1, <2>1, <3>1
    <2>3. CASE w \notin Writers
      BY <1>1, <2>1, <2>3
    <2> QED
      BY <2>2, <2>3
  <1>4. /\ file' = [base EXCEPT ![change.key] = change.value]
        /\ overlapped' = (overlapped \/ base # file)
        /\ todo' = [todo EXCEPT ![w] = Tail(@)] /\ held' = [held EXCEPT ![w] = NoCopy]
    BY DEF Replace
  <1> HIDE DEF change, base
  <1>5. Absent \in Values /\ Granted \in Values
    BY DEF Values
  <1>6. change.key \in Keys /\ change.value \in Values
    BY <1>2, <1>5 DEF PageChange, TokenChange, Keys
  <1>7. file' \in [Keys -> Values]
    BY <1>1, <1>4, <1>6
  <1>8. /\ todo' \in [Threads -> Seq(PageChange \cup {TokenChange})] /\ todo'[w] = Tail(todo[w])
        /\ \A x \in Threads \ {w} : todo'[x] = todo[x]
    BY <1>2, <1>4 DEF ThreadInv
  <1>9. NoCopy \in [read : BOOLEAN, file : [Keys -> Values]] /\ NoCopy.read = FALSE
    BY <1>5 DEF NoCopy
  <1>10. /\ held' \in [Threads -> [read : BOOLEAN, file : [Keys -> Values]]] /\ held'[w] = NoCopy
         /\ \A x \in Threads \ {w} : held'[x] = held[x]
    BY <1>4, <1>9 DEF ThreadInv
  <1>11. \A x \in Threads : held'[x].read => todo'[x] # <<>>
    BY <1>8, <1>9, <1>10 DEF ThreadInv
  <1>12. /\ \A x \in Writers : todo'[x] \in Seq(PageChange)
         /\ \A l \in Logins : todo'[l] \in {<<>>, <<TokenChange>>}
    BY <1>3, <1>8 DEF ThreadInv, Threads
  <1>13. ThreadInv'
    BY <1>7, <1>8, <1>10, <1>11, <1>12 DEF ThreadInv
  <1>14. CASE w \in Logins
    <2>1. file'["token"] = Granted
      BY <1>1, <1>3, <1>4, <1>14 DEF TokenChange, Keys
    <2> QED
      BY <1>8, <1>13, <2>1 DEF Saved, Threads
  <1>15. CASE w \in Writers
    <2>1. file'["token"] = base["token"]
      BY <1>1, <1>3, <1>4, <1>15 DEF PageChange, Keys
    <2>2. Saved => Saved'
      BY <1>4, <2>1 DEF Saved
    <2> QED
      BY <1>8, <1>13, <1>15, <2>2, SettingsAssumption DEF Threads
  <1> QED
    BY <1>14, <1>15 DEF Threads

LEMMA FileStep ==
  ASSUME SignInInv, ThreadInv, TokenInv, [SettingsNext]_settingsVars
  PROVE  ThreadInv' /\ TokenInv'
  <1> DEFINE Inv2 == ThreadInv /\ TokenInv
  <1>1. ASSUME UNCHANGED <<fileVars, flow>>,
               status'["snowflake"] = "ready" => status["snowflake"] = "ready"
        PROVE  Inv2'
    BY <1>1 DEF fileVars, ThreadInv, TokenInv, Saved
  <1>2. ASSUME NEW w \in Writers, NEW save \in Saves, PutBegins(w, save) PROVE Inv2'
    <2>1. /\ todo' = [todo EXCEPT ![w] = save] /\ todo[w] = <<>> /\ w \in Threads
          /\ UNCHANGED <<file, held, overlapped, flow, status>>
          /\ save \in Seq(PageChange) /\ w \notin Logins
      BY <1>2, SettingsAssumption DEF PutBegins, PageChange, Threads, flowVars
    <2>2. save \in Seq(PageChange \cup {TokenChange})
      BY <2>1, SeqMonotonic
    <2>3. ThreadInv'
      BY <2>1, <2>2 DEF ThreadInv, Threads
    <2>4. \A l \in Logins : todo'[l] = todo[l]
      BY <2>1 DEF ThreadInv, Threads
    <2> QED
      BY <2>1, <2>3, <2>4 DEF TokenInv, Saved
  <1>3. ASSUME NEW w \in Threads, WriterReads(w) PROVE Inv2'
    <2>1. /\ held' = [held EXCEPT ![w] = [read |-> TRUE, file |-> file]] /\ todo[w] # <<>>
          /\ UNCHANGED <<file, todo, overlapped, flow, status>>
      BY <1>3 DEF WriterReads, flowVars
    <2> QED
      BY <2>1 DEF ThreadInv, TokenInv, Saved
  <1>4. ASSUME NEW w \in Threads, WriterReplaces(w) PROVE Inv2'
    <2>1. /\ ThreadInv' /\ (Saved => Saved') /\ (w \in Logins => Saved')
          /\ \A l \in Logins \ {w} : todo'[l] = todo[l]
      BY <1>4, ReplaceKeeps DEF WriterReplaces
    <2>2. UNCHANGED <<flow, status>>
      BY <1>4 DEF WriterReplaces, flowVars
    <2> QED
      BY <2>1, <2>2 DEF TokenInv
  <1>5. ASSUME NEW l \in Logins, FlowGranted(l) PROVE Inv2'
    <2>1. /\ flow[l].of = "snowflake" /\ flow' = [flow EXCEPT ![l].pc = "saving"]
          /\ todo' = [todo EXCEPT ![l] = <<TokenChange>>] /\ l \in Threads /\ l \notin Writers
          /\ UNCHANGED <<file, held, overlapped, status>>
      BY <1>5, SettingsAssumption DEF FlowGranted, TokenChange, Threads
    <2>2. <<TokenChange>> \in Seq(PageChange \cup {TokenChange}) /\ <<TokenChange>> # <<>>
      OBVIOUS
    <2>3. todo'[l] = <<TokenChange>> /\ \A x \in Threads \ {l} : todo'[x] = todo[x]
      BY <2>1 DEF ThreadInv
    <2>4. todo' \in [Threads -> Seq(PageChange \cup {TokenChange})]
      BY <2>1, <2>2 DEF ThreadInv
    <2>5. ThreadInv'
      BY <2>1, <2>2, <2>3, <2>4 DEF ThreadInv, Threads
    <2>6. /\ flow'[l].of = "snowflake" /\ \A x \in Logins \ {l} : flow'[x] = flow[x]
      BY <2>1 DEF SignInInv
    <2> QED
      BY <2>1, <2>2, <2>3, <2>5, <2>6 DEF TokenInv, Saved, Threads
  <1>6. ASSUME NEW l \in Logins, FlowUnsaved(l) PROVE Inv2'
    <2>1. /\ flow' = [flow EXCEPT ![l].pc = "over"] /\ l \in Threads
          /\ status' = [status EXCEPT ![flow[l].of] = "error"]
          /\ todo' = [todo EXCEPT ![l] = <<>>] /\ held' = [held EXCEPT ![l] = NoCopy]
          /\ UNCHANGED <<file, overlapped>>
      BY <1>6 DEF FlowUnsaved, Over, Failed, Threads
    <2>2. <<>> \in Seq(PageChange \cup {TokenChange}) /\ <<>> \in Seq(PageChange)
      OBVIOUS
    <2>3. NoCopy \in [read : BOOLEAN, file : [Keys -> Values]] /\ NoCopy.read = FALSE
      BY DEF NoCopy, Values
    <2>4. /\ todo' \in [Threads -> Seq(PageChange \cup {TokenChange})]
          /\ held' \in [Threads -> [read : BOOLEAN, file : [Keys -> Values]]]
          /\ todo'[l] = <<>> /\ \A x \in Threads \ {l} : todo'[x] = todo[x]
          /\ held'[l] = NoCopy /\ \A x \in Threads \ {l} : held'[x] = held[x]
      BY <2>1, <2>2, <2>3 DEF ThreadInv
    <2>5. ThreadInv'
      BY <2>1, <2>2, <2>3, <2>4 DEF ThreadInv, Threads
    <2>6. /\ flow'[l].pc = "over" /\ \A x \in Logins \ {l} : flow'[x] = flow[x]
          /\ status'["snowflake"] = "ready" => status["snowflake"] = "ready"
      BY <2>1 DEF SignInInv
    <2> QED
      BY <2>1, <2>4, <2>5, <2>6 DEF TokenInv, Saved, Threads
  <1>7. ASSUME NEW l \in Logins, FlowTimesOut(l) \/ FlowFails(l) \/ GoogleReady(l) \/ FlowReady(l)
        PROVE  Inv2'
    <2>1. /\ flow' = [flow EXCEPT ![l].pc = "over"] /\ UNCHANGED fileVars
          /\ \/ status' = [status EXCEPT ![flow[l].of] = "error"]
             \/ flow[l].of = "gcp" /\ status' = [status EXCEPT !["gcp"] = "ready"]
             \/ flow[l].pc = "saving" /\ todo[l] = <<>>
      BY <1>7 DEF FlowTimesOut, FlowFails, GoogleReady, FlowReady, Over, Failed, TokenSaved
    <2>2. /\ flow'[l].pc = "over" /\ \A x \in Logins \ {l} : flow'[x] = flow[x]
      BY <2>1 DEF SignInInv
    <2>3. (status'["snowflake"] = "ready" => status["snowflake"] = "ready") \/ Saved
      <3>1. status \in [Providers -> {"idle", "pending", "ready", "error"}] /\ flow[l].of \in Providers
        BY DEF SignInInv
      <3>2. flow[l].pc = "saving" /\ todo[l] = <<>> => Saved
        BY DEF TokenInv
      <3>3. CASE status' = [status EXCEPT ![flow[l].of] = "error"]
        BY <3>1, <3>3
      <3>4. CASE status' = [status EXCEPT !["gcp"] = "ready"]
        BY <3>1, <3>4
      <3> QED
        BY <2>1, <3>2, <3>3, <3>4
    <2> QED
      BY <2>1, <2>2, <2>3 DEF fileVars, ThreadInv, TokenInv, Saved
  <1>8. ASSUME NEW l \in Logins, NEW p \in Providers, Login(l, p) PROVE Inv2'
    <2>1. /\ flow' = [flow EXCEPT ![l] = [of |-> p, pc |-> "listening"]] /\ UNCHANGED fileVars
          /\ status' = [status EXCEPT ![p] = "pending"]
      BY <1>8 DEF Login
    <2>2. /\ flow'[l].pc = "listening" /\ \A x \in Logins \ {l} : flow'[x] = flow[x]
          /\ status'["snowflake"] = "ready" => status["snowflake"] = "ready"
      BY <2>1 DEF SignInInv
    <2> QED
      BY <2>1, <2>2 DEF fileVars, ThreadInv, TokenInv, Saved
  <1>9. ASSUME NEW p \in Providers, Reset(p) PROVE Inv2'
    <2>1. UNCHANGED <<fileVars, flow>> /\ status' = [status EXCEPT ![p] = "idle"]
      BY <1>9 DEF Reset
    <2> QED
      BY <1>1, <2>1 DEF SignInInv
  <1>10. CASE RestartServer
    <2>1. /\ todo' = [w \in Threads |-> <<>>] /\ held' = [w \in Threads |-> NoCopy]
          /\ UNCHANGED <<file, overlapped>> /\ status'["snowflake"] = "idle"
          /\ \A l \in Logins : flow'[l].pc \in {"unused", "over"}
      BY <1>10 DEF RestartServer, SignInInv, Providers
    <2>2. <<>> \in Seq(PageChange \cup {TokenChange}) /\ <<>> \in Seq(PageChange)
      OBVIOUS
    <2>3. NoCopy \in [read : BOOLEAN, file : [Keys -> Values]] /\ NoCopy.read = FALSE
      BY DEF NoCopy, Values
    <2> QED
      BY <2>1, <2>2, <2>3 DEF ThreadInv, TokenInv, Threads
  <1>11. CASE UNCHANGED <<fileVars, flowVars>>
    BY <1>1, <1>11 DEF flowVars
  <1> QED
    BY <1>2, <1>3, <1>4, <1>5, <1>6, <1>7, <1>8, <1>9, <1>10, <1>11
    DEF SettingsNext, Write, SignIn, RunStarts, ScopeEnds, RunEnds, RunEnters, ScopeBegins,
      settingsVars

\* What the server shows of its settings is so, for any number of threads that save
\* and sign in, saves, runs and restarts, in any order of their reads and writes of
\* the file (write_config, start_login, load_config, JobRunner._run).
THEOREM SettingsAreTrue == SettingsSpec => []SettingsTrue
  <1>1. SettingsInit => SettingsInv
    <2> SUFFICES ASSUME SettingsInit PROVE SettingsInv
      OBVIOUS
    <2>1. EnvInv
      BY SettingsAssumption DEF SettingsInit, EnvInv, EnvScoped, NoRun
    <2>2. SignInInv
      BY DEF SettingsInit, SignInInv, Signing, Providers
    <2>3. <<>> \in Seq(PageChange \cup {TokenChange}) /\ <<>> \in Seq(PageChange)
      OBVIOUS
    <2>4. NoCopy \in [read : BOOLEAN, file : [Keys -> Values]] /\ NoCopy.read = FALSE
      BY DEF NoCopy, Values
    <2>5. file \in [Keys -> Values]
      BY DEF SettingsInit, Values
    <2>6. ThreadInv
      BY <2>3, <2>4, <2>5 DEF SettingsInit, ThreadInv, Threads
    <2>7. TokenInv
      BY DEF SettingsInit, TokenInv, Providers
    <2> QED
      BY <2>1, <2>2, <2>6, <2>7 DEF SettingsInv
  <1>2. SettingsInv /\ [SettingsNext]_settingsVars => SettingsInv'
    BY EnvStep, SignInStep, FileStep DEF SettingsInv
  <1>3. SettingsInv => SettingsTrue
    <2> SUFFICES ASSUME SettingsInv PROVE SettingsTrue
      OBVIOUS
    <2>1. ReadyMeansSaved
      BY DEF SettingsInv, TokenInv, Saved, ReadyMeansSaved
    <2>2. ASSUME NEW p \in Providers
          PROVE  Cardinality(Signing(p)) <= 1 /\ (status[p] = "pending" <=> Signing(p) # {})
      <3>1. \A l, k \in Signing(p) : l = k
        BY DEF SettingsInv, SignInInv
      <3>2. CASE Signing(p) = {}
        BY <3>2, FS_EmptySet DEF SettingsInv, SignInInv
      <3>3. ASSUME NEW l \in Signing(p) PROVE Cardinality(Signing(p)) = 1
        <4>1. Signing(p) = {l}
          BY <3>1, <3>3
        <4> QED
          BY <4>1, FS_Singleton
      <3> QED
        BY <3>2, <3>3 DEF SettingsInv, SignInInv
    <2>3. OneSignIn
      BY <2>2 DEF OneSignIn, Signing
    <2> QED
      BY <2>1, <2>3 DEF SettingsInv, EnvInv, SettingsTrue
  <1> QED
    BY <1>1, <1>2, <1>3, PTL DEF SettingsSpec

------------------------------------------------------------------------------
(***************************************************************************)
(* Sequences of events, as a set and in order.                             *)
(***************************************************************************)
Before(s, i) == {s[j] : j \in 1..(i - 1)}

\* Whoever has had the events of known can be sent s and never skips one.
Gapless(s, known) == \A i \in 1..Len(s) : 1..(s[i] - 1) \subseteq known \cup Before(s, i)

LEMMA ToSetOfAppend ==
  ASSUME NEW S, NEW s \in Seq(S), NEW x \in S
  PROVE  ToSet(Append(s, x)) = ToSet(s) \cup {x}
  <1>1. /\ Len(Append(s, x)) = Len(s) + 1 /\ Len(s) \in Nat
        /\ \A i \in 1..Len(s) : Append(s, x)[i] = s[i]
        /\ Append(s, x)[Len(s) + 1] = x
    OBVIOUS
  <1>2. DOMAIN Append(s, x) = 1..(Len(s) + 1) /\ DOMAIN s = 1..Len(s)
    BY <1>1
  <1> QED
    BY <1>1, <1>2 DEF ToSet

LEMMA ToSetOfTail ==
  ASSUME NEW S, NEW s \in Seq(S), s # <<>>
  PROVE  ToSet(s) = {Head(s)} \cup ToSet(Tail(s)) /\ Head(s) \in S /\ Tail(s) \in Seq(S)
  <1>1. /\ Len(Tail(s)) = Len(s) - 1 /\ Len(s) \in Nat /\ Len(s) >= 1
        /\ Head(s) = s[1] /\ Tail(s) \in Seq(S) /\ Head(s) \in S
        /\ \A i \in 1..(Len(s) - 1) : Tail(s)[i] = s[i + 1]
    BY HeadTailProperties, LenProperties
  <1>2. DOMAIN s = 1..Len(s) /\ DOMAIN Tail(s) = 1..(Len(s) - 1)
    BY <1>1, LenProperties
  <1>3. ASSUME NEW x \in ToSet(s) PROVE x \in {Head(s)} \cup ToSet(Tail(s))
    <2>1. PICK i \in 1..Len(s) : x = s[i]
      BY <1>2, <1>3 DEF ToSet
    <2>2. CASE i # 1
      <3>1. i - 1 \in 1..(Len(s) - 1) /\ Tail(s)[i - 1] = s[i]
        BY <1>1, <2>2
      <3> QED
        BY <1>2, <2>1, <3>1 DEF ToSet
    <2> QED
      BY <1>1, <2>1, <2>2
  <1>4. ASSUME NEW x \in {Head(s)} \cup ToSet(Tail(s)) PROVE x \in ToSet(s)
    BY <1>1, <1>2, <1>4 DEF ToSet
  <1> QED
    BY <1>1, <1>3, <1>4

LEMMA ToSetOfConcat ==
  ASSUME NEW S, NEW s \in Seq(S), NEW t \in Seq(S)
  PROVE  ToSet(s \o t) = ToSet(s) \cup ToSet(t)
  <1>1. /\ s \o t \in Seq(S) /\ Len(s \o t) = Len(s) + Len(t) /\ Len(s) \in Nat /\ Len(t) \in Nat
        /\ \A i \in 1..(Len(s) + Len(t)) :
             (s \o t)[i] = IF i <= Len(s) THEN s[i] ELSE t[i - Len(s)]
    BY ConcatProperties, LenProperties
  <1>2. /\ DOMAIN s = 1..Len(s) /\ DOMAIN t = 1..Len(t)
        /\ DOMAIN (s \o t) = 1..(Len(s) + Len(t))
    BY <1>1, LenProperties
  <1>3. ASSUME NEW x \in ToSet(t) PROVE x \in ToSet(s \o t)
    <2>1. PICK i \in 1..Len(t) : x = t[i]
      BY <1>2, <1>3 DEF ToSet
    <2>2. Len(s) + i \in 1..(Len(s) + Len(t)) /\ (s \o t)[Len(s) + i] = t[i]
      BY <1>1, <2>1
    <2> QED
      BY <1>2, <2>1, <2>2 DEF ToSet
  <1>4. ASSUME NEW x \in ToSet(s) PROVE x \in ToSet(s \o t)
    BY <1>1, <1>2, <1>4 DEF ToSet
  <1>5. ASSUME NEW x \in ToSet(s \o t) PROVE x \in ToSet(s) \cup ToSet(t)
    <2>1. PICK i \in 1..(Len(s) + Len(t)) : x = (s \o t)[i]
      BY <1>2, <1>5 DEF ToSet
    <2>2. CASE i <= Len(s)
      BY <1>1, <1>2, <2>1, <2>2 DEF ToSet
    <2>3. CASE i > Len(s)
      <3>1. i - Len(s) \in 1..Len(t)
        BY <1>1, <2>1, <2>3
      <3> QED
        BY <1>1, <1>2, <2>1, <2>3, <3>1 DEF ToSet
    <2> QED
      BY <1>1, <2>1, <2>2, <2>3
  <1> QED
    BY <1>3, <1>4, <1>5

LEMMA GaplessHead ==
  ASSUME NEW S, NEW s \in Seq(S), s # <<>>, NEW known, Gapless(s, known)
  PROVE  1..(Head(s) - 1) \subseteq known /\ Gapless(Tail(s), known \cup {Head(s)})
  <1>1. /\ Len(Tail(s)) = Len(s) - 1 /\ Len(s) \in Nat /\ Len(s) >= 1
        /\ Head(s) = s[1] /\ \A i \in 1..(Len(s) - 1) : Tail(s)[i] = s[i + 1]
    BY HeadTailProperties, LenProperties
  <1>2. 1..(s[1] - 1) \subseteq known
    BY <1>1 DEF Gapless, Before
  <1>3. ASSUME NEW i \in 1..Len(Tail(s))
        PROVE  1..(Tail(s)[i] - 1) \subseteq known \cup {Head(s)} \cup Before(Tail(s), i)
    <2>1. i + 1 \in 1..Len(s) /\ Tail(s)[i] = s[i + 1]
      BY <1>1, <1>3
    <2>2. Before(s, i + 1) \subseteq {Head(s)} \cup Before(Tail(s), i)
      <3>1. ASSUME NEW j \in 1..i PROVE s[j] \in {Head(s)} \cup Before(Tail(s), i)
        <4>1. CASE j # 1
          <5>1. j - 1 \in 1..(i - 1) /\ Tail(s)[j - 1] = s[j]
            BY <1>1, <1>3, <4>1
          <5> QED
            BY <5>1 DEF Before
        <4> QED
          BY <1>1, <4>1
      <3>2. (i + 1) - 1 = i
        BY <1>1, <1>3
      <3> QED
        BY <3>1, <3>2 DEF Before
    <2> QED
      BY <2>1, <2>2 DEF Gapless
  <1> QED
    BY <1>1, <1>2, <1>3 DEF Gapless

LEMMA GaplessAppend ==
  ASSUME NEW S, NEW s \in Seq(S), NEW x \in S, NEW known, Gapless(s, known),
         1..(x - 1) \subseteq known \cup ToSet(s)
  PROVE  Gapless(Append(s, x), known)
  <1>1. /\ Len(Append(s, x)) = Len(s) + 1 /\ Len(s) \in Nat
        /\ \A i \in 1..Len(s) : Append(s, x)[i] = s[i]
        /\ Append(s, x)[Len(s) + 1] = x
    OBVIOUS
  <1>2. DOMAIN s = 1..Len(s)
    BY LenProperties
  <1>3. ASSUME NEW i \in 1..(Len(s) + 1) PROVE Before(Append(s, x), i) = Before(s, i)
    BY <1>1, <1>3 DEF Before
  <1>4. Before(s, Len(s) + 1) = ToSet(s)
    <2>1. (Len(s) + 1) - 1 = Len(s)
      BY <1>1
    <2> QED
      BY <1>2, <2>1 DEF Before, ToSet
  <1>5. ASSUME NEW i \in 1..(Len(s) + 1)
        PROVE  1..(Append(s, x)[i] - 1) \subseteq known \cup Before(Append(s, x), i)
    <2>1. CASE i = Len(s) + 1
      BY <1>1, <1>3, <1>4, <2>1
    <2>2. CASE i \in 1..Len(s)
      BY <1>1, <1>3, <2>2 DEF Gapless
    <2> QED
      BY <1>1, <1>5, <2>1, <2>2
  <1> QED
    BY <1>1, <1>5 DEF Gapless

(***************************************************************************)
(* The log.                                                                *)
(***************************************************************************)
Kept == IF published <= LogCap THEN published ELSE LogCap
Markers == IF published > LogCap THEN 1 ELSE 0

LogInv ==
    /\ published \in 0..NumEvents
    /\ log \in Seq(Events) /\ Len(log) = Kept + Markers
    /\ \A i \in 1..Kept : log[i] = i
    /\ Markers = 1 => log[Kept + 1] = Lost

\* A stream and the queue it is fed from.
StreamType ==
    /\ subs \in SUBSET Conns
    /\ pc \in [Conns -> {"none", "subscribed", "replaying", "live", "closed", "leaked"}]
    /\ queue \in [Conns -> Seq(Events)] /\ pend \in [Conns -> Seq(Events)]
    /\ sent \in [Conns -> Seq(Events)]

Open(c) == pc[c] \in {"subscribed", "replaying", "live"}

Fed(c) ==
    /\ Len(queue[c]) <= QueueCap
    /\ \A i \in 1..Len(queue[c]) : queue[c][i] <= published
    /\ Open(c) => c \in subs
    /\ pc[c] \in {"none", "subscribed"} => sent[c] = <<>> /\ pend[c] = <<>>
    /\ pc[c] = "live" => pend[c] = <<>>

\* A stream that has met no marker and no full queue has, or will get, every event,
\* and each after those before it.
Follows(c) ==
    pc[c] \in {"replaying", "live"} /\ ~dropped[c] /\ Lost \notin ToSet(sent[c]) \cup ToSet(pend[c]) =>
        /\ 1..published \subseteq ToSet(sent[c]) \cup ToSet(pend[c]) \cup ToSet(queue[c])
        /\ \E k \in 0..NumEvents : ToSet(sent[c]) = 1..k
        /\ Gapless(pend[c], ToSet(sent[c]))
        /\ Gapless(queue[c], ToSet(sent[c]) \cup ToSet(pend[c]))

StreamInv == LogInv /\ StreamType /\ \A c \in Conns : Fed(c) /\ Follows(c)

LEMMA LogStep ==
  ASSUME LogInv, [StreamNext]_streamVars
  PROVE  LogInv'
  <1> USE EventsAssumption DEF LogInv, Kept, Markers
  <1>1. CASE Publish
    <2>1. /\ published' = published + 1 /\ published < NumEvents /\ log' = AppendEvent(published + 1)
          /\ published + 1 \in Events /\ Lost \in Events
      BY <1>1 DEF Publish, Terminal, Events, Lost
    <2>2. CASE published < LogCap
      <3>1. log' = Append(log, published + 1)
        BY <2>1, <2>2 DEF AppendEvent
      <3> QED
        BY <2>1, <2>2, <3>1
    <2>3. CASE published = LogCap
      <3>1. log' = Append(log, Lost)
        BY <2>1, <2>3 DEF AppendEvent
      <3> QED
        BY <2>1, <2>3, <3>1
    <2>4. CASE published > LogCap
      <3>1. log' = log
        BY <2>1, <2>4 DEF AppendEvent
      <3> QED
        BY <2>1, <2>4, <3>1
    <2> QED
      BY <2>2, <2>3, <2>4
  <1>2. CASE UNCHANGED <<published, log>>
    BY <1>2
  <1> QED
    BY <1>1, <1>2 DEF StreamNext, RestartRun, Connect, Disconnect, Stream, Replay, SendReplayed,
      FinishReplayed, GoLive, Forward, Heartbeat, Close, runLogVars, streamVars

LEMMA LogIsRight == LogInv => LogIsPrefix
  <1> SUFFICES ASSUME LogInv PROVE LogIsPrefix
    OBVIOUS
  <1> USE EventsAssumption
  <1> DEFINE head == [i \in 1..Kept |-> i]
             last == IF published > LogCap THEN <<Lost>> ELSE <<>>
  <1>1. Kept \in Nat /\ Kept <= NumEvents
    BY DEF LogInv, Kept
  <1>2. head \in Seq(Events) /\ Len(head) = Kept /\ \A i \in 1..Kept : head[i] = i
    BY <1>1 DEF Events
  <1>3. last \in Seq(Events) /\ Len(last) = Markers /\ (Markers = 1 => last[1] = Lost)
    <2>1. Lost \in Events
      BY DEF Events, Lost
    <2>2. CASE published > LogCap
      BY <2>1, <2>2 DEF Markers
    <2>3. CASE ~(published > LogCap)
      BY <2>3 DEF Markers
    <2> QED
      BY <2>2, <2>3
  <1> HIDE DEF head, last
  <1>4. /\ head \o last \in Seq(Events) /\ Len(head \o last) = Kept + Markers
        /\ \A i \in 1..(Kept + Markers) :
             (head \o last)[i] = IF i <= Kept THEN head[i] ELSE last[i - Kept]
    BY <1>2, <1>3, ConcatProperties
  <1>5. Markers \in {0, 1}
    BY DEF Markers
  <1>6. ASSUME NEW i \in 1..Len(log) PROVE log[i] = (head \o last)[i]
    <2>1. CASE i <= Kept
      BY <1>1, <1>2, <1>4, <1>5, <2>1, <1>6 DEF LogInv
    <2>2. CASE i > Kept
      <3>1. Markers = 1 /\ i = Kept + 1 /\ i - Kept = 1
        BY <1>1, <1>5, <1>6, <2>2 DEF LogInv
      <3> QED
        BY <1>1, <1>3, <1>4, <2>2, <3>1 DEF LogInv
    <2>3. i \in Nat
      BY <1>1, <1>5, <1>6 DEF LogInv
    <2>4. i <= Kept \/ i > Kept
      BY <1>1, <2>3
    <2> QED
      BY <2>1, <2>2, <2>4
  <1>7. log = head \o last
    BY <1>4, <1>6, SeqEqual DEF LogInv
  <1> QED
    BY <1>7 DEF LogIsPrefix, head, last, Kept

(***************************************************************************)
(* The streams.                                                            *)
(***************************************************************************)
\* What a step does to a stream it is not about.
LEMMA OthersKept ==
  ASSUME NEW c \in Conns, Fed(c), Follows(c), published' = published,
         pc'[c] = pc[c], queue'[c] = queue[c], pend'[c] = pend[c], sent'[c] = sent[c],
         dropped'[c] = dropped[c], c \in subs => c \in subs'
  PROVE  Fed(c)' /\ Follows(c)'
  BY DEF Fed, Follows, Open

\* A stream that is not open has nothing to show.
LEMMA NotOpenKept ==
  ASSUME NEW c \in Conns, Fed(c), published' = published, pc'[c] \in {"closed", "leaked"},
         queue'[c] = queue[c] \/ (queue[c] # <<>> /\ queue[c] \in Seq(Events) /\ queue'[c] = Tail(queue[c]))
  PROVE  Fed(c)' /\ Follows(c)'
  <1>1. Follows(c)' /\ ~Open(c)' /\ pc'[c] \notin {"none", "subscribed", "live"}
    BY DEF Follows, Open
  <1>2. CASE queue'[c] = queue[c]
    BY <1>1, <1>2 DEF Fed
  <1>3. CASE queue[c] # <<>> /\ queue[c] \in Seq(Events) /\ queue'[c] = Tail(queue[c])
    <2>1. /\ Len(queue'[c]) = Len(queue[c]) - 1 /\ Len(queue[c]) \in Nat
          /\ \A i \in 1..(Len(queue[c]) - 1) : queue'[c][i] = queue[c][i + 1]
      BY <1>3, HeadTailProperties, LenProperties
    <2> QED
      BY <1>1, <2>1, EventsAssumption DEF Fed
  <1> QED
    BY <1>1, <1>2, <1>3

\* What is sent next extends the events the client has by one at most.
LEMMA NextSent ==
  ASSUME NEW k \in 0..NumEvents, NEW e \in Events, e # Lost, 1..(e - 1) \subseteq 1..k
  PROVE  \E n \in 0..NumEvents : (1..k) \cup {e} = 1..n
  <1>1. e \in 1..NumEvents /\ NumEvents \in Nat
    BY EventsAssumption DEF Events, Lost
  <1>2. e <= k + 1
    <2>1. SUFFICES ASSUME e > k + 1 PROVE FALSE
      BY <1>1
    <2>2. k + 1 \in 1..(e - 1)
      BY <1>1, <2>1
    <2> QED
      BY <1>1, <2>2
  <1>3. CASE e <= k
    <2>1. (1..k) \cup {e} = 1..k
      BY <1>1, <1>3
    <2> QED
      BY <2>1
  <1>4. CASE e = k + 1
    <2>1. (1..k) \cup {e} = 1..(k + 1) /\ k + 1 \in 0..NumEvents
      BY <1>1, <1>4
    <2> QED
      BY <2>1
  <1> QED
    BY <1>1, <1>2, <1>3, <1>4

LEMMA PublishFeeds ==
  ASSUME StreamInv, Publish, NEW c \in Conns
  PROVE  Fed(c)' /\ Follows(c)' /\ queue'[c] \in Seq(Events)
  <1> USE EventsAssumption
  <1> DEFINE e == published + 1
             full == {d \in subs : Len(queue[d]) = QueueCap}
             fanned == Put(queue, subs, e)
             mark == full # {} /\ ~lostEmitted
  <1>1. /\ e \in Events /\ Lost \in Events /\ published \in Nat /\ published' = e
        /\ queue' = IF mark THEN Put(fanned, subs, Lost) ELSE fanned
        /\ dropped'[c] = (dropped[c] \/ c \in full)
        /\ UNCHANGED <<subs, pc, pend, sent>>
    BY DEF Publish, StreamInv, LogInv, Terminal, Events, Lost
  <1>2. Fed(c) /\ Follows(c) /\ queue[c] \in Seq(Events) /\ Len(queue[c]) \in Nat
    BY LenProperties DEF StreamInv, StreamType
  <1>3. fanned[c] = IF c \in subs /\ Len(queue[c]) < QueueCap THEN Append(queue[c], e) ELSE queue[c]
    BY DEF Put
  <1>4. Put(fanned, subs, Lost)[c] = IF c \in subs /\ Len(fanned[c]) < QueueCap
                                     THEN Append(fanned[c], Lost) ELSE fanned[c]
    BY DEF Put
  <1> HIDE DEF fanned, mark
  <1>5. CASE c \notin subs \/ Len(queue[c]) = QueueCap
    <2>1. queue'[c] = queue[c]
      BY <1>1, <1>2, <1>3, <1>4, <1>5
    <2>2. Fed(c)'
      <3>1. \A i \in 1..Len(queue[c]) : queue[c][i] <= e
        BY <1>1, <1>2, ElementOfSeq DEF Fed, Events
      <3> HIDE DEF e
      <3> QED
        BY <1>1, <1>2, <2>1, <3>1 DEF Fed, Open
    <2>3. pc'[c] \notin {"replaying", "live"} \/ dropped'[c]
      BY <1>1, <1>2, <1>5 DEF Fed, Open
    <2> QED
      BY <1>2, <2>1, <2>2, <2>3 DEF Follows
  <1>6. CASE c \in subs /\ Len(queue[c]) < QueueCap
    <2> DEFINE q == Append(queue[c], e)
    <2>1. fanned[c] = q
      BY <1>3, <1>6
    <2>2. /\ q \in Seq(Events) /\ Len(q) = Len(queue[c]) + 1
          /\ \A i \in 1..Len(queue[c]) : q[i] = queue[c][i]
          /\ q[Len(queue[c]) + 1] = e
      BY <1>1, <1>2
    <2>3. ToSet(q) = ToSet(queue[c]) \cup {e}
      BY <1>1, <1>2, ToSetOfAppend
    <2>4. \A i \in 1..Len(q) : q[i] <= e
      BY <1>1, <1>2, <2>2 DEF Fed, Events
    <2> HIDE DEF q, e
    <2>5. ASSUME NEW r \in Seq(Events), queue'[c] = r, Len(r) <= QueueCap,
                 \A i \in 1..Len(r) : r[i] <= e, ToSet(q) \subseteq ToSet(r),
                 \A known : 1..published \subseteq known \cup ToSet(queue[c]) /\ Gapless(queue[c], known)
                              => Gapless(r, known)
          PROVE  Fed(c)' /\ Follows(c)' /\ queue'[c] \in Seq(Events)
      <3>1. Fed(c)'
        BY <1>1, <1>2, <2>5 DEF Fed, Open
      <3>2. ASSUME pc'[c] \in {"replaying", "live"}, ~dropped'[c],
                   Lost \notin ToSet(sent'[c]) \cup ToSet(pend'[c])
            PROVE  /\ 1..published' \subseteq ToSet(sent'[c]) \cup ToSet(pend'[c]) \cup ToSet(queue'[c])
                   /\ \E k \in 0..NumEvents : ToSet(sent'[c]) = 1..k
                   /\ Gapless(pend'[c], ToSet(sent'[c]))
                   /\ Gapless(queue'[c], ToSet(sent'[c]) \cup ToSet(pend'[c]))
        <4> DEFINE known == ToSet(sent[c]) \cup ToSet(pend[c])
        <4>1. /\ 1..published \subseteq known \cup ToSet(queue[c])
              /\ \E k \in 0..NumEvents : ToSet(sent[c]) = 1..k
              /\ Gapless(pend[c], ToSet(sent[c])) /\ Gapless(queue[c], known)
          BY <1>1, <1>2, <3>2 DEF Follows
        <4>2. 1..published' \subseteq (1..published) \cup {e}
          BY <1>1 DEF e
        <4>3. Gapless(r, known)
          BY <2>5, <4>1
        <4> QED
          BY <1>1, <2>3, <2>5, <4>1, <4>2, <4>3
      <3>3. Follows(c)'
        BY <3>2 DEF Follows
      <3> QED
        BY <2>5, <3>1, <3>3
    <2>6. \A known : 1..published \subseteq known \cup ToSet(queue[c]) /\ Gapless(queue[c], known)
                       => Gapless(q, known)
      <3>1. e - 1 = published
        BY <1>1 DEF e
      <3> QED
        BY <1>1, <1>2, <3>1, GaplessAppend DEF q
    <2>7. CASE queue'[c] = q
      BY <1>2, <1>6, <2>2, <2>4, <2>5, <2>6, <2>7
    <2>8. CASE queue'[c] = Append(q, Lost) /\ Len(q) < QueueCap
      <3>1. /\ Append(q, Lost) \in Seq(Events) /\ Len(Append(q, Lost)) = Len(q) + 1
            /\ \A i \in 1..Len(q) : Append(q, Lost)[i] = q[i]
            /\ Append(q, Lost)[Len(q) + 1] = Lost /\ Len(q) \in Nat
        BY <1>1, <2>2, LenProperties
      <3>2. \A i \in 1..Len(Append(q, Lost)) : Append(q, Lost)[i] <= e
        BY <1>1, <2>4, <3>1 DEF Lost, Events
      <3>3. ToSet(q) \subseteq ToSet(Append(q, Lost))
        BY <1>1, <2>2, ToSetOfAppend
      <3>4. \A known : Gapless(q, known) => Gapless(Append(q, Lost), known)
        <4>1. 1..(Lost - 1) = {}
          BY DEF Lost
        <4> QED
          BY <1>1, <2>2, <4>1, GaplessAppend
      <3>5. Len(Append(q, Lost)) <= QueueCap
        BY <2>8, <3>1
      <3> HIDE DEF Put
      <3> QED
        BY <2>5, <2>6, <2>8, <3>1, <3>2, <3>3, <3>4, <3>5
    <2> QED
      BY <1>1, <1>4, <1>6, <2>1, <2>7, <2>8
  <1> QED
    BY <1>2, <1>5, <1>6 DEF Fed

\* One event moves from a queue of the stream to the client.
LEMMA SentGrows ==
  ASSUME NEW c \in Conns, sent[c] \in Seq(Events), NEW e \in Events,
         sent' = [sent EXCEPT ![c] = Append(@, e)], sent \in [Conns -> Seq(Events)]
  PROVE  ToSet(sent'[c]) = ToSet(sent[c]) \cup {e} /\ sent' \in [Conns -> Seq(Events)]
  <1>1. sent'[c] = Append(sent[c], e) /\ Append(sent[c], e) \in Seq(Events)
    OBVIOUS
  <1> QED
    BY <1>1, ToSetOfAppend

LEMMA ReplayFollows ==
  ASSUME StreamInv, NEW c \in Conns, Replay(c)
  PROVE  StreamType' /\ Fed(c)' /\ Follows(c)'
  <1> USE EventsAssumption
  <1>1. /\ pend'[c] = log /\ pc'[c] = "replaying" /\ pc[c] = "subscribed"
        /\ UNCHANGED <<published, subs, queue, sent, dropped>> /\ log \in Seq(Events)
        /\ pend' \in [Conns -> Seq(Events)]
    BY DEF Replay, StreamInv, StreamType, LogInv, runLogVars
  <1>2. StreamType'
    BY <1>1 DEF Replay, StreamInv, StreamType
  <1>3. Fed(c) /\ sent[c] = <<>> /\ queue[c] \in Seq(Events)
    BY <1>1 DEF StreamInv, StreamType, Fed
  <1>4. Fed(c)'
    BY <1>1, <1>3 DEF Fed, Open
  <1>5. ASSUME Lost \notin ToSet(log)
        PROVE  ToSet(log) = 1..published /\ Gapless(log, {})
    <2>1. Len(log) = Kept + Markers /\ DOMAIN log = 1..Len(log) /\ Kept \in Nat
      BY LenProperties DEF StreamInv, LogInv, Kept
    <2>2. Markers # 1
      <3>1. Markers = 1 => Kept + 1 \in DOMAIN log /\ log[Kept + 1] = Lost
        BY <2>1 DEF StreamInv, LogInv
      <3> QED
        BY <1>5, <3>1 DEF ToSet
    <2>3. Kept = published /\ Len(log) = published /\ \A i \in 1..published : log[i] = i
      BY <2>1, <2>2 DEF StreamInv, LogInv, Kept, Markers
    <2>4. ToSet(log) = 1..published
      BY <2>1, <2>3 DEF ToSet
    <2>5. ASSUME NEW i \in 1..Len(log) PROVE 1..(log[i] - 1) \subseteq {} \cup Before(log, i)
      BY <2>3, <2>5 DEF Before, StreamInv, LogInv
    <2> QED
      BY <2>4, <2>5 DEF Gapless
  <1>6. ToSet(sent[c]) = {} /\ {} = 1..0 /\ 0 \in 0..NumEvents
    BY <1>3 DEF ToSet
  <1>7. ASSUME Lost \notin ToSet(log) PROVE Gapless(queue[c], ToSet(log))
    <2>1. ASSUME NEW i \in 1..Len(queue[c])
          PROVE  1..(queue[c][i] - 1) \subseteq ToSet(log) \cup Before(queue[c], i)
      <3>1. queue[c][i] <= published /\ queue[c][i] \in Nat /\ published \in Nat
        BY <1>3, <2>1, ElementOfSeq DEF Fed, Events, StreamInv, LogInv
      <3> QED
        BY <1>5, <1>7, <3>1
    <2> QED
      BY <2>1 DEF Gapless
  <1>8. Follows(c)'
    BY <1>1, <1>5, <1>6, <1>7 DEF Follows
  <1> QED
    BY <1>2, <1>4, <1>8

LEMMA SendReplayedFollows ==
  ASSUME StreamInv, NEW c \in Conns, SendReplayed(c)
  PROVE  StreamType' /\ Fed(c)' /\ Follows(c)'
  <1> DEFINE e == Head(pend[c])
  <1>1. /\ pend[c] \in Seq(Events) /\ pend[c] # <<>> /\ sent[c] \in Seq(Events)
        /\ pc[c] = "replaying" /\ pend'[c] = Tail(pend[c])
        /\ sent' = [sent EXCEPT ![c] = Append(@, e)]
        /\ UNCHANGED <<published, subs, pc, queue, dropped>>
    BY DEF SendReplayed, StreamInv, StreamType, runLogVars
  <1>2. ToSet(pend[c]) = {e} \cup ToSet(pend'[c]) /\ e \in Events /\ pend'[c] \in Seq(Events)
    BY <1>1, ToSetOfTail
  <1> HIDE DEF e
  <1>3. ToSet(sent'[c]) = ToSet(sent[c]) \cup {e} /\ sent' \in [Conns -> Seq(Events)]
    BY <1>1, <1>2, SentGrows DEF StreamInv, StreamType
  <1>4. StreamType'
    BY <1>1, <1>2, <1>3 DEF SendReplayed, StreamInv, StreamType
  <1>5. Fed(c) /\ Follows(c)
    BY DEF StreamInv
  <1>6. Fed(c)'
    BY <1>1, <1>5 DEF Fed, Open
  <1>7. ASSUME ~dropped[c], Lost \notin ToSet(sent'[c]) \cup ToSet(pend'[c])
        PROVE  /\ 1..published \subseteq ToSet(sent'[c]) \cup ToSet(pend'[c]) \cup ToSet(queue[c])
               /\ \E k \in 0..NumEvents : ToSet(sent'[c]) = 1..k
               /\ Gapless(pend'[c], ToSet(sent'[c]))
               /\ Gapless(queue[c], ToSet(sent'[c]) \cup ToSet(pend'[c]))
    <2>1. ToSet(sent'[c]) \cup ToSet(pend'[c]) = ToSet(sent[c]) \cup ToSet(pend[c]) /\ e # Lost
      BY <1>2, <1>3, <1>7
    <2>2. /\ 1..published \subseteq ToSet(sent[c]) \cup ToSet(pend[c]) \cup ToSet(queue[c])
          /\ \E k \in 0..NumEvents : ToSet(sent[c]) = 1..k
          /\ Gapless(pend[c], ToSet(sent[c]))
          /\ Gapless(queue[c], ToSet(sent[c]) \cup ToSet(pend[c]))
      BY <1>1, <1>5, <1>7, <2>1 DEF Follows
    <2>3. 1..(e - 1) \subseteq ToSet(sent[c]) /\ Gapless(pend'[c], ToSet(sent'[c]))
      <3>1. Gapless(pend[c], ToSet(sent[c])) /\ pend[c] \in Seq(Events) /\ pend[c] # <<>>
        BY <1>1, <2>2
      <3>2. /\ 1..(Head(pend[c]) - 1) \subseteq ToSet(sent[c])
            /\ Gapless(Tail(pend[c]), ToSet(sent[c]) \cup {Head(pend[c])})
        BY <3>1, GaplessHead
      <3> QED
        BY <1>1, <1>3, <3>2 DEF e
    <2>4. \E k \in 0..NumEvents : ToSet(sent'[c]) = 1..k
      <3>1. PICK k \in 0..NumEvents : ToSet(sent[c]) = 1..k
        BY <2>2
      <3>2. \E n \in 0..NumEvents : (1..k) \cup {e} = 1..n
        BY <1>2, <2>1, <2>3, <3>1, NextSent
      <3> QED
        BY <1>3, <3>1, <3>2
    <2> QED
      BY <2>1, <2>2, <2>3, <2>4
  <1>8. Follows(c)'
    BY <1>1, <1>7 DEF Follows
  <1> QED
    BY <1>4, <1>6, <1>8

LEMMA ForwardFollows ==
  ASSUME StreamInv, NEW c \in Conns, Forward(c)
  PROVE  StreamType' /\ Fed(c)' /\ Follows(c)'
  <1> DEFINE e == Head(queue[c])
  <1>1. /\ queue[c] \in Seq(Events) /\ queue[c] # <<>> /\ sent[c] \in Seq(Events)
        /\ pc[c] = "live" /\ queue'[c] = Tail(queue[c])
        /\ sent' = [sent EXCEPT ![c] = Append(@, e)]
        /\ UNCHANGED <<published, pend, dropped>>
        /\ (pc'[c] = "closed" \/ (pc'[c] = "live" /\ subs' = subs))
    BY DEF Forward, Close, StreamInv, StreamType, runLogVars
  <1>2. ToSet(queue[c]) = {e} \cup ToSet(queue'[c]) /\ e \in Events /\ queue'[c] \in Seq(Events)
    BY <1>1, ToSetOfTail
  <1> HIDE DEF e
  <1>3. ToSet(sent'[c]) = ToSet(sent[c]) \cup {e} /\ sent' \in [Conns -> Seq(Events)]
    BY <1>1, <1>2, SentGrows DEF StreamInv, StreamType
  <1>4. StreamType'
    BY <1>1, <1>2, <1>3 DEF Forward, Close, StreamInv, StreamType
  <1>5. Fed(c) /\ Follows(c)
    BY DEF StreamInv
  <1>6. CASE pc'[c] = "closed"
    BY <1>1, <1>4, <1>5, <1>6, NotOpenKept
  <1>7. CASE pc'[c] = "live" /\ subs' = subs
    <2>1. /\ Len(queue'[c]) = Len(queue[c]) - 1 /\ Len(queue[c]) \in Nat
          /\ \A i \in 1..(Len(queue[c]) - 1) : queue'[c][i] = queue[c][i + 1]
      BY <1>1, HeadTailProperties, LenProperties
    <2>2. Fed(c)'
      BY <1>1, <1>5, <1>7, <2>1, EventsAssumption DEF Fed, Open
    <2>3. pend[c] = <<>> /\ ToSet(pend[c]) = {} /\ pend'[c] = pend[c]
      BY <1>1, <1>5 DEF Fed, ToSet
    <2>4. ASSUME ~dropped[c], Lost \notin ToSet(sent'[c])
          PROVE  /\ 1..published \subseteq ToSet(sent'[c]) \cup ToSet(queue'[c])
                 /\ \E k \in 0..NumEvents : ToSet(sent'[c]) = 1..k
                 /\ Gapless(pend[c], ToSet(sent'[c]))
                 /\ Gapless(queue'[c], ToSet(sent'[c]))
      <3>1. /\ 1..published \subseteq ToSet(sent[c]) \cup ToSet(queue[c])
            /\ \E k \in 0..NumEvents : ToSet(sent[c]) = 1..k
            /\ Gapless(queue[c], ToSet(sent[c]) \cup {})
        BY <1>1, <1>3, <1>5, <2>3, <2>4 DEF Follows
      <3>2. ToSet(sent[c]) \cup {} = ToSet(sent[c]) /\ e # Lost
        BY <1>3, <2>4
      <3>3. 1..(e - 1) \subseteq ToSet(sent[c]) /\ Gapless(queue'[c], ToSet(sent'[c]))
        BY <1>1, <1>3, <3>1, <3>2, GaplessHead DEF e
      <3>4. \E k \in 0..NumEvents : ToSet(sent'[c]) = 1..k
        <4>1. PICK k \in 0..NumEvents : ToSet(sent[c]) = 1..k
          BY <3>1
        <4>2. \E n \in 0..NumEvents : (1..k) \cup {e} = 1..n
          BY <1>2, <3>2, <3>3, <4>1, NextSent
        <4> QED
          BY <1>3, <4>1, <4>2
      <3>5. Gapless(pend[c], ToSet(sent'[c]))
        BY <2>3 DEF Gapless
      <3> QED
        BY <1>2, <1>3, <3>1, <3>3, <3>4, <3>5
    <2>5. \A s : s \cup ToSet(pend[c]) = s
      BY <2>3
    <2>6. Follows(c)'
      BY <1>1, <1>7, <2>3, <2>4, <2>5 DEF Follows
    <2> QED
      BY <1>4, <2>2, <2>6
  <1> QED
    BY <1>1, <1>6, <1>7

LEMMA StreamStep ==
  ASSUME StreamInv, [StreamNext]_streamVars
  PROVE  StreamInv'
  <1>1. LogInv'
    BY LogStep DEF StreamInv
  <1>2. StreamType /\ \A c \in Conns : Fed(c) /\ Follows(c)
    BY DEF StreamInv
  <1>3. CASE Publish
    <2>1. \A c \in Conns : Fed(c)' /\ Follows(c)' /\ queue'[c] \in Seq(Events)
      BY <1>3, PublishFeeds
    <2>2. DOMAIN queue' = Conns /\ queue' = [c \in Conns |-> queue'[c]]
      BY <1>3 DEF Publish, Put
    <2>3. queue' \in [Conns -> Seq(Events)]
      BY <2>1, <2>2
    <2>4. StreamType'
      BY <1>2, <1>3, <2>3 DEF Publish, StreamType
    <2> QED
      BY <1>1, <2>1, <2>4 DEF StreamInv
  <1>4. CASE RestartRun
    <2>1. StreamType'
      BY <1>2, <1>4 DEF RestartRun, StreamType
    <2>2. ASSUME NEW c \in Conns PROVE Fed(c)' /\ Follows(c)'
      <3>1. /\ pc'[c] \in {"none", "closed"} /\ (pc'[c] = "none" => pc[c] = "none")
            /\ UNCHANGED <<published, queue, pend, sent, dropped>>
        BY <1>4 DEF RestartRun
      <3> QED
        BY <1>2, <3>1 DEF Fed, Follows, Open
    <2> QED
      BY <1>1, <2>1, <2>2 DEF StreamInv
  <1>5. ASSUME NEW c \in Conns, Connect(c) \/ Stream(c) \/ Disconnect(c)
        PROVE  StreamInv'
    <2>1. ASSUME NEW d \in Conns \ {c} PROVE Fed(d)' /\ Follows(d)'
      <3>1. /\ published' = published /\ pc'[d] = pc[d] /\ queue'[d] = queue[d]
            /\ pend'[d] = pend[d] /\ sent'[d] = sent[d] /\ dropped'[d] = dropped[d]
            /\ (d \in subs => d \in subs')
        BY <1>2, <1>5 DEF Connect, Disconnect, Stream, Replay, SendReplayed, FinishReplayed, GoLive,
          Forward, Heartbeat, Close, runLogVars, streamVars, StreamType
      <3> QED
        BY <1>2, <3>1, OthersKept
    <2>2. StreamType' /\ Fed(c)' /\ Follows(c)'
      <3>1. CASE Replay(c)
        BY <3>1, ReplayFollows
      <3>2. CASE SendReplayed(c)
        BY <3>2, SendReplayedFollows
      <3>3. CASE Forward(c)
        BY <3>3, ForwardFollows
      <3>4. CASE Heartbeat(c)
        BY <1>2, <3>4 DEF Heartbeat, streamVars, StreamType, Fed, Follows, Open
      <3>5. CASE Connect(c)
        <4>1. /\ pc[c] = "none" /\ pc'[c] = "subscribed" /\ subs' = subs \cup {c}
              /\ UNCHANGED <<published, queue, pend, sent, dropped>>
          BY <1>2, <3>5 DEF Connect, runLogVars, StreamType
        <4>2. StreamType'
          BY <1>2, <3>5 DEF Connect, StreamType
        <4> QED
          BY <1>2, <4>1, <4>2 DEF Fed, Follows, Open
      <3>6. CASE GoLive(c)
        <4>1. /\ pc[c] = "replaying" /\ pc'[c] = "live" /\ pend[c] = <<>>
              /\ UNCHANGED <<published, subs, queue, pend, sent, dropped>>
          BY <1>2, <3>6 DEF GoLive, runLogVars, StreamType
        <4>2. StreamType'
          BY <1>2, <3>6 DEF GoLive, StreamType
        <4> QED
          BY <1>2, <4>1, <4>2 DEF Fed, Follows, Open
      <3>7. CASE FinishReplayed(c)
        <4>1. /\ pc'[c] = "closed" /\ UNCHANGED <<published, queue>> /\ Done \in Events
              /\ sent' = [sent EXCEPT ![c] = Append(@, Done)]
          BY <1>2, <3>7, EventsAssumption
          DEF FinishReplayed, Close, runLogVars, StreamType, Done, Events
        <4>2. sent' \in [Conns -> Seq(Events)]
          BY <1>2, <4>1 DEF StreamType
        <4>3. StreamType'
          BY <1>2, <3>7, <4>2 DEF FinishReplayed, Close, StreamType
        <4> QED
          BY <1>2, <4>1, <4>3, NotOpenKept
      <3>8. CASE Disconnect(c)
        <4>1. pc'[c] \in {"closed", "leaked"} /\ UNCHANGED <<published, queue>>
          BY <1>2, <3>8 DEF Disconnect, Close, runLogVars, StreamType
        <4>2. StreamType'
          BY <1>2, <3>8 DEF Disconnect, Close, StreamType
        <4> QED
          BY <1>2, <4>1, <4>2, NotOpenKept
      <3> QED
        BY <1>5, <3>1, <3>2, <3>3, <3>4, <3>5, <3>6, <3>7, <3>8 DEF Stream
    <2> QED
      BY <1>1, <2>1, <2>2 DEF StreamInv
  <1>6. CASE UNCHANGED streamVars
    BY <1>1, <1>2, <1>6 DEF streamVars, StreamInv, StreamType, Fed, Follows, Open
  <1> QED
    BY <1>3, <1>4, <1>5, <1>6 DEF StreamNext

\* The log keeps the first events and says when some are missing, and a stream that
\* is open misses none without a marker, for any number of events, connections and
\* any size of the log and the queues (append_event, _publish, stream_events).
THEOREM NothingIsMissed == StreamSpec => []NothingMissed
  <1>1. StreamInit => StreamInv
    <2> SUFFICES ASSUME StreamInit PROVE StreamInv
      OBVIOUS
    <2> USE EventsAssumption
    <2>1. LogInv
      BY DEF StreamInit, LogInv, Kept, Markers
    <2>2. <<>> \in Seq(Events)
      OBVIOUS
    <2>3. StreamType
      BY <2>2 DEF StreamInit, StreamType
    <2>4. \A c \in Conns : Fed(c) /\ Follows(c)
      BY DEF StreamInit, Fed, Follows, Open
    <2> QED
      BY <2>1, <2>3, <2>4 DEF StreamInv
  <1>2. StreamInv /\ [StreamNext]_streamVars => StreamInv'
    BY StreamStep
  <1>3. StreamInv => NothingMissed
    <2> SUFFICES ASSUME StreamInv PROVE StreamComplete
      BY LogIsRight DEF StreamInv, NothingMissed
    <2>1. ASSUME NEW c \in Conns, pc[c] \in {"replaying", "live"}, ~dropped[c],
                 Lost \notin ToSet(sent[c] \o pend[c])
          PROVE  /\ 1..published \subseteq ToSet(sent[c]) \cup ToSet(pend[c]) \cup ToSet(queue[c])
                 /\ \E k \in 0..NumEvents : ToSet(sent[c]) = 1..k
      <3>1. sent[c] \in Seq(Events) /\ pend[c] \in Seq(Events) /\ Follows(c)
        BY DEF StreamInv, StreamType
      <3>2. ToSet(sent[c] \o pend[c]) = ToSet(sent[c]) \cup ToSet(pend[c])
        BY <3>1, ToSetOfConcat
      <3> QED
        BY <2>1, <3>1, <3>2 DEF Follows
    <2> QED
      BY <2>1 DEF StreamComplete
  <1> QED
    BY <1>1, <1>2, <1>3, PTL DEF StreamSpec

------------------------------------------------------------------------------
(***************************************************************************)
(* Whose run it is.  A run.json is what it was stamped as, or what the     *)
(* migration makes of that.                                                *)
(***************************************************************************)
StartedAs(meta) == \E scopes : scopes # <<>> /\ meta = StampedMeta(scopes)

Stamped(id, meta) ==
    /\ id \in DOMAIN OldRuns => meta = OldRuns[id]
    /\ id \notin DOMAIN OldRuns => StartedAs(meta)

MetaInv ==
    /\ DOMAIN runJson \subseteq DOMAIN OldRuns \cup {NewRun}
    /\ \A id \in DOMAIN runJson :
         \E meta : /\ IsRunJson(meta) /\ Stamped(id, meta)
                   /\ runJson[id] \in {meta, Reattributed(meta)}
    /\ migration # NoMigration =>
         migration.of \in DOMAIN runJson /\ migration.meta = Reattributed(runJson[migration.of])

(***************************************************************************)
(* What the scopes of a run have.                                          *)
(***************************************************************************)
Answered(m, i) ==
    LET dir == ScopeDir(Scopes[i])
    IN  dir \in DOMAIN scopeDirs /\ RunModules[m] \in DOMAIN scopeDirs[dir]

InPlace ==
    \A dir \in DOMAIN scopeDirs : \A x \in DOMAIN scopeDirs[dir] :
      ScopeDir(scopeDirs[dir][x].scope) = dir

Underway == dispatch.pc \in {"module", "running"}

DispatchType == [pc : {"idle", "module", "running", "ended"}, module : Nat, scope : Nat]

DispatchInv ==
    /\ dispatch \in DispatchType
    /\ DOMAIN moduleState = DOMAIN RunModules
    /\ dispatch.pc = "idle" => \A m \in DOMAIN RunModules : moduleState[m] # "ok"
    /\ dispatch.pc # "idle" => NewRun \in DOMAIN runJson
    /\ Underway => dispatch.scope \in 1..Len(Scopes)
    /\ dispatch.pc = "running" => MultiScope /\ dispatch.module \in DOMAIN RunModules
                                  /\ ScopeDir(Current) \in DOMAIN scopeDirs
    /\ dispatch.pc # "running" => sourceTypeEnv = DotEnv.primary.type
    /\ dispatch.pc = "running" => sourceTypeEnv = Current.type

AnswersInv ==
    dispatch.pc # "idle" /\ MultiScope =>
      /\ \A m \in DOMAIN RunModules, i \in 1..Len(Scopes) : moduleState[m] = "ok" => Answered(m, i)
      /\ Underway /\ dispatch.module \in DOMAIN RunModules =>
           \A i \in 1..Len(Scopes) : i < dispatch.scope => Answered(dispatch.module, i)

ScopesInv == MetaInv /\ DispatchInv /\ InPlace /\ AnswersInv

LEMMA ReattributedMeta ==
  ASSUME NEW meta, IsRunJson(meta)
  PROVE  /\ IsRunJson(Reattributed(meta)) /\ Reattributed(meta).scopes = meta.scopes
         /\ Reattributed(Reattributed(meta)) = Reattributed(meta)
         /\ Reattributed(meta) # meta => meta.scopes # <<>> /\ ~ScopeIsAzure(meta.scopes[1])
  <1> DEFINE scope == meta.scopes[1]
             name == IF scope.name = <<>> THEN <<"x">> ELSE scope.name
  <1>1. CASE meta.scopes = <<>>
    BY <1>1 DEF Reattributed
  <1>2. CASE meta.scopes # <<>> /\ ScopeIsAzure(scope)
    BY <1>2 DEF Reattributed
  <1>3. CASE meta.scopes # <<>> /\ ~ScopeIsAzure(scope)
    <2> DEFINE m2 == [scopes |-> meta.scopes, tenant |-> "", subscription |-> scope.account, rg |-> "",
                      workspace |-> name]
    <2>1. Reattributed(meta) = [meta EXCEPT !.tenant = "", !.rg = "", !.subscription = scope.account,
                                            !.workspace = name]
      BY <1>3 DEF Reattributed
    <2>2. Reattributed(meta) = m2
      BY <2>1 DEF IsRunJson
    <2>3. Reattributed(m2) = [m2 EXCEPT !.tenant = "", !.rg = "", !.subscription = scope.account,
                                        !.workspace = name]
      BY <1>3 DEF Reattributed
    <2> HIDE DEF name
    <2>4. Reattributed(m2) = m2
      BY <2>3
    <2>5. IsRunJson(m2) /\ m2.scopes = meta.scopes
      BY DEF IsRunJson
    <2> HIDE DEF m2
    <2> QED
      BY <1>3, <2>2, <2>4, <2>5
  <1> QED
    BY <1>1, <1>2, <1>3

LEMMA StampedIsMeta ==
  ASSUME NEW scopes
  PROVE  IsRunJson(StampedMeta(scopes)) /\ StampedMeta(scopes).scopes = scopes
  BY DEF StampedMeta, IsRunJson

\* The migration and the start agree on a run whose first scope has a name.
LEMMA MigrationAgrees ==
  ASSUME NEW meta, IsRunJson(meta), Reattributed(meta) # meta, meta.scopes[1].name # <<>>
  PROVE  Reattributed(meta) = StampedMeta(meta.scopes)
  <1>1. meta.scopes # <<>> /\ ~ScopeIsAzure(meta.scopes[1])
    BY ReattributedMeta
  <1>2. Reattributed(meta) = [meta EXCEPT !.tenant = "", !.rg = "", !.subscription = meta.scopes[1].account,
                                          !.workspace = meta.scopes[1].name]
    BY <1>1 DEF Reattributed
  <1> QED
    BY <1>1, <1>2 DEF StampedMeta, IsRunJson

LEMMA StampedStays ==
  ASSUME NEW scopes, scopes # <<>>, ScopeIsAzure(scopes[1]) \/ scopes[1].name # <<>>
  PROVE  Reattributed(StampedMeta(scopes)) = StampedMeta(scopes)
  <1> DEFINE meta == StampedMeta(scopes)
  <1>1. IsRunJson(meta) /\ meta.scopes = scopes
    BY StampedIsMeta
  <1>2. SUFFICES ASSUME Reattributed(meta) # meta PROVE Reattributed(meta) = meta
    OBVIOUS
  <1>3. ~ScopeIsAzure(scopes[1])
    BY <1>1, <1>2, ReattributedMeta
  <1> QED
    BY <1>1, <1>2, <1>3, MigrationAgrees

LEMMA EffectiveIsSome ==
  ASSUME NEW asked \in ScopeLists
  PROVE  EffectiveScopes(asked) \in Seq(Scope) /\ EffectiveScopes(asked) # <<>>
  <1>1. DotEnv.primary \in Scope
    BY DEF Scope
  <1>2. asked \in Seq(Scope)
    BY ScopesAssumption
  <1>3. <<DotEnv.primary>> \in Seq(Scope) /\ <<DotEnv.primary>> # <<>>
    BY <1>1
  <1> QED
    BY <1>2, <1>3 DEF EffectiveScopes

\* A start adds a run.json, the migration rewrites one in place, and neither touches
\* the scopes of a run.
LEMMA MetaStep ==
  ASSUME MetaInv, [ScopesNext]_scopeVars
  PROVE  /\ MetaInv'
         /\ \A id \in DOMAIN runJson : id \in DOMAIN runJson' /\ runJson'[id].scopes = runJson[id].scopes
  <1> DEFINE Fits(id, json) ==
               \E meta : /\ IsRunJson(meta) /\ Stamped(id, meta)
                         /\ json \in {meta, Reattributed(meta)}
  <1>1. \A id \in DOMAIN runJson : Fits(id, runJson[id]) /\ IsRunJson(runJson[id])
    BY ReattributedMeta DEF MetaInv
  <1>2. ASSUME NEW asked \in ScopeLists, StartScopes(asked)
        PROVE  /\ MetaInv'
               /\ \A id \in DOMAIN runJson :
                    id \in DOMAIN runJson' /\ runJson'[id].scopes = runJson[id].scopes
    <2> DEFINE new == StampedMeta(EffectiveScopes(asked))
    <2>1. /\ NewRun \notin DOMAIN runJson /\ DOMAIN runJson' = DOMAIN runJson \cup {NewRun}
          /\ \A id \in DOMAIN runJson : runJson'[id] = runJson[id]
          /\ runJson'[NewRun] = new /\ migration' = migration
      BY <1>2 DEF StartScopes
    <2>2. Fits(NewRun, new)
      <3>1. IsRunJson(new)
        BY EffectiveIsSome, StampedIsMeta
      <3>2. StartedAs(new)
        BY EffectiveIsSome DEF StartedAs
      <3> QED
        BY <3>1, <3>2, ScopesAssumption DEF Stamped
    <2> HIDE DEF new, Fits
    <2>3. \A id \in DOMAIN runJson' : Fits(id, runJson'[id])
      BY <1>1, <2>1, <2>2
    <2>4. DOMAIN runJson' \subseteq DOMAIN OldRuns \cup {NewRun}
      BY <2>1 DEF MetaInv
    <2>5. migration' # NoMigration =>
            migration'.of \in DOMAIN runJson' /\ migration'.meta = Reattributed(runJson'[migration'.of])
      BY <2>1 DEF MetaInv
    <2> QED
      BY <2>1, <2>3, <2>4, <2>5 DEF MetaInv, Fits
  <1>3. ASSUME NEW id \in DOMAIN runJson, MigrationReads(id)
        PROVE  /\ MetaInv'
               /\ \A i \in DOMAIN runJson :
                    i \in DOMAIN runJson' /\ runJson'[i].scopes = runJson[i].scopes
    <2>1. migration' = [of |-> id, meta |-> Reattributed(runJson[id])] /\ runJson' = runJson
      BY <1>3 DEF MigrationReads
    <2> QED
      BY <2>1 DEF MetaInv
  <1>4. ASSUME MigrationWrites
        PROVE  /\ MetaInv'
               /\ \A i \in DOMAIN runJson :
                    i \in DOMAIN runJson' /\ runJson'[i].scopes = runJson[i].scopes
    <2> DEFINE of == migration.of
    <2>1. /\ of \in DOMAIN runJson /\ runJson' = [runJson EXCEPT ![of] = Reattributed(runJson[of])]
          /\ migration' = NoMigration
      BY <1>4 DEF MigrationWrites, MetaInv
    <2>2. /\ DOMAIN runJson' = DOMAIN runJson
          /\ runJson'[of] = Reattributed(runJson[of])
          /\ \A i \in DOMAIN runJson : i # of => runJson'[i] = runJson[i]
      BY <2>1
    <2>3. PICK meta : IsRunJson(meta) /\ Stamped(of, meta) /\ runJson[of] \in {meta, Reattributed(meta)}
      BY <1>1, <2>1
    <2>4. /\ Reattributed(runJson[of]) = Reattributed(meta)
          /\ Reattributed(runJson[of]).scopes = runJson[of].scopes
      BY <2>3, ReattributedMeta
    <2> HIDE DEF of
    <2>5. Fits(of, runJson'[of])
      BY <2>2, <2>3, <2>4
    <2> HIDE DEF Fits
    <2>6. \A i \in DOMAIN runJson' : Fits(i, runJson'[i])
      BY <1>1, <2>2, <2>5
    <2>7. MetaInv'
      BY <2>1, <2>2, <2>6 DEF MetaInv, Fits
    <2>8. ASSUME NEW i \in DOMAIN runJson
          PROVE  i \in DOMAIN runJson' /\ runJson'[i].scopes = runJson[i].scopes
      BY <2>2, <2>4, <2>8
    <2> QED
      BY <2>7, <2>8
  <1>5. CASE UNCHANGED <<runJson, migration>>
    BY <1>5 DEF MetaInv
  <1> QED
    BY <1>2, <1>3, <1>4, <1>5
    DEF ScopesNext, EnterScope, ScopeDone, ScopeRaises, FlatModule, RunOfScopesEnds, scopeVars

LEMMA AttributionHolds == MetaInv => AttributionAgrees
  <1> SUFFICES ASSUME MetaInv PROVE AttributionAgrees
    OBVIOUS
  <1> DEFINE named(scopes) == ScopeIsAzure(scopes[1]) \/ scopes[1].name # <<>>
  <1>1. ASSUME NewRun \in DOMAIN runJson, named(runJson[NewRun].scopes)
        PROVE  ~NeedsMigration(NewRun)
    <2>1. PICK meta : /\ IsRunJson(meta) /\ Stamped(NewRun, meta)
                      /\ runJson[NewRun] \in {meta, Reattributed(meta)}
      BY <1>1 DEF MetaInv
    <2>2. PICK scopes : scopes # <<>> /\ meta = StampedMeta(scopes)
      BY <2>1, ScopesAssumption DEF Stamped, StartedAs
    <2>3. meta.scopes = scopes /\ runJson[NewRun].scopes = scopes
      BY <2>1, <2>2, StampedIsMeta, ReattributedMeta
    <2>4. Reattributed(meta) = meta
      BY <1>1, <2>2, <2>3, StampedStays
    <2> QED
      BY <2>1, <2>4 DEF NeedsMigration
  <1>2. ASSUME NEW id \in DOMAIN runJson
        PROVE  /\ Reattributed(Reattributed(runJson[id])) = Reattributed(runJson[id])
               /\ NeedsMigration(id) => ~ScopeIsAzure(runJson[id].scopes[1])
               /\ id \in DOMAIN OldRuns /\ runJson[id] # OldRuns[id] /\ named(runJson[id].scopes) =>
                    runJson[id] = StampedMeta(runJson[id].scopes)
    <2>1. PICK meta : IsRunJson(meta) /\ Stamped(id, meta) /\ runJson[id] \in {meta, Reattributed(meta)}
      BY <1>2 DEF MetaInv
    <2>2. IsRunJson(runJson[id]) /\ runJson[id].scopes = meta.scopes
      BY <2>1, ReattributedMeta
    <2>3. Reattributed(Reattributed(runJson[id])) = Reattributed(runJson[id])
      BY <2>2, ReattributedMeta
    <2>4. NeedsMigration(id) => ~ScopeIsAzure(runJson[id].scopes[1])
      BY <2>2, ReattributedMeta DEF NeedsMigration
    <2>5. ASSUME id \in DOMAIN OldRuns, runJson[id] # OldRuns[id], named(runJson[id].scopes)
          PROVE  runJson[id] = StampedMeta(runJson[id].scopes)
      <3>1. meta = OldRuns[id] /\ runJson[id] = Reattributed(meta) /\ Reattributed(meta) # meta
        BY <2>1, <2>5 DEF Stamped
      <3>2. ~ScopeIsAzure(meta.scopes[1]) /\ meta.scopes[1].name # <<>>
        BY <2>1, <2>2, <2>5, <3>1, ReattributedMeta
      <3> QED
        BY <2>1, <2>2, <3>1, <3>2, MigrationAgrees
    <2> QED
      BY <2>3, <2>4, <2>5
  <1> QED
    BY <1>1, <1>2 DEF AttributionAgrees

LEMMA NextScope ==
  ASSUME NEW d \in DispatchType
  PROVE  LET e == [d EXCEPT !.pc = "module", !.scope = @ + 1]
         IN  e \in DispatchType /\ e.pc = "module"
  <1> DEFINE a == [d EXCEPT !.pc = "module"]
             b == [a EXCEPT !.scope = d.scope + 1]
  <1>1. a \in DispatchType /\ a.pc = "module"
    BY DEF DispatchType
  <1>2. d.scope + 1 \in Nat
    BY DEF DispatchType
  <1>3. ASSUME NEW r \in DispatchType, NEW n \in Nat
        PROVE  [r EXCEPT !.scope = n] \in DispatchType /\ [r EXCEPT !.scope = n].pc = r.pc
    BY DEF DispatchType
  <1> HIDE DEF a
  <1>4. b \in DispatchType /\ b.pc = "module"
    BY <1>1, <1>2, <1>3
  <1> QED
    BY <1>4 DEF a

LEMMA DispatchStep ==
  ASSUME MetaInv, DispatchInv, [ScopesNext]_scopeVars
  PROVE  DispatchInv'
  <1> USE DEF DispatchInv, DispatchType, Underway
  <1>1. \A id \in DOMAIN runJson : id \in DOMAIN runJson' /\ runJson'[id].scopes = runJson[id].scopes
    BY MetaStep
  <1>2. dispatch.pc # "idle" => NewRun \in DOMAIN runJson' /\ Scopes' = Scopes
    BY <1>1 DEF Scopes
  <1>3. ASSUME NEW asked \in ScopeLists, StartScopes(asked) PROVE DispatchInv'
    <2>1. /\ dispatch' = [pc |-> "module", module |-> 1, scope |-> 1]
          /\ UNCHANGED <<scopeDirs, sourceTypeEnv, moduleState>> /\ dispatch.pc = "idle"
          /\ NewRun \in DOMAIN runJson' /\ runJson'[NewRun] = StampedMeta(EffectiveScopes(asked))
      BY <1>3 DEF StartScopes
    <2>2. Scopes' = EffectiveScopes(asked)
      BY <2>1, StampedIsMeta DEF Scopes
    <2>3. 1 \in 1..Len(Scopes')
      BY <2>2, EffectiveIsSome
    <2> QED
      BY <2>1, <2>3
  <1>4. CASE EnterScope
    <2>1. Current' = Current /\ (MultiScope => MultiScope')
      BY <1>2, <1>4 DEF EnterScope, Current, MultiScope
    <2>2. ScopeDir(Current') \in DOMAIN scopeDirs'
      BY <1>4, <2>1 DEF EnterScope
    <2>3. ScopeDir(Current)' = ScopeDir(Current')
      BY <2>1
    <2> QED
      BY <1>2, <1>4, <2>1, <2>2 DEF EnterScope
  <1>5. CASE ScopeDone
    <2>1. CASE dispatch.scope < Len(Scopes)
      <3>1. dispatch' = [dispatch EXCEPT !.pc = "module", !.scope = @ + 1] /\ moduleState' = moduleState
        BY <1>5, <2>1 DEF ScopeDone
      <3>2. dispatch'.scope \in 1..Len(Scopes')
        BY <1>2, <1>5, <2>1, <3>1 DEF ScopeDone
      <3>3. sourceTypeEnv' = DotEnv.primary.type /\ dispatch.pc = "running"
        BY <1>5 DEF ScopeDone, EnvRestored
      <3>4. dispatch' \in DispatchType /\ dispatch'.pc = "module"
        BY <3>1, NextScope
      <3> QED
        BY <1>2, <3>1, <3>2, <3>3, <3>4
    <2>2. CASE ~(dispatch.scope < Len(Scopes))
      <3>1. dispatch' = NextModule /\ DOMAIN moduleState' = DOMAIN moduleState
        BY <1>5, <2>2 DEF ScopeDone
      <3> QED
        BY <1>2, <1>5, <3>1 DEF ScopeDone, NextModule, EnvRestored
    <2> QED
      BY <2>1, <2>2
  <1>6. CASE ScopeRaises
    BY <1>2, <1>6 DEF ScopeRaises, NextModule, EnvRestored
  <1>7. CASE FlatModule
    BY <1>2, <1>7 DEF FlatModule, NextModule
  <1>8. CASE RunOfScopesEnds
    BY <1>2, <1>8 DEF RunOfScopesEnds, NoDispatch
  <1>9. CASE UNCHANGED <<dispatch, scopeDirs, sourceTypeEnv, moduleState>>
    <2>1. dispatch.pc # "idle" => Current' = Current /\ (MultiScope => MultiScope')
      BY <1>2, <1>9 DEF Current, MultiScope
    <2> QED
      BY <1>2, <1>9, <2>1
  <1> QED
    BY <1>3, <1>4, <1>5, <1>6, <1>7, <1>8, <1>9
    DEF ScopesNext, MigrationReads, MigrationWrites, scopeVars

LEMMA InPlaceStep ==
  ASSUME DispatchInv, InPlace, [ScopesNext]_scopeVars
  PROVE  InPlace'
  <1> USE DEF InPlace
  <1>1. CASE UNCHANGED scopeDirs
    BY <1>1
  <1>2. CASE EnterScope
    BY <1>2 DEF EnterScope
  <1>3. CASE ScopeDone
    <2> DEFINE dir == ScopeDir(Current)
               files == scopeDirs[dir]
               new == [m \in DOMAIN files \cup {Module} |->
                         IF m = Module THEN Artefact(Current) ELSE files[m]]
    <2>1. dir \in DOMAIN scopeDirs /\ scopeDirs' = [scopeDirs EXCEPT ![dir] = new]
      BY <1>3 DEF ScopeDone, DispatchInv
    <2>2. ScopeDir(Artefact(Current).scope) = dir
      BY DEF Artefact
    <2>3. \A x \in DOMAIN new : ScopeDir(new[x].scope) = dir
      BY <2>1, <2>2
    <2> HIDE DEF dir, new
    <2> QED
      BY <2>1, <2>3
  <1> QED
    BY <1>1, <1>2, <1>3
    DEF ScopesNext, StartScopes, ScopeRaises, FlatModule, RunOfScopesEnds, MigrationReads,
      MigrationWrites, scopeVars

\* An artefact stays where it is.
LEMMA DirsGrow ==
  ASSUME DispatchInv, [ScopesNext]_scopeVars
  PROVE  \A dir \in DOMAIN scopeDirs :
           dir \in DOMAIN scopeDirs' /\ DOMAIN scopeDirs[dir] \subseteq DOMAIN scopeDirs'[dir]
  <1>1. CASE EnterScope
    BY <1>1 DEF EnterScope
  <1>2. CASE ScopeDone
    BY <1>2 DEF ScopeDone
  <1>3. CASE UNCHANGED scopeDirs
    BY <1>3
  <1> QED
    BY <1>1, <1>2, <1>3
    DEF ScopesNext, StartScopes, ScopeRaises, FlatModule, RunOfScopesEnds, MigrationReads,
      MigrationWrites, scopeVars

LEMMA AnswersStep ==
  ASSUME MetaInv, DispatchInv, AnswersInv, [ScopesNext]_scopeVars
  PROVE  AnswersInv'
  <1>1. dispatch.pc # "idle" => Scopes' = Scopes
    BY MetaStep DEF Scopes, DispatchInv
  <1>2. ASSUME dispatch.pc # "idle", NEW m, NEW i, Answered(m, i) PROVE Answered(m, i)'
    BY <1>1, <1>2, DirsGrow DEF Answered
  <1>3. CASE dispatch.pc = "idle"
    <2>1. \A m \in DOMAIN RunModules : moduleState'[m] # "ok"
      BY <1>3 DEF DispatchInv, Underway, ScopesNext, StartScopes, EnterScope, ScopeDone, ScopeRaises,
        FlatModule, RunOfScopesEnds, MigrationReads, MigrationWrites, scopeVars
    <2>2. dispatch' = dispatch \/ dispatch'.scope = 1
      BY <1>3 DEF DispatchInv, Underway, ScopesNext, StartScopes, EnterScope, ScopeDone, ScopeRaises,
        FlatModule, RunOfScopesEnds, MigrationReads, MigrationWrites, scopeVars
    <2> QED
      BY <1>3, <2>1, <2>2 DEF AnswersInv
  <1>4. CASE dispatch.pc # "idle" /\ MultiScope
    <2>1. /\ \A m \in DOMAIN RunModules, i \in 1..Len(Scopes) : moduleState[m] = "ok" => Answered(m, i)
          /\ Underway /\ dispatch.module \in DOMAIN RunModules =>
               \A i \in 1..Len(Scopes) : i < dispatch.scope => Answered(dispatch.module, i)
      BY <1>4 DEF AnswersInv
    <2> PICK k, j : k = dispatch.module /\ j = dispatch.scope
      OBVIOUS
    <2>2. Scopes' = Scopes
      BY <1>1, <1>4
    <2>3. \A m \in DOMAIN RunModules, i \in 1..Len(Scopes) :
            moduleState[m] = "ok" => Answered(m, i)'
      BY <1>2, <1>4, <2>1
    <2>4. Underway /\ k \in DOMAIN RunModules =>
            \A i \in 1..Len(Scopes) : i < j => Answered(k, i)'
      BY <1>2, <1>4, <2>1
    <2>5. CASE ScopeDone
      <3>1. Answered(k, j)'
        <4> DEFINE dir == ScopeDir(Current)
        <4>1. dir \in DOMAIN scopeDirs' /\ Module \in DOMAIN scopeDirs'[dir]
          BY <2>5 DEF ScopeDone, DispatchInv
        <4> QED
          BY <2>2, <4>1 DEF Answered, Current, Module
      <3>2. k \in DOMAIN RunModules /\ j \in 1..Len(Scopes) /\ Underway /\ k \in Nat
        BY <2>5 DEF ScopeDone, DispatchInv, DispatchType, Underway
      <3>3. \A i \in 1..Len(Scopes) : i < j + 1 => Answered(k, i)'
        BY <2>4, <3>1, <3>2
      <3>4. CASE j < Len(Scopes)
        <4>1. dispatch'.module = k /\ dispatch'.scope = j + 1 /\ moduleState' = moduleState
          BY <2>5, <3>4 DEF ScopeDone, DispatchInv, DispatchType
        <4> QED
          BY <2>2, <2>3, <3>3, <4>1 DEF AnswersInv
      <3>5. CASE ~(j < Len(Scopes))
        <4>1. dispatch'.scope = 1 /\ moduleState' = [moduleState EXCEPT ![k] = "ok"]
          BY <2>5, <3>5 DEF ScopeDone, NextModule
        <4>2. \A i \in 1..Len(Scopes) : Answered(k, i)'
          BY <3>2, <3>3, <3>5
        <4>3. \A m \in DOMAIN RunModules : m # k => moduleState'[m] = moduleState[m]
          BY <4>1 DEF DispatchInv
        <4> QED
          BY <2>2, <2>3, <4>1, <4>2, <4>3 DEF AnswersInv
      <3> QED
        BY <3>4, <3>5
    <2>6. CASE EnterScope
      <3>1. dispatch'.module = k /\ dispatch'.scope = j /\ Underway
        BY <2>6 DEF EnterScope, DispatchInv, DispatchType, Underway
      <3>2. \A m \in DOMAIN RunModules : moduleState'[m] = "ok" => moduleState[m] = "ok"
        BY <2>6 DEF EnterScope, DispatchInv
      <3> QED
        BY <2>2, <2>3, <2>4, <3>1, <3>2 DEF AnswersInv
    <2>7. CASE ScopeRaises
      <3>1. dispatch'.scope = 1
        BY <2>7 DEF ScopeRaises, NextModule
      <3>2. \A m \in DOMAIN RunModules : moduleState'[m] = "ok" => moduleState[m] = "ok"
        BY <2>7 DEF ScopeRaises, DispatchInv
      <3> QED
        BY <2>2, <2>3, <3>1, <3>2 DEF AnswersInv
    <2>8. CASE RunOfScopesEnds
      BY <2>2, <2>3, <2>8 DEF RunOfScopesEnds, NoDispatch, AnswersInv, Underway
    <2>9. CASE UNCHANGED <<dispatch, moduleState>>
      BY <2>2, <2>3, <2>4, <2>9 DEF AnswersInv, Underway
    <2> QED
      BY <1>4, <2>5, <2>6, <2>7, <2>8, <2>9
      DEF ScopesNext, StartScopes, FlatModule, MigrationReads, MigrationWrites, scopeVars
  <1>5. CASE dispatch.pc # "idle" /\ ~MultiScope
    <2>1. ~MultiScope'
      BY <1>1, <1>5 DEF MultiScope
    <2> QED
      BY <2>1 DEF AnswersInv
  <1> QED
    BY <1>3, <1>4, <1>5

\* Who a run belongs to and what it found in each of its scopes are told as they are,
\* for any scopes, old runs and modules (JobRunner.start, JobRunner._run,
\* migrate_run_attribution).
THEOREM ScopesAreTrue == ScopesSpec => []ScopesTrue
  <1>1. ScopesInit => ScopesInv
    <2> SUFFICES ASSUME ScopesInit PROVE ScopesInv
      OBVIOUS
    <2>1. ASSUME NEW id \in DOMAIN runJson
          PROVE  \E meta : /\ IsRunJson(meta) /\ Stamped(id, meta)
                           /\ runJson[id] \in {meta, Reattributed(meta)}
      <3>1. IsRunJson(OldRuns[id]) /\ Stamped(id, OldRuns[id]) /\ runJson[id] = OldRuns[id]
        BY <2>1, ScopesAssumption DEF ScopesInit, Stamped
      <3> QED
        BY <3>1
    <2>2. MetaInv
      BY <2>1 DEF ScopesInit, MetaInv
    <2>3. DOMAIN scopeDirs = {}
      BY DEF ScopesInit
    <2>4. DispatchInv /\ InPlace /\ AnswersInv
      BY <2>3 DEF ScopesInit, DispatchInv, DispatchType, InPlace, AnswersInv, NoDispatch, Underway
    <2> QED
      BY <2>2, <2>4 DEF ScopesInv
  <1>2. ScopesInv /\ [ScopesNext]_scopeVars => ScopesInv'
    BY MetaStep, DispatchStep, InPlaceStep, AnswersStep DEF ScopesInv
  <1>3. ScopesInv => ScopesTrue
    <2> SUFFICES ASSUME ScopesInv PROVE ScopesTrue
      OBVIOUS
    <2>1. AttributionAgrees
      BY AttributionHolds DEF ScopesInv
    <2>2. ASSUME NewRun \in DOMAIN runJson, MultiScope, NEW m \in DOMAIN RunModules,
                 moduleState[m] = "ok", NEW i \in 1..Len(Scopes)
          PROVE  LET dir == ScopeDir(Scopes[i]) IN
                 /\ RunModules[m] \in DOMAIN scopeDirs[dir]
                 /\ ScopeDir(scopeDirs[dir][RunModules[m]].scope) = dir
      <3>1. Answered(m, i)
        BY <2>2 DEF ScopesInv, AnswersInv, DispatchInv
      <3> QED
        BY <3>1 DEF Answered, ScopesInv, InPlace
    <2>3. ScopesAnswered
      BY <2>2 DEF ScopesInv, DispatchInv, ScopesAnswered
    <2> QED
      BY <2>1, <2>3 DEF ScopesTrue
  <1> QED
    BY <1>1, <1>2, <1>3, PTL DEF ScopesSpec
================================================================================

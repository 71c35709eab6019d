----------------------------- MODULE PartsProofs -----------------------------
(***************************************************************************)
(* The safety of the parts that share no file, for any number of           *)
(* processes, records, projects, versions and paths.  Each part has its    *)
(* own inductive invariant; the last section puts them together.           *)
(***************************************************************************)
EXTENDS Parts, WorkflowPlanProofs

-----------------------------------------------------------------------------
(* What a session was shown.  Whatever lists a record, the file or the copy *)
(* of a hook, lists no newer version than the agent has or is about to be  *)
(* shown.                                                                  *)

SessionStamps == [Records -> Nat]
Focuses == Repos \cup {"none", "cut"}
SessionCheckpoints == [seen : SessionStamps, needFloor : BOOLEAN, focus : Focuses]
SessionWorks == [root : Roots, cp : SessionCheckpoints, text : SessionStamps]
SessionTypeInv ==
  /\ clock \in Nat /\ updated \in [Roots -> SessionStamps] /\ cp \in [Roots -> SessionCheckpoints]
  /\ shown \in [Roots -> SessionStamps]
  /\ spc \in [Session!Hooks -> {"idle", "open", "write", "emit"}] /\ smem \in [Session!Hooks -> SessionWorks]
  /\ spc["tool"] # "emit"
  /\ \A h \in Session!Hooks : spc[h] # "idle" /\ h # "prompt" => smem[h].root = Home

(* A prompt that is about the project of the session. *)
AtHome == spc["prompt"] # "idle" /\ smem["prompt"].root = Home
(* What the agent will have been shown when the prompt has printed.        *)
WillShow(text) == [r \in Records |-> IF text[r] # 0 THEN text[r] ELSE shown[Home][r]]
Promised ==
  IF AtHome /\ spc["prompt"] = "emit" THEN WillShow(smem["prompt"].text) ELSE shown[Home]
(* Nothing is listed in a version that is newer than the one shown.        *)
Known(listed, text) == \A r \in Records : listed[r] <= text[r]
Lists ==
  /\ Known(cp[Home].seen, Promised)
  /\ spc["tool"] # "idle" => Known(smem["tool"].cp.seen, Promised)
  /\ AtHome => /\ Known(smem["prompt"].cp.seen, WillShow(smem["prompt"].text))
               /\ Known(shown[Home], WillShow(smem["prompt"].text))
               /\ Known(WillShow(smem["prompt"].text), updated[Home])
Old == \A r \in Records : shown[Home][r] <= updated[Home][r] /\ updated[Home][r] <= clock
(* A hook that resets is alone, and its checkpoint lists nothing.          *)
Blank(c) == \A r \in Records : c.seen[r] = 0
ResetsAlone ==
  \A h \in Session!Resets : spc[h] # "idle" =>
    /\ \A g \in Session!Hooks : g # h => spc[g] = "idle"
    /\ Blank(smem[h].cp)
    /\ spc[h] \in {"write", "emit"} => Blank(cp[Home])
SessionHolds == Lists /\ Old /\ ResetsAlone

SessionIInv == SessionTypeInv /\ (sspoiled \subseteq {"overlap"} => SessionHolds)

LEMMA Loaded ==
  ASSUME NEW root, SessionTypeInv, Session!HomeAssumption
  PROVE  root \in Roots => Session!Load(root) \in SessionCheckpoints /\ (\A r \in Records : Session!Load(root).seen[r] = cp[root].seen[r])
<1> SUFFICES ASSUME root \in Roots
             PROVE  Session!Load(root) \in SessionCheckpoints /\ (\A r \in Records : Session!Load(root).seen[r] = cp[root].seen[r])
  OBVIOUS
<1>1. Session!Fresh \in SessionCheckpoints /\ Session!Truncated.seen = Session!Fresh.seen
  BY DEF Session!Fresh, Session!Nothing, Session!Truncated, SessionCheckpoints, SessionStamps, Focuses
<1>2. cp[root] \in SessionCheckpoints
  BY DEF SessionTypeInv
<1> QED BY <1>1, <1>2 DEF Session!Load

LEMMA FreshIs ==
  /\ Session!Fresh \in SessionCheckpoints /\ Session!Truncated \in SessionCheckpoints /\ Session!Nothing \in SessionStamps
  /\ \A r \in Records : Session!Nothing[r] = 0 /\ Session!Fresh.seen[r] = 0 /\ Session!Truncated.seen[r] = 0
BY DEF Session!Fresh, Session!Nothing, Session!Truncated, SessionCheckpoints, SessionStamps, Focuses

LEMMA NoWorkIs == Session!HomeAssumption => Session!NoWork \in SessionWorks /\ Session!NoWork.root = Home
BY FreshIs DEF Session!NoWork, SessionWorks, Session!HomeAssumption

LEMMA SessionInitInv == Session!HomeAssumption /\ Session!Init => SessionIInv
<1> SUFFICES ASSUME Session!HomeAssumption, Session!Init PROVE SessionIInv
  OBVIOUS
<1>1. SessionTypeInv
  BY FreshIs, NoWorkIs DEF Session!Init, SessionTypeInv, Session!Hooks
<1>2. spc["prompt"] = "idle" /\ spc["tool"] = "idle"
  BY DEF Session!Init, Session!Hooks
<1>3. Lists
  BY <1>2, FreshIs DEF Session!Init, Lists, AtHome, Promised, Known, Session!HomeAssumption
<1>4. Old
  BY FreshIs DEF Session!Init, Old, Session!HomeAssumption
<1>5. ResetsAlone
  BY DEF Session!Init, ResetsAlone, Session!Resets, Session!Hooks
<1> QED BY <1>1, <1>3, <1>4, <1>5 DEF SessionIInv, SessionHolds

(* A hook that begins beside others that it does not undo. *)
LEMMA Starts ==
  ASSUME NEW h \in Session!Hooks, Session!Start(h), sspoiled' \subseteq {"overlap"}
  PROVE  /\ sspoiled \subseteq {"overlap"} /\ spc[h] = "idle"
         /\ \A g \in Session!Resets : g # h => spc[g] = "idle"
         /\ h \in Session!Resets => \A g \in Session!Hooks : spc[g] = "idle"
<1> DEFINE others == {g \in Session!Hooks : spc[g] # "idle"}
<1>1. /\ sspoiled \subseteq {"overlap"} /\ spc[h] = "idle"
      /\ others # {} => (others \cup {h}) \cap Session!Resets = {}
  BY DEF Session!Start
<1> QED BY <1>1 DEF Session!Resets, Session!Hooks

LEMMA Working ==
  ASSUME SessionTypeInv, NEW h \in Session!Hooks, NEW root \in Roots, NEW c \in SessionCheckpoints, NEW text \in SessionStamps,
         Session!Work(h, root, c, text)
  PROVE  /\ spc' \in [Session!Hooks -> {"idle", "open", "write", "emit"}] /\ smem' \in [Session!Hooks -> SessionWorks]
         /\ spc'[h] = "open" /\ smem'[h].root = root /\ smem'[h].cp = c /\ smem'[h].text = text
         /\ \A g \in Session!Hooks : g # h => spc'[g] = spc[g] /\ smem'[g] = smem[g]
<1>1. [root |-> root, cp |-> c, text |-> text] \in SessionWorks
  BY DEF SessionWorks
<1> QED BY <1>1 DEF Session!Work, Session!Goto, SessionTypeInv

LEMMA CommitKeeps ==
  ASSUME Session!HomeAssumption, SessionIInv, NEW d \in Roots, NEW r \in Records, Session!StoreCommit(d, r)
  PROVE  SessionIInv'
<1>1. /\ clock' = clock + 1 /\ updated' = [updated EXCEPT ![d][r] = clock + 1]
      /\ UNCHANGED <<cp, shown, spc, smem, sspoiled>> /\ SessionTypeInv
  BY DEF Session!StoreCommit, SessionIInv
<1>2. updated' \in [Roots -> SessionStamps] /\ clock \in Nat
  BY <1>1 DEF SessionTypeInv, SessionStamps
<1>3. SessionTypeInv'
  BY <1>1, <1>2 DEF SessionTypeInv
<1>4. ASSUME SessionHolds PROVE SessionHolds'
  <2>1. \A q \in Records : updated'[Home][q] = IF d = Home /\ q = r THEN clock + 1 ELSE updated[Home][q]
    BY <1>1 DEF SessionTypeInv, SessionStamps, Session!HomeAssumption
  <2>2. /\ \A q \in Records : updated[Home][q] \in Nat /\ shown[Home][q] \in Nat /\ smem["prompt"].text[q] \in Nat
        /\ \A q \in Records : shown[Home][q] <= updated[Home][q] /\ updated[Home][q] <= clock
    BY <1>1, <1>4 DEF SessionTypeInv, SessionStamps, Session!HomeAssumption, SessionWorks, Session!Hooks, SessionHolds, Old
  <2>3. \A q \in Records : updated[Home][q] <= updated'[Home][q] /\ updated'[Home][q] <= clock' /\ updated'[Home][q] \in Nat
    BY <1>1, <1>2, <2>1, <2>2
  <2>4. Old'
    <3>1. \A q \in Records : shown[Home][q] <= updated'[Home][q] /\ updated'[Home][q] <= clock'
      BY <2>2, <2>3
    <3> QED BY <3>1, <1>1 DEF Old
  <2>5. \A q \in Records : WillShow(smem["prompt"].text)[q] \in Nat
    BY <2>2 DEF WillShow
  <2>6. AtHome => Known(WillShow(smem["prompt"].text), updated'[Home])
    BY <2>2, <2>3, <2>5, <1>4 DEF SessionHolds, Lists, Known
  <2>7. Lists'
    BY <1>1, <2>6, <1>4 DEF SessionHolds, Lists, AtHome, Promised, WillShow, Known
  <2>8. ResetsAlone'
    BY <1>1, <1>4 DEF SessionHolds, ResetsAlone, Blank
  <2> QED BY <2>4, <2>7, <2>8 DEF SessionHolds
<1> QED BY <1>1, <1>3, <1>4 DEF SessionIInv

(* A hook that resets begins alone, with a checkpoint that lists nothing.  *)
LEMMA ResetStarts ==
  ASSUME Session!HomeAssumption, SessionIInv, NEW h \in Session!Resets, NEW c \in SessionCheckpoints, Blank(c),
         Session!Start(h), Session!Work(h, Home, c, Session!Nothing), UNCHANGED <<Session!store, cp, shown>>
  PROVE  SessionIInv'
<1>0. h \in Session!Hooks /\ h # "prompt" /\ h # "tool" /\ "prompt" \in Session!Hooks /\ "tool" \in Session!Hooks
  BY DEF Session!Resets, Session!Hooks
<1>1. SessionTypeInv /\ clock' = clock /\ updated' = updated /\ cp' = cp /\ shown' = shown
  BY DEF SessionIInv, Session!store
<1>2. /\ spc' \in [Session!Hooks -> {"idle", "open", "write", "emit"}] /\ smem' \in [Session!Hooks -> SessionWorks]
      /\ spc'[h] = "open" /\ smem'[h].root = Home /\ smem'[h].cp = c
      /\ \A g \in Session!Hooks : g # h => spc'[g] = spc[g] /\ smem'[g] = smem[g]
  BY <1>0, <1>1, FreshIs, Working DEF Session!HomeAssumption
<1>3. SessionTypeInv'
  BY <1>0, <1>1, <1>2 DEF SessionTypeInv
<1>4. ASSUME sspoiled' \subseteq {"overlap"} PROVE SessionHolds'
  <2>1. SessionHolds /\ \A g \in Session!Hooks : spc[g] = "idle"
    BY <1>0, <1>4, Starts DEF SessionIInv
  <2>2. \A g \in Session!Hooks : g # h => spc'[g] = "idle"
    BY <1>2, <2>1
  <2>3. Old'
    BY <1>1, <2>1 DEF SessionHolds, Old
  <2>4. Lists'
    <3>1. Known(cp[Home].seen, shown[Home])
      BY <1>0, <2>1 DEF SessionHolds, Lists, Promised, AtHome
    <3> QED BY <1>0, <1>1, <2>2, <3>1 DEF Lists, Promised, AtHome, Known
  <2>5. ResetsAlone'
    <3>1. \A g \in Session!Resets : g # h => spc'[g] = "idle"
      BY <2>2 DEF Session!Resets, Session!Hooks
    <3> QED BY <1>2, <2>2, <3>1 DEF ResetsAlone, Blank
  <2> QED BY <2>3, <2>4, <2>5 DEF SessionHolds
<1> QED BY <1>3, <1>4 DEF SessionIInv

LEMMA ResetKeeps ==
  ASSUME Session!HomeAssumption, SessionIInv, Session!SessionStart \/ Session!PreCompact
  PROVE  SessionIInv'
<1>1. CASE Session!SessionStart
  BY <1>1, FreshIs, ResetStarts DEF Session!SessionStart, Session!Resets, Blank
<1>2. CASE Session!PreCompact
  <2> DEFINE c == [Session!Fresh EXCEPT !.needFloor = TRUE, !.focus = Session!Load(Home).focus]
  <2>1. Session!Load(Home) \in SessionCheckpoints
    BY Loaded DEF SessionIInv, Session!HomeAssumption
  <2>2. c \in SessionCheckpoints /\ c.seen = Session!Fresh.seen
    BY <2>1, FreshIs DEF SessionCheckpoints
  <2>3. Blank(c)
    BY <2>2, FreshIs DEF Blank
  <2> HIDE DEF c
  <2>4. Session!Start("compact") /\ Session!Work("compact", Home, c, Session!Nothing) /\ UNCHANGED <<Session!store, cp, shown>>
    BY <1>2 DEF Session!PreCompact, c
  <2> QED BY <2>2, <2>3, <2>4, ResetStarts DEF Session!Resets
<1> QED BY <1>1, <1>2

LEMMA NoPrompt ==
  ASSUME spc["prompt"] = "idle" \/ smem["prompt"].root # Home \/ spc["prompt"] # "emit"
  PROVE  Promised = shown[Home]
BY DEF Promised, AtHome

(* A prompt about the project of the session or about another. *)
LEMMA PromptKeeps ==
  ASSUME Session!HomeAssumption, SessionIInv, NEW root \in Roots, Session!UserPromptSubmit(root)
  PROVE  SessionIInv'
<1> DEFINE c == Session!Load(root)
           listed == IF c.needFloor THEN Session!Nothing ELSE c.seen
           next(kept, relevant) == [c EXCEPT !.needFloor = FALSE, !.seen = Session!SeenKept(listed, root, kept, relevant)]
           said(kept) == [r \in Records |-> IF r \in kept THEN updated[root][r] ELSE 0]
<1>1. PICK relevant, kept : /\ Session!Start("prompt")
                            /\ Session!Work("prompt", root, next(kept, relevant), said(kept))
                            /\ UNCHANGED <<Session!store, cp, shown>>
  BY DEF Session!UserPromptSubmit
<1> DEFINE text == said(kept)
           mine == next(kept, relevant)
<1>t. SessionTypeInv /\ {"prompt", "tool"} \subseteq Session!Hooks /\ updated[root] \in SessionStamps /\ shown[Home] \in SessionStamps
  BY DEF SessionIInv, SessionTypeInv, Session!Hooks, Session!HomeAssumption
<1>2. c \in SessionCheckpoints /\ listed \in SessionStamps /\ \A r \in Records : listed[r] <= cp[root].seen[r]
  <2>1. c \in SessionCheckpoints /\ (\A r \in Records : c.seen[r] = cp[root].seen[r])
    BY <1>t, Loaded
  <2> HIDE DEF c
  <2>2. c.seen \in SessionStamps
    BY <2>1 DEF SessionCheckpoints
  <2> QED BY <2>1, <2>2, FreshIs DEF SessionStamps
<1> HIDE DEF c, listed
<1>3. text \in SessionStamps /\ \A r \in Records : text[r] = IF r \in kept THEN updated[root][r] ELSE 0
  BY <1>t DEF SessionStamps
<1>4. /\ mine \in SessionCheckpoints
      /\ \A r \in Records : mine.seen[r] = IF r \in kept THEN updated[root][r] ELSE listed[r]
  <2>1. Session!SeenKept(listed, root, kept, relevant) \in SessionStamps
    BY <1>2, <1>t DEF Session!SeenKept, SessionStamps
  <2>2. mine \in SessionCheckpoints /\ mine.seen = Session!SeenKept(listed, root, kept, relevant)
    BY <2>1, <1>2 DEF SessionCheckpoints
  <2> QED BY <2>2 DEF Session!SeenKept
<1> HIDE DEF text, mine
<1>5. Session!Work("prompt", root, mine, text) /\ Session!Start("prompt") /\ UNCHANGED <<clock, updated, cp, shown>>
  BY <1>1 DEF mine, text, Session!store
<1>6. /\ spc' \in [Session!Hooks -> {"idle", "open", "write", "emit"}] /\ smem' \in [Session!Hooks -> SessionWorks]
      /\ spc'["prompt"] = "open" /\ smem'["prompt"].root = root
      /\ smem'["prompt"].cp = mine /\ smem'["prompt"].text = text
      /\ \A g \in Session!Hooks : g # "prompt" => spc'[g] = spc[g] /\ smem'[g] = smem[g]
  BY <1>t, <1>3, <1>4, <1>5, Working
<1>7. SessionTypeInv'
  BY <1>t, <1>5, <1>6 DEF SessionTypeInv
<1>8. ASSUME sspoiled' \subseteq {"overlap"} PROVE SessionHolds'
  <2>1. SessionHolds /\ (\A g \in Session!Resets : spc[g] = "idle") /\ spc["prompt"] = "idle"
    BY <1>t, <1>5, <1>8, Starts DEF SessionIInv, Session!Resets
  <2>2. Old'
    BY <1>5, <2>1 DEF SessionHolds, Old
  <2>3. ResetsAlone'
    BY <1>6, <2>1 DEF ResetsAlone, Session!Resets, Session!Hooks
  <2>4. Promised = shown[Home] /\ Promised' = shown[Home]
    BY <1>5, <1>6, <2>1 DEF Promised, AtHome
  <2>5. Known(cp[Home].seen, shown[Home]) /\ (spc["tool"] # "idle" => Known(smem["tool"].cp.seen, shown[Home]))
    BY <2>1, <2>4 DEF SessionHolds, Lists
  <2>6. ASSUME root = Home
        PROVE  /\ Known(mine.seen, WillShow(text)) /\ Known(shown[Home], WillShow(text))
               /\ Known(WillShow(text), updated[Home])
    <3>1. \A r \in Records : /\ updated[Home][r] \in Nat /\ shown[Home][r] \in Nat /\ listed[r] \in Nat
                             /\ cp[Home].seen[r] \in Nat
                             /\ shown[Home][r] <= updated[Home][r] /\ cp[Home].seen[r] <= shown[Home][r]
                             /\ listed[r] <= cp[Home].seen[r]
      <4>1. cp[Home].seen \in SessionStamps
        BY <1>t DEF SessionTypeInv, Session!HomeAssumption, SessionCheckpoints
      <4> QED BY <4>1, <1>t, <1>2, <2>1, <2>5, <2>6 DEF SessionStamps, SessionHolds, Old, Known
    <3> SUFFICES ASSUME NEW r \in Records
                 PROVE  /\ mine.seen[r] <= WillShow(text)[r] /\ shown[Home][r] <= WillShow(text)[r]
                        /\ WillShow(text)[r] <= updated[Home][r]
      BY DEF Known
    <3>2. WillShow(text)[r] = IF text[r] # 0 THEN text[r] ELSE shown[Home][r]
      BY DEF WillShow
    <3>3. CASE r \in kept
      <4>1. text[r] = updated[Home][r] /\ mine.seen[r] = updated[Home][r]
        BY <1>3, <1>4, <2>6, <3>3
      <4> QED BY <3>1, <3>2, <4>1
    <3>4. CASE r \notin kept
      <4>1. text[r] = 0 /\ mine.seen[r] = listed[r]
        BY <1>3, <1>4, <2>6, <3>4
      <4> QED BY <3>1, <3>2, <4>1
    <3> QED BY <3>3, <3>4
  <2>7. Lists'
    <3>1. AtHome' => root = Home
      BY <1>6 DEF AtHome
    <3>2. Known(cp[Home].seen, Promised)' /\ (spc'["tool"] # "idle" => Known(smem["tool"].cp.seen, Promised)')
      BY <1>t, <1>5, <1>6, <2>4, <2>5 DEF Known
    <3>3. AtHome' => /\ Known(smem["prompt"].cp.seen, WillShow(smem["prompt"].text))'
                     /\ Known(shown[Home], WillShow(smem["prompt"].text))'
                     /\ Known(WillShow(smem["prompt"].text), updated[Home])'
      BY <3>1, <2>6, <1>5, <1>6 DEF Known, WillShow
    <3> QED BY <3>2, <3>3 DEF Lists
  <2> QED BY <2>2, <2>3, <2>7 DEF SessionHolds
<1> QED BY <1>7, <1>8 DEF SessionIInv

(* A tool hook that moves the focus: its copy of what is listed is as good *)
(* as the file.                                                            *)
LEMMA FocusKeeps ==
  ASSUME Session!HomeAssumption, SessionIInv, NEW repo \in Repos, Session!AutoFocus(repo)
  PROVE  SessionIInv'
<1> DEFINE c == [Session!Load(Home) EXCEPT !.focus = repo]
<1>t. SessionTypeInv /\ {"prompt", "tool"} \subseteq Session!Hooks
  BY DEF SessionIInv, Session!Hooks
<1>1. c \in SessionCheckpoints /\ \A r \in Records : c.seen[r] = cp[Home].seen[r]
  <2>1. Session!Load(Home) \in SessionCheckpoints /\ \A r \in Records : Session!Load(Home).seen[r] = cp[Home].seen[r]
    BY <1>t, Loaded DEF Session!HomeAssumption
  <2> QED BY <2>1 DEF SessionCheckpoints, Focuses
<1>2. Session!Start("tool") /\ Session!Work("tool", Home, c, Session!Nothing) /\ UNCHANGED <<clock, updated, cp, shown>>
  BY DEF Session!AutoFocus, Session!store
<1> HIDE DEF c
<1>3. /\ spc' \in [Session!Hooks -> {"idle", "open", "write", "emit"}] /\ smem' \in [Session!Hooks -> SessionWorks]
      /\ spc'["tool"] = "open" /\ smem'["tool"].root = Home /\ smem'["tool"].cp = c
      /\ \A g \in Session!Hooks : g # "tool" => spc'[g] = spc[g] /\ smem'[g] = smem[g]
  BY <1>t, <1>1, <1>2, Working, FreshIs DEF Session!HomeAssumption
<1>4. SessionTypeInv'
  BY <1>t, <1>2, <1>3 DEF SessionTypeInv
<1>5. ASSUME sspoiled' \subseteq {"overlap"} PROVE SessionHolds'
  <2>1. SessionHolds /\ (\A g \in Session!Resets : spc[g] = "idle")
    BY <1>t, <1>2, <1>5, Starts DEF SessionIInv, Session!Resets
  <2>2. Old'
    BY <1>2, <2>1 DEF SessionHolds, Old
  <2>3. ResetsAlone'
    BY <1>3, <2>1 DEF ResetsAlone, Session!Resets, Session!Hooks
  <2>4. Promised' = Promised /\ AtHome' = AtHome /\ smem'["prompt"] = smem["prompt"]
    BY <1>t, <1>2, <1>3 DEF Promised, AtHome, WillShow
  <2>5. Known(cp[Home].seen, Promised) /\ Known(c.seen, Promised)
    BY <1>1, <2>1 DEF SessionHolds, Lists, Known
  <2>6. Lists'
    <3>1. Known(cp[Home].seen, Promised)' /\ Known(smem["tool"].cp.seen, Promised)'
      BY <1>2, <1>3, <2>4, <2>5 DEF Known
    <3>2. AtHome' => /\ Known(smem["prompt"].cp.seen, WillShow(smem["prompt"].text))'
                     /\ Known(shown[Home], WillShow(smem["prompt"].text))'
                     /\ Known(WillShow(smem["prompt"].text), updated[Home])'
      BY <1>2, <2>1, <2>4 DEF SessionHolds, Lists, Known, WillShow
    <3> QED BY <3>1, <3>2 DEF Lists
  <2> QED BY <2>2, <2>3, <2>6 DEF SessionHolds
<1> QED BY <1>4, <1>5 DEF SessionIInv

(* A hook that goes on, or ends. *)
LEMMA Going ==
  ASSUME SessionTypeInv, Session!HomeAssumption, NEW h \in Session!Hooks, NEW l \in {"write", "emit"},
         spc[h] # "idle", h = "tool" => l # "emit", Session!End(h) \/ (Session!Goto(h, l) /\ UNCHANGED smem)
  PROVE  /\ spc' \in [Session!Hooks -> {"idle", "open", "write", "emit"}] /\ smem' \in [Session!Hooks -> SessionWorks]
         /\ spc'[h] \in {"idle", l} /\ (spc'[h] = l => smem'[h] = smem[h])
         /\ \A g \in Session!Hooks : g # h => spc'[g] = spc[g] /\ smem'[g] = smem[g]
         /\ spc'["tool"] # "emit"
         /\ \A g \in Session!Hooks : spc'[g] # "idle" /\ g # "prompt" => smem'[g].root = Home
<1>1. "tool" \in Session!Hooks /\ Session!NoWork \in SessionWorks /\ "idle" # l
  BY NoWorkIs DEF Session!Hooks
<1>2. CASE Session!End(h)
  BY <1>1, <1>2 DEF SessionTypeInv, Session!End, Session!Goto
<1>3. CASE Session!Goto(h, l) /\ UNCHANGED smem
  BY <1>1, <1>3 DEF SessionTypeInv, Session!Goto
<1> QED BY <1>2, <1>3

LEMMA OpenTypes ==
  ASSUME SessionTypeInv, Session!HomeAssumption, NEW h \in Session!Hooks, Session!OpenFile(h)
  PROVE  /\ SessionTypeInv' /\ spc[h] = "open" /\ spc'[h] = "write" /\ smem' = smem
         /\ \A g \in Session!Hooks : g # h => spc'[g] = spc[g]
         /\ cp'[Home] = IF smem[h].root = Home THEN Session!Truncated ELSE cp[Home]
         /\ UNCHANGED <<clock, updated, shown, sspoiled>>
<1>1. /\ spc[h] = "open" /\ cp' = [cp EXCEPT ![smem[h].root] = Session!Truncated] /\ spc' = [spc EXCEPT ![h] = "write"]
      /\ UNCHANGED <<clock, updated, shown, smem, sspoiled>>
  BY DEF Session!OpenFile, Session!Goto, Session!store
<1>2. smem[h].root \in Roots /\ "tool" \in Session!Hooks
  BY DEF SessionTypeInv, SessionWorks, Session!Hooks
<1> QED BY <1>1, <1>2, FreshIs DEF SessionTypeInv, Session!HomeAssumption

LEMMA WriteTypes ==
  ASSUME SessionTypeInv, Session!HomeAssumption, NEW h \in Session!Hooks, Session!WriteFile(h)
  PROVE  /\ SessionTypeInv' /\ spc[h] = "write" /\ spc'[h] = (IF h = "tool" THEN "idle" ELSE "emit")
         /\ h # "tool" => smem'[h] = smem[h]
         /\ \A g \in Session!Hooks : g # h => spc'[g] = spc[g] /\ smem'[g] = smem[g]
         /\ cp'[Home] = IF smem[h].root = Home THEN smem[h].cp ELSE cp[Home]
         /\ UNCHANGED <<clock, updated, shown, sspoiled>>
<1>1. /\ spc[h] = "write" /\ cp' = [cp EXCEPT ![smem[h].root] = smem[h].cp]
      /\ IF h = "tool" THEN Session!End(h) ELSE Session!Goto(h, "emit") /\ UNCHANGED smem
      /\ UNCHANGED <<clock, updated, shown, sspoiled>>
  BY DEF Session!WriteFile, Session!store
<1>2. smem[h].root \in Roots /\ smem[h].cp \in SessionCheckpoints
  BY DEF SessionTypeInv, SessionWorks
<1>3. /\ spc' \in [Session!Hooks -> {"idle", "open", "write", "emit"}] /\ smem' \in [Session!Hooks -> SessionWorks]
      /\ h # "tool" => smem'[h] = smem[h]
      /\ \A g \in Session!Hooks : g # h => spc'[g] = spc[g] /\ smem'[g] = smem[g]
      /\ spc'["tool"] # "emit"
      /\ \A g \in Session!Hooks : spc'[g] # "idle" /\ g # "prompt" => smem'[g].root = Home
  <2>1. CASE h = "tool"
    BY <1>1, <2>1, Going
  <2>2. CASE h # "tool"
    BY <1>1, <2>2, Going
  <2> QED BY <2>1, <2>2
<1>4. spc'[h] = IF h = "tool" THEN "idle" ELSE "emit"
  BY <1>1 DEF Session!End, Session!Goto, SessionTypeInv
<1> QED BY <1>1, <1>2, <1>3, <1>4 DEF SessionTypeInv, Session!HomeAssumption

LEMMA FailTypes ==
  ASSUME SessionTypeInv, Session!HomeAssumption, NEW h \in Session!Hooks, Session!SaveFails(h)
  PROVE  /\ SessionTypeInv' /\ spc[h] = "open" /\ spc'[h] = (IF h = "tool" THEN "idle" ELSE "emit")
         /\ h # "tool" => smem'[h] = smem[h]
         /\ \A g \in Session!Hooks : g # h => spc'[g] = spc[g] /\ smem'[g] = smem[g]
         /\ UNCHANGED <<clock, updated, cp, shown>>
         /\ sspoiled' \subseteq {"overlap"} => sspoiled \subseteq {"overlap"} /\ h \notin Session!Resets
<1>1. /\ spc[h] = "open" /\ (IF h = "tool" THEN Session!End(h) ELSE Session!Goto(h, "emit") /\ UNCHANGED smem)
      /\ sspoiled' = sspoiled \cup (IF h \in Session!Resets THEN {"unsaved"} ELSE {})
      /\ UNCHANGED <<clock, updated, cp, shown>>
  BY DEF Session!SaveFails, Session!store
<1>2. /\ spc' \in [Session!Hooks -> {"idle", "open", "write", "emit"}] /\ smem' \in [Session!Hooks -> SessionWorks]
      /\ h # "tool" => smem'[h] = smem[h]
      /\ \A g \in Session!Hooks : g # h => spc'[g] = spc[g] /\ smem'[g] = smem[g]
      /\ spc'["tool"] # "emit"
      /\ \A g \in Session!Hooks : spc'[g] # "idle" /\ g # "prompt" => smem'[g].root = Home
  <2>1. CASE h = "tool"
    BY <1>1, <2>1, Going
  <2>2. CASE h # "tool"
    BY <1>1, <2>2, Going
  <2> QED BY <2>1, <2>2
<1>3. spc'[h] = IF h = "tool" THEN "idle" ELSE "emit"
  BY <1>1 DEF Session!End, Session!Goto, SessionTypeInv
<1> QED BY <1>1, <1>2, <1>3 DEF SessionTypeInv

LEMMA CrashTypes ==
  ASSUME SessionTypeInv, Session!HomeAssumption, NEW h \in Session!Hooks, Session!Crash(h)
  PROVE  /\ SessionTypeInv' /\ spc[h] # "idle" /\ spc'[h] = "idle"
         /\ \A g \in Session!Hooks : g # h => spc'[g] = spc[g] /\ smem'[g] = smem[g]
         /\ UNCHANGED <<clock, updated, cp>>
         /\ shown' = IF h \in Session!Resets THEN [d \in Roots |-> Session!Nothing] ELSE shown
         /\ sspoiled' \subseteq {"overlap"} =>
              /\ sspoiled \subseteq {"overlap"}
              /\ ~(h \in Session!Resets /\ spc[h] = "open") /\ ~(h = "prompt" /\ spc[h] = "emit")
<1>1. /\ spc[h] # "idle" /\ Session!End(h) /\ UNCHANGED <<clock, updated, cp>>
      /\ shown' = IF h \in Session!Resets THEN [d \in Roots |-> Session!Nothing] ELSE shown
  BY DEF Session!Crash, Session!store
<1> DEFINE why == CASE h \in Session!Resets /\ spc[h] = "open" -> {"unsaved"}
                    [] h = "prompt" /\ spc[h] = "emit" -> {"unsent"}
                    [] OTHER -> {}
<1>2. sspoiled' = sspoiled \cup why
  BY DEF Session!Crash
<1>3. /\ h \in Session!Resets /\ spc[h] = "open" => why = {"unsaved"}
      /\ h = "prompt" /\ spc[h] = "emit" => why = {"unsent"}
  BY DEF Session!Resets
<1> HIDE DEF why
<1>4. /\ spc' \in [Session!Hooks -> {"idle", "open", "write", "emit"}] /\ smem' \in [Session!Hooks -> SessionWorks]
      /\ \A g \in Session!Hooks : g # h => spc'[g] = spc[g] /\ smem'[g] = smem[g]
      /\ spc'["tool"] # "emit"
      /\ \A g \in Session!Hooks : spc'[g] # "idle" /\ g # "prompt" => smem'[g].root = Home
  BY <1>1, Going
<1>5. spc'[h] = "idle" /\ shown' \in [Roots -> SessionStamps]
  BY <1>1, FreshIs DEF Session!End, Session!Goto, SessionTypeInv
<1> QED BY <1>1, <1>2, <1>3, <1>4, <1>5 DEF SessionTypeInv

LEMMA EmitTypes ==
  ASSUME SessionTypeInv, Session!HomeAssumption, NEW h \in Session!Hooks, Session!Emit(h)
  PROVE  /\ SessionTypeInv' /\ spc[h] = "emit" /\ h # "tool" /\ spc'[h] = "idle"
         /\ \A g \in Session!Hooks : g # h => spc'[g] = spc[g] /\ smem'[g] = smem[g]
         /\ UNCHANGED <<clock, updated, cp>>
         /\ h \in Session!Resets => shown' = [d \in Roots |-> Session!Nothing] /\ sspoiled' = sspoiled
         /\ h \notin Session!Resets /\ smem[h].root # Home => shown'[Home] = shown[Home]
         /\ sspoiled' \subseteq {"overlap"} => sspoiled \subseteq {"overlap"}
         /\ h \notin Session!Resets /\ smem[h].root = Home /\ sspoiled' \subseteq {"overlap"} =>
              shown'[Home] = WillShow(smem[h].text)
<1> DEFINE text == smem[h].text
           root == smem[h].root
           printed == Session!budgetAutomaticHookContext(text)
<1>1. /\ spc[h] = "emit" /\ Session!End(h) /\ UNCHANGED <<clock, updated, cp>>
      /\ IF h \in Session!Resets THEN shown' = [d \in Roots |-> Session!Nothing] /\ UNCHANGED sspoiled
         ELSE /\ shown' = [shown EXCEPT ![root] = [r \in Records |-> IF r \in printed THEN text[r] ELSE @[r]]]
              /\ sspoiled' = sspoiled \cup IF \E r \in Records \ printed : text[r] # 0 THEN {"clipped"} ELSE {}
  BY DEF Session!Emit, Session!store
<1>2. printed \subseteq {r \in Records : text[r] # 0}
  BY DEF Session!budgetAutomaticHookContext
<1>3. root \in Roots /\ text \in SessionStamps /\ shown \in [Roots -> SessionStamps]
  BY DEF SessionTypeInv, SessionWorks
<1> HIDE DEF printed, text, root
<1>4. /\ spc' \in [Session!Hooks -> {"idle", "open", "write", "emit"}] /\ smem' \in [Session!Hooks -> SessionWorks]
      /\ \A g \in Session!Hooks : g # h => spc'[g] = spc[g] /\ smem'[g] = smem[g]
      /\ spc'["tool"] # "emit"
      /\ \A g \in Session!Hooks : spc'[g] # "idle" /\ g # "prompt" => smem'[g].root = Home
  BY <1>1, Going
<1>5. spc'[h] = "idle" /\ h # "tool"
  BY <1>1 DEF Session!End, Session!Goto, SessionTypeInv
<1>6. CASE h \in Session!Resets
  BY <1>1, <1>4, <1>5, <1>6, FreshIs DEF SessionTypeInv
<1>7. CASE h \notin Session!Resets
  <2> DEFINE now == [r \in Records |-> IF r \in printed THEN text[r] ELSE shown[root][r]]
  <2>1. shown' = [shown EXCEPT ![root] = now] /\ now \in SessionStamps
    BY <1>1, <1>3, <1>7 DEF SessionStamps
  <2>2. shown' \in [Roots -> SessionStamps] /\ shown'[Home] = IF root = Home THEN now ELSE shown[Home]
    <3> HIDE DEF now
    <3> QED BY <2>1, <1>3 DEF Session!HomeAssumption
  <2>3. SessionTypeInv'
    BY <2>2, <1>1, <1>4, <1>5 DEF SessionTypeInv
  <2>4. ASSUME sspoiled' \subseteq {"overlap"}
        PROVE  sspoiled \subseteq {"overlap"} /\ \A r \in Records : text[r] # 0 => r \in printed
    BY <1>1, <1>7, <2>4
  <2>5. ASSUME sspoiled' \subseteq {"overlap"}, root = Home PROVE now = WillShow(text)
    BY <2>4, <2>5, <1>2 DEF WillShow
  <2> HIDE DEF now
  <2> QED BY <1>1, <1>4, <1>5, <1>7, <2>2, <2>3, <2>4, <2>5 DEF text, root
<1> QED BY <1>6, <1>7

LEMMA Numbers ==
  ASSUME SessionTypeInv, Session!HomeAssumption, NEW r \in Records, NEW h \in Session!Hooks
  PROVE  /\ cp[Home].seen[r] \in Nat /\ shown[Home][r] \in Nat /\ updated[Home][r] \in Nat
         /\ smem[h].cp.seen[r] \in Nat /\ smem[h].text[r] \in Nat
         /\ WillShow(smem[h].text)[r] \in Nat
<1>1. /\ cp[Home].seen \in SessionStamps /\ shown[Home] \in SessionStamps /\ updated[Home] \in SessionStamps
      /\ smem[h].cp.seen \in SessionStamps /\ smem[h].text \in SessionStamps
  BY DEF SessionTypeInv, Session!HomeAssumption, SessionWorks, SessionCheckpoints
<1> QED BY <1>1 DEF SessionStamps, WillShow

(* A step of the tool hook: what the file lists afterwards is what it      *)
(* listed, what the hook copied, or nothing.                               *)
LEMMA ToolKeeps ==
  ASSUME Session!HomeAssumption, SessionIInv, SessionTypeInv', spc["tool"] # "idle",
         UNCHANGED <<clock, updated, shown>>,
         \A g \in Session!Hooks : g # "tool" => spc'[g] = spc[g] /\ smem'[g] = smem[g],
         spc'["tool"] # "idle" => smem'["tool"] = smem["tool"],
         cp'[Home].seen \in {cp[Home].seen, smem["tool"].cp.seen, Session!Truncated.seen},
         sspoiled' \subseteq {"overlap"} => sspoiled \subseteq {"overlap"}
  PROVE  SessionIInv'
<1>1. ASSUME sspoiled' \subseteq {"overlap"} PROVE SessionHolds'
  <2>0. {"tool", "prompt"} \subseteq Session!Hooks /\ SessionTypeInv /\ SessionHolds
    BY <1>1 DEF Session!Hooks, SessionIInv
  <2>1. \A g \in Session!Resets : spc[g] = "idle"
    BY <2>0 DEF SessionHolds, ResetsAlone, Session!Resets, Session!Hooks
  <2>2. Old'
    BY <2>0 DEF SessionHolds, Old
  <2>3. ResetsAlone'
    BY <2>1 DEF ResetsAlone, Session!Resets, Session!Hooks
  <2>4. Promised' = Promised /\ AtHome' = AtHome /\ smem'["prompt"] = smem["prompt"]
    BY <2>0 DEF Promised, AtHome, WillShow
  <2>5. \A r \in Records : Promised[r] \in Nat
    BY <2>0, Numbers DEF Promised
  <2>6. Known(cp'[Home].seen, Promised)
    <3>1. \A r \in Records : Session!Truncated.seen[r] = 0
      BY FreshIs
    <3> QED BY <2>0, <2>5, <3>1 DEF SessionHolds, Lists, Known
  <2>7. Lists'
    <3>1. Known(cp[Home].seen, Promised)' /\ (spc'["tool"] # "idle" => Known(smem["tool"].cp.seen, Promised)')
      BY <2>0, <2>4, <2>6 DEF SessionHolds, Lists, Known
    <3>2. AtHome' => /\ Known(smem["prompt"].cp.seen, WillShow(smem["prompt"].text))'
                     /\ Known(shown[Home], WillShow(smem["prompt"].text))'
                     /\ Known(WillShow(smem["prompt"].text), updated[Home])'
      BY <2>0, <2>4 DEF SessionHolds, Lists, Known, WillShow
    <3> QED BY <3>1, <3>2 DEF Lists
  <2> QED BY <2>2, <2>3, <2>7 DEF SessionHolds
<1> QED BY <1>1 DEF SessionIInv

(* A step of a hook that resets: the others are at rest. *)
LEMMA BlankKeeps ==
  ASSUME Session!HomeAssumption, SessionIInv, SessionTypeInv', NEW h \in Session!Resets, spc[h] # "idle",
         UNCHANGED <<clock, updated>>,
         \A g \in Session!Hooks : g # h => spc'[g] = spc[g],
         spc'[h] # "idle" => smem'[h] = smem[h],
         shown'[Home] = shown[Home] \/ \A r \in Records : shown'[Home][r] = 0,
         sspoiled' \subseteq {"overlap"} => sspoiled \subseteq {"overlap"},
         sspoiled' \subseteq {"overlap"} /\ SessionHolds => Blank(cp'[Home])
  PROVE  SessionIInv'
<1>1. ASSUME sspoiled' \subseteq {"overlap"} PROVE SessionHolds'
  <2>0. {"tool", "prompt", h} \subseteq Session!Hooks /\ h \notin {"tool", "prompt"} /\ SessionTypeInv /\ SessionHolds
    BY <1>1 DEF Session!Hooks, SessionIInv, Session!Resets
  <2>1. (\A g \in Session!Hooks : g # h => spc'[g] = "idle") /\ Blank(smem[h].cp) /\ Blank(cp'[Home])
    BY <1>1, <2>0 DEF SessionHolds, ResetsAlone
  <2>2. Old'
    <3>1. \A r \in Records : 0 <= updated[Home][r]
      BY <2>0, Numbers
    <3> QED BY <2>0, <3>1 DEF SessionHolds, Old
  <2>3. ResetsAlone'
    <3>1. \A g \in Session!Resets : spc'[g] # "idle" => g = h
      BY <2>1 DEF Session!Resets, Session!Hooks
    <3> QED BY <2>1, <3>1 DEF ResetsAlone, Blank
  <2>4. Lists'
    <3>1. spc'["tool"] = "idle" /\ ~AtHome'
      BY <2>0, <2>1 DEF AtHome
    <3>2. \A r \in Records : 0 <= shown'[Home][r]
      BY <2>0, Numbers
    <3>3. Known(cp[Home].seen, Promised)'
      BY <2>1, <3>1, <3>2 DEF Known, Promised, Blank
    <3> QED BY <3>1, <3>3 DEF Lists
  <2> QED BY <2>2, <2>3, <2>4 DEF SessionHolds
<1> QED BY <1>1 DEF SessionIInv

(* A step of the prompt hook: what it copied is listed when it is about to *)
(* print, and is shown when it has printed.                                *)
LEMMA PromptGoesOn ==
  ASSUME Session!HomeAssumption, SessionIInv, SessionTypeInv', spc["prompt"] # "idle",
         UNCHANGED <<clock, updated>>,
         \A g \in Session!Hooks : g # "prompt" => spc'[g] = spc[g] /\ smem'[g] = smem[g],
         spc'["prompt"] # "idle" => smem'["prompt"] = smem["prompt"],
         cp'[Home].seen = cp[Home].seen \/ (\A r \in Records : cp'[Home].seen[r] = 0)
           \/ (AtHome /\ cp'[Home].seen = smem["prompt"].cp.seen /\ spc'["prompt"] = "emit"),
         sspoiled' \subseteq {"overlap"} =>
           /\ sspoiled \subseteq {"overlap"}
           /\ shown'[Home] = IF AtHome /\ spc["prompt"] = "emit" THEN WillShow(smem["prompt"].text) ELSE shown[Home]
           /\ spc["prompt"] = "emit" => spc'["prompt"] = "idle"
  PROVE  SessionIInv'
<1>1. ASSUME sspoiled' \subseteq {"overlap"} PROVE SessionHolds'
  <2>0. {"tool", "prompt"} \subseteq Session!Hooks /\ SessionTypeInv /\ SessionHolds
    BY <1>1 DEF Session!Hooks, SessionIInv
  <2>1. \A g \in Session!Resets : spc[g] = "idle"
    BY <2>0 DEF SessionHolds, ResetsAlone, Session!Resets, Session!Hooks
  <2>2. ResetsAlone'
    BY <2>1 DEF ResetsAlone, Session!Resets, Session!Hooks
  <2>3. \A r \in Records :
          /\ shown[Home][r] \in Nat /\ WillShow(smem["prompt"].text)[r] \in Nat /\ updated[Home][r] \in Nat
          /\ cp[Home].seen[r] \in Nat /\ smem["prompt"].cp.seen[r] \in Nat /\ smem["tool"].cp.seen[r] \in Nat
    BY <2>0, Numbers
  <2>4. shown'[Home] = Promised
    BY <1>1 DEF Promised
  <2>5. Old'
    <3>1. \A r \in Records : Promised[r] <= updated[Home][r]
      BY <2>0 DEF Promised, SessionHolds, Lists, Known, Old
    <3> QED BY <2>0, <2>4, <3>1 DEF SessionHolds, Old
  <2>6. AtHome' => AtHome /\ smem'["prompt"] = smem["prompt"] /\ Promised = shown[Home] /\ shown'[Home] = shown[Home]
    BY <1>1 DEF AtHome, Promised
  <2>7. Promised' = IF AtHome /\ spc'["prompt"] = "emit" THEN WillShow(smem["prompt"].text) ELSE Promised
    BY <1>1, <2>4, <2>6 DEF Promised, AtHome, WillShow
  <2>8. \A r \in Records : Promised[r] <= Promised'[r] /\ Promised[r] \in Nat /\ Promised'[r] \in Nat
    <3>1. CASE AtHome /\ spc'["prompt"] = "emit"
      <4>1. Promised = shown[Home]
        BY <1>1, <3>1 DEF Promised
      <4> QED BY <2>0, <2>3, <2>7, <3>1, <4>1 DEF SessionHolds, Lists, Known
    <3>2. CASE ~(AtHome /\ spc'["prompt"] = "emit")
      BY <2>3, <2>7, <3>2 DEF Promised
    <3> QED BY <3>1, <3>2
  <2>9. Known(cp'[Home].seen, Promised')
    <3>1. CASE cp'[Home].seen = cp[Home].seen
      BY <2>0, <2>3, <2>8, <3>1 DEF SessionHolds, Lists, Known
    <3>2. CASE \A r \in Records : cp'[Home].seen[r] = 0
      BY <2>8, <3>2 DEF Known
    <3>3. CASE AtHome /\ cp'[Home].seen = smem["prompt"].cp.seen /\ spc'["prompt"] = "emit"
      BY <2>0, <2>7, <3>3 DEF SessionHolds, Lists
    <3> QED BY <3>1, <3>2, <3>3
  <2>10. spc'["tool"] # "idle" => Known(smem'["tool"].cp.seen, Promised')
    BY <2>0, <2>3, <2>8 DEF SessionHolds, Lists, Known
  <2>11. AtHome' => /\ Known(smem["prompt"].cp.seen, WillShow(smem["prompt"].text))'
                    /\ Known(shown[Home], WillShow(smem["prompt"].text))'
                    /\ Known(WillShow(smem["prompt"].text), updated[Home])'
    BY <2>0, <2>6 DEF SessionHolds, Lists, Known, WillShow
  <2>12. Lists'
    BY <2>9, <2>10, <2>11 DEF Lists, Known
  <2> QED BY <2>2, <2>5, <2>12 DEF SessionHolds
<1> QED BY <1>1 DEF SessionIInv

LEMMA HookKeeps ==
  ASSUME Session!HomeAssumption, SessionIInv, NEW h \in Session!Hooks,
         Session!OpenFile(h) \/ Session!WriteFile(h) \/ Session!Emit(h) \/ Session!SaveFails(h) \/ Session!Crash(h)
  PROVE  SessionIInv'
<1>t. SessionTypeInv /\ \A r \in Records : Session!Truncated.seen[r] = 0
  BY FreshIs DEF SessionIInv
<1>h. h = "tool" \/ h = "prompt" \/ h \in Session!Resets
  BY DEF Session!Hooks, Session!Resets
<1>r. /\ "tool" \notin Session!Resets /\ "prompt" \notin Session!Resets /\ "prompt" \in Session!Hooks /\ "tool" \in Session!Hooks
      /\ spc[h] # "idle" /\ h # "prompt" => smem[h].root = Home
  BY <1>t DEF Session!Hooks, Session!Resets, SessionTypeInv
<1>0. ASSUME h \in Session!Resets, shown' = [d \in Roots |-> Session!Nothing]
      PROVE  \A r \in Records : shown'[Home][r] = 0
  BY <1>0, FreshIs DEF Session!HomeAssumption
<1>1. CASE Session!OpenFile(h)
  <2>1. /\ SessionTypeInv' /\ spc[h] = "open" /\ spc'[h] = "write" /\ smem' = smem
        /\ \A g \in Session!Hooks : g # h => spc'[g] = spc[g]
        /\ cp'[Home] = IF smem[h].root = Home THEN Session!Truncated ELSE cp[Home]
        /\ UNCHANGED <<clock, updated, shown, sspoiled>>
    BY <1>1, <1>t, OpenTypes
  <2>2. CASE h = "tool"
    BY <1>t, <1>r, <2>1, <2>2, ToolKeeps
  <2>3. CASE h = "prompt"
    BY <1>t, <1>r, <2>1, <2>3, PromptGoesOn
  <2>4. CASE h \in Session!Resets
    <3>1. Blank(cp'[Home])
      BY <1>t, <1>r, <2>1, <2>4 DEF Blank
    <3> QED BY <2>1, <2>4, <3>1, BlankKeeps
  <2> QED BY <1>h, <2>2, <2>3, <2>4
<1>2. CASE Session!WriteFile(h)
  <2>1. /\ SessionTypeInv' /\ spc[h] = "write" /\ spc'[h] = (IF h = "tool" THEN "idle" ELSE "emit")
        /\ h # "tool" => smem'[h] = smem[h]
        /\ \A g \in Session!Hooks : g # h => spc'[g] = spc[g] /\ smem'[g] = smem[g]
        /\ cp'[Home] = IF smem[h].root = Home THEN smem[h].cp ELSE cp[Home]
        /\ UNCHANGED <<clock, updated, shown, sspoiled>>
    BY <1>2, <1>t, WriteTypes
  <2>2. CASE h = "tool"
    BY <1>t, <1>r, <2>1, <2>2, ToolKeeps
  <2>3. CASE h = "prompt"
    BY <1>t, <1>r, <2>1, <2>3, PromptGoesOn DEF AtHome
  <2>4. CASE h \in Session!Resets
    <3>1. SessionHolds => Blank(cp'[Home])
      BY <1>r, <2>1, <2>4 DEF Blank, SessionHolds, ResetsAlone
    <3> QED BY <1>r, <2>1, <2>4, <3>1, BlankKeeps
  <2> QED BY <1>h, <2>2, <2>3, <2>4
<1>3. CASE Session!SaveFails(h)
  <2>1. /\ SessionTypeInv' /\ spc[h] = "open" /\ spc'[h] = (IF h = "tool" THEN "idle" ELSE "emit")
        /\ h # "tool" => smem'[h] = smem[h]
        /\ \A g \in Session!Hooks : g # h => spc'[g] = spc[g] /\ smem'[g] = smem[g]
        /\ UNCHANGED <<clock, updated, cp, shown>>
        /\ sspoiled' \subseteq {"overlap"} => sspoiled \subseteq {"overlap"} /\ h \notin Session!Resets
    BY <1>3, <1>t, FailTypes
  <2>2. CASE h = "tool"
    BY <1>t, <1>r, <2>1, <2>2, ToolKeeps
  <2>3. CASE h = "prompt"
    BY <1>t, <1>r, <2>1, <2>3, PromptGoesOn
  <2>4. CASE h \in Session!Resets
    BY <2>1, <2>4 DEF SessionIInv
  <2> QED BY <1>h, <2>2, <2>3, <2>4
<1>4. CASE Session!Emit(h)
  <2>1. /\ SessionTypeInv' /\ spc[h] = "emit" /\ h # "tool" /\ spc'[h] = "idle"
        /\ \A g \in Session!Hooks : g # h => spc'[g] = spc[g] /\ smem'[g] = smem[g]
        /\ UNCHANGED <<clock, updated, cp>>
        /\ h \in Session!Resets => shown' = [d \in Roots |-> Session!Nothing] /\ sspoiled' = sspoiled
        /\ h \notin Session!Resets /\ smem[h].root # Home => shown'[Home] = shown[Home]
        /\ sspoiled' \subseteq {"overlap"} => sspoiled \subseteq {"overlap"}
        /\ h \notin Session!Resets /\ smem[h].root = Home /\ sspoiled' \subseteq {"overlap"} =>
             shown'[Home] = WillShow(smem[h].text)
    BY <1>4, <1>t, EmitTypes
  <2>3. CASE h = "prompt"
    BY <1>t, <1>r, <2>1, <2>3, PromptGoesOn DEF AtHome
  <2>4. CASE h \in Session!Resets
    <3>1. SessionHolds => Blank(cp'[Home])
      BY <2>1, <2>4 DEF Blank, SessionHolds, ResetsAlone
    <3> QED BY <1>0, <2>1, <2>4, <3>1, BlankKeeps
  <2> QED BY <1>h, <2>1, <2>3, <2>4
<1>5. CASE Session!Crash(h)
  <2>1. /\ SessionTypeInv' /\ spc[h] # "idle" /\ spc'[h] = "idle"
        /\ \A g \in Session!Hooks : g # h => spc'[g] = spc[g] /\ smem'[g] = smem[g]
        /\ UNCHANGED <<clock, updated, cp>>
        /\ shown' = IF h \in Session!Resets THEN [d \in Roots |-> Session!Nothing] ELSE shown
        /\ sspoiled' \subseteq {"overlap"} =>
             /\ sspoiled \subseteq {"overlap"}
             /\ ~(h \in Session!Resets /\ spc[h] = "open") /\ ~(h = "prompt" /\ spc[h] = "emit")
    BY <1>5, <1>t, CrashTypes
  <2>2. CASE h = "tool"
    BY <1>t, <1>r, <2>1, <2>2, ToolKeeps
  <2>3. CASE h = "prompt"
    BY <1>t, <1>r, <2>1, <2>3, PromptGoesOn
  <2>4. CASE h \in Session!Resets
    <3>1. sspoiled' \subseteq {"overlap"} /\ SessionHolds => Blank(cp'[Home])
      BY <1>t, <2>1, <2>4 DEF Blank, SessionHolds, ResetsAlone, SessionTypeInv
    <3> QED BY <1>0, <2>1, <2>4, <3>1, BlankKeeps
  <2> QED BY <1>h, <2>2, <2>3, <2>4
<1> QED BY <1>1, <1>2, <1>3, <1>4, <1>5

LEMMA SessionInvNext == Session!HomeAssumption /\ SessionIInv /\ [Session!Next]_(Session!vars) => SessionIInv'
<1> SUFFICES ASSUME Session!HomeAssumption, SessionIInv, [Session!Next]_(Session!vars) PROVE SessionIInv'
  OBVIOUS
<1>1. CASE UNCHANGED Session!vars
  BY <1>1 DEF Session!vars, Session!store, SessionIInv, SessionTypeInv, SessionHolds, Lists, Old, ResetsAlone, AtHome, Promised, WillShow, Known, Blank
<1>2. CASE Session!SessionStart \/ Session!PreCompact
  BY <1>2, ResetKeeps
<1>3. ASSUME NEW d \in Roots, NEW r \in Records, Session!StoreCommit(d, r) PROVE SessionIInv'
  BY <1>3, CommitKeeps
<1>4. ASSUME NEW d \in Roots, Session!UserPromptSubmit(d) PROVE SessionIInv'
  BY <1>4, PromptKeeps
<1>5. ASSUME NEW repo \in Repos, Session!AutoFocus(repo) PROVE SessionIInv'
  BY <1>5, FocusKeeps
<1>6. ASSUME NEW h \in Session!Hooks, Session!OpenFile(h) \/ Session!WriteFile(h) \/ Session!Emit(h) \/ Session!SaveFails(h) \/ Session!Crash(h) PROVE SessionIInv'
  BY <1>6, HookKeeps
<1> QED BY <1>1, <1>2, <1>3, <1>4, <1>5, <1>6 DEF Session!Next

LEMMA SafeContext == Session!HomeAssumption /\ SessionIInv => Session!SuppressedWasShown
<1> SUFFICES ASSUME Session!HomeAssumption, SessionIInv, Session!Settled, sspoiled \subseteq {"overlap"},
                    NEW r \in Records, updated[Home][r] # 0, Session!Load(Home).seen[r] = updated[Home][r]
             PROVE  shown[Home][r] = updated[Home][r]
  BY DEF Session!SuppressedWasShown, Session!InContext, Session!Listed
<1>1. SessionTypeInv /\ SessionHolds /\ spc["prompt"] = "idle" /\ "prompt" \in Session!Hooks
  BY DEF SessionIInv, Session!Settled, Session!Hooks
<1>2. Session!Load(Home).seen[r] = cp[Home].seen[r]
  BY <1>1, Loaded DEF Session!HomeAssumption
<1>3. cp[Home].seen[r] <= shown[Home][r] /\ shown[Home][r] <= updated[Home][r]
  BY <1>1 DEF SessionHolds, Lists, Old, Known, Promised, AtHome
<1>4. shown[Home][r] \in Nat /\ updated[Home][r] \in Nat
  BY <1>1, Numbers
<1> QED BY <1>2, <1>3, <1>4

-----------------------------------------------------------------------------
(* Reconciliation.  An old issue is in the checkpoint or will be found, and *)
(* nobody passes against one.                                              *)

Checkpoint == [state : {"none", "cut", "whole"}, found : SUBSET Subjects, age : {0, 1}]
ReconcileTypeInv ==
  /\ issues \subseteq Subjects /\ known \subseteq issues
  /\ file \in Checkpoint /\ tmp \in Checkpoint
  /\ rpc \in [Processes -> {"idle", "open", "write", "remove", "rename"}]
  /\ rmem \in [Processes -> [target : Subjects \cup {"none"}, cp : Checkpoint]]
  /\ rspoiled \in BOOLEAN

(* Processes take turns. *)
ReconcileAlone == \A p, q \in Processes : rpc[p] # "idle" /\ rpc[q] # "idle" => p = q
(* A checkpoint that is used, and a scan under way, has the known issues.  *)
HasKnown(c, k) == c.state = "whole" /\ c.age = 0 /\ k \subseteq c.found
FileHas == Reconcile!Usable(file) => HasKnown(file, known)
ScanHas == \A p \in Processes : rpc[p] # "idle" => HasKnown(rmem[p].cp, known)
(* What is about to be renamed is the scan of the process that renames it. *)
TmpIsScan == \A p \in Processes : rpc[p] \in {"remove", "rename"} => tmp = rmem[p].cp

Blocked == ReconcileAlone /\ FileHas /\ ScanHas /\ TmpIsScan /\ passed = {}
ReconcileIInv == ReconcileTypeInv /\ (~rspoiled => Blocked)

LEMMA ReconcileCheckpoints ==
  /\ Reconcile!None \in Checkpoint /\ Reconcile!None.state = "none"
  /\ Reconcile!Cut \in Checkpoint /\ Reconcile!Cut.state = "cut"
BY DEF Checkpoint, Reconcile!None, Reconcile!Cut

LEMMA ReconcileInitInv == Reconcile!Init => ReconcileIInv
<1> SUFFICES ASSUME Reconcile!Init PROVE ReconcileIInv
  OBVIOUS
<1>1. Reconcile!NoWork \in [target : Subjects \cup {"none"}, cp : Checkpoint]
  BY ReconcileCheckpoints DEF Reconcile!NoWork
<1>2. ReconcileTypeInv
  BY <1>1, ReconcileCheckpoints DEF Reconcile!Init, ReconcileTypeInv
<1>3. Blocked
  BY ReconcileCheckpoints DEF Reconcile!Init, Blocked, ReconcileAlone, FileHas, ScanHas, TmpIsScan, Reconcile!Usable
<1> QED BY <1>2, <1>3 DEF ReconcileIInv

(* A call whose target is known and not among the issues it was given. *)
LEMMA JudgedWell ==
  ASSUME NEW target, NEW c, HasKnown(c, known), Reconcile!Judge(target, c.found), passed = {}
  PROVE  passed' = {}
BY DEF HasKnown, Reconcile!Judge

LEMMA StoreKeeps ==
  ASSUME ReconcileIInv, NEW r \in Subjects, Reconcile!IssueRises(r) \/ Reconcile!IssueSettled(r)
  PROVE  ReconcileIInv'
<1>1. /\ issues' \subseteq Subjects /\ known' \subseteq issues' /\ known' \subseteq known
      /\ UNCHANGED <<file, tmp, rpc, rmem, passed, rspoiled>>
  BY DEF Reconcile!IssueRises, Reconcile!IssueSettled, Reconcile!disk, ReconcileIInv, ReconcileTypeInv
<1> QED BY <1>1 DEF ReconcileIInv, ReconcileTypeInv, Blocked, ReconcileAlone, FileHas, ScanHas, TmpIsScan, Reconcile!Usable, HasKnown

LEMMA CadenceKeeps ==
  ASSUME ReconcileIInv, Reconcile!CadencePasses
  PROVE  ReconcileIInv'
<1>1. /\ \A p \in Processes : rpc[p] = "idle"
      /\ known' = issues
      /\ file' = IF file.state = "whole" THEN [file EXCEPT !.age = 1] ELSE file
      /\ UNCHANGED <<issues, tmp, rpc, rmem, passed, rspoiled>>
  BY DEF Reconcile!CadencePasses
<1>2. file' \in Checkpoint /\ ~Reconcile!Usable(file')
  BY <1>1 DEF ReconcileIInv, ReconcileTypeInv, Checkpoint, Reconcile!Usable
<1> QED BY <1>1, <1>2 DEF ReconcileIInv, ReconcileTypeInv, Blocked, ReconcileAlone, FileHas, ScanHas, TmpIsScan, Reconcile!Usable

LEMMA ReconcileRefreshKeeps ==
  ASSUME ReconcileIInv, NEW p \in Processes, NEW target \in Subjects \cup {"none"}, Reconcile!refreshReconciliation(p, target)
  PROVE  ReconcileIInv'
<1> DEFINE scan == [state |-> "whole", found |-> issues, age |-> 0]
<1>1. /\ rpc[p] = "idle" /\ rspoiled' = (rspoiled \/ \E q \in Processes : rpc[q] # "idle")
      /\ UNCHANGED <<issues, known, file, tmp>>
  BY DEF Reconcile!refreshReconciliation, Reconcile!rec, Reconcile!disk
<1>2. scan \in Checkpoint /\ HasKnown(scan, known)
  BY DEF Checkpoint, ReconcileIInv, ReconcileTypeInv, HasKnown
<1>3. CASE Reconcile!Usable(file) /\ target # "none"
  <2>1. Reconcile!Judge(target, file.found) /\ UNCHANGED <<rpc, rmem>>
    BY <1>3 DEF Reconcile!refreshReconciliation
  <2>2. ReconcileTypeInv'
    BY <1>1, <2>1 DEF ReconcileIInv, ReconcileTypeInv
  <2>3. ASSUME ~rspoiled' PROVE Blocked'
    <3>1. Blocked
      BY <1>1, <2>3 DEF ReconcileIInv
    <3>2. passed' = {}
      BY <1>3, <2>1, <3>1, JudgedWell DEF Blocked, FileHas
    <3> QED BY <1>1, <2>1, <3>1, <3>2 DEF Blocked, ReconcileAlone, FileHas, ScanHas, TmpIsScan, Reconcile!Usable
  <2> QED BY <2>2, <2>3 DEF ReconcileIInv
<1>4. CASE ~(Reconcile!Usable(file) /\ target # "none")
  <2>1. /\ rmem' = [rmem EXCEPT ![p] = [target |-> target, cp |-> scan]]
        /\ rpc' = [rpc EXCEPT ![p] = "open"] /\ passed' = passed
    BY <1>4 DEF Reconcile!refreshReconciliation, Reconcile!Goto
  <2> HIDE DEF scan
  <2>2. ReconcileTypeInv'
    BY <1>1, <1>2, <2>1 DEF ReconcileIInv, ReconcileTypeInv
  <2>3. ASSUME ~rspoiled' PROVE Blocked'
    <3>1. Blocked /\ \A q \in Processes : rpc[q] = "idle"
      BY <1>1, <2>3 DEF ReconcileIInv
    <3>2. \A q \in Processes : /\ rpc'[q] = IF q = p THEN "open" ELSE "idle"
                           /\ rmem'[p].cp = scan
      BY <2>1, <3>1 DEF ReconcileIInv, ReconcileTypeInv
    <3> QED BY <1>1, <1>2, <2>1, <3>1, <3>2 DEF Blocked, ReconcileAlone, FileHas, ScanHas, TmpIsScan, Reconcile!Usable
  <2> QED BY <2>2, <2>3 DEF ReconcileIInv
<1> QED BY <1>3, <1>4

(* A process goes on: it alone is at work, with its scan. *)
LEMMA ReconcileGoesOn ==
  ASSUME ReconcileIInv, NEW p \in Processes, rpc[p] # "idle", NEW l \in {"idle", "open", "write", "remove", "rename"},
         rpc' = [rpc EXCEPT ![p] = l], UNCHANGED <<issues, known, rspoiled>>,
         rmem' = rmem \/ (l = "idle" /\ rmem' = [rmem EXCEPT ![p] = Reconcile!NoWork]),
         file' \in Checkpoint, tmp' \in Checkpoint,
         ~rspoiled => passed' = passed /\ FileHas' /\ (l \in {"remove", "rename"} => tmp' = rmem[p].cp)
  PROVE  ReconcileIInv'
<1>1. Reconcile!NoWork \in [target : Subjects \cup {"none"}, cp : Checkpoint]
  BY ReconcileCheckpoints DEF Reconcile!NoWork
<1>2. ReconcileTypeInv'
  BY <1>1 DEF ReconcileIInv, ReconcileTypeInv
<1>3. ASSUME ~rspoiled' PROVE Blocked'
  <2>1. Blocked /\ \A q \in Processes : q # p => rpc[q] = "idle"
    BY <1>3 DEF ReconcileIInv, Blocked, ReconcileAlone
  <2>2. \A q \in Processes : rpc'[q] = IF q = p THEN l ELSE "idle"
    BY <2>1 DEF ReconcileIInv, ReconcileTypeInv
  <2>3. l # "idle" => rmem' = rmem
    BY DEF ReconcileIInv
  <2>4. passed' = {} /\ ReconcileAlone' /\ FileHas'
    BY <1>3, <2>1, <2>2 DEF Blocked, ReconcileAlone
  <2>5. ScanHas' /\ TmpIsScan'
    BY <1>3, <2>1, <2>2, <2>3 DEF Blocked, ScanHas, TmpIsScan
  <2> QED BY <2>4, <2>5 DEF Blocked
<1> QED BY <1>2, <1>3 DEF ReconcileIInv

LEMMA StepKeeps ==
  ASSUME ReconcileIInv, NEW p \in Processes,
         Reconcile!OpenTmp(p) \/ Reconcile!WriteTmp(p) \/ Reconcile!RemoveFile(p) \/ Reconcile!RenameTmp(p) \/ Reconcile!Killed(p)
  PROVE  ReconcileIInv'
<1>0. /\ rpc[p] # "idle" /\ UNCHANGED <<issues, known, rspoiled>>
      /\ file \in Checkpoint /\ tmp \in Checkpoint /\ rmem[p].cp \in Checkpoint
  BY DEF Reconcile!OpenTmp, Reconcile!WriteTmp, Reconcile!RemoveFile, Reconcile!RenameTmp, Reconcile!Killed, Reconcile!rec, Reconcile!bounds, ReconcileIInv, ReconcileTypeInv
<1>1. ASSUME UNCHANGED <<file, known>>, ~rspoiled PROVE FileHas'
  BY <1>1 DEF ReconcileIInv, Blocked, FileHas
<1>2. CASE Reconcile!OpenTmp(p)
  BY <1>0, <1>1, <1>2, ReconcileGoesOn, ReconcileCheckpoints DEF Reconcile!OpenTmp, Reconcile!Goto
<1>3. CASE Reconcile!WriteTmp(p)
  BY <1>0, <1>1, <1>3, ReconcileGoesOn DEF Reconcile!WriteTmp, Reconcile!Goto
<1>4. CASE Reconcile!RemoveFile(p)
  <2>1. file' = Reconcile!None /\ FileHas'
    BY <1>4, ReconcileCheckpoints DEF Reconcile!RemoveFile, FileHas, Reconcile!Usable
  <2>2. ~rspoiled => tmp' = rmem[p].cp
    BY <1>4 DEF Reconcile!RemoveFile, ReconcileIInv, Blocked, TmpIsScan
  <2> QED BY <1>0, <1>4, <2>1, <2>2, ReconcileGoesOn, ReconcileCheckpoints DEF Reconcile!RemoveFile, Reconcile!Goto
<1>5. CASE Reconcile!RenameTmp(p)
  <2>1. /\ rpc' = [rpc EXCEPT ![p] = "idle"] /\ rmem' = [rmem EXCEPT ![p] = Reconcile!NoWork] /\ rpc[p] = "rename"
        /\ file' = IF tmp = Reconcile!None THEN file ELSE tmp
        /\ tmp' = Reconcile!None
        /\ Reconcile!Judge(rmem[p].target, IF tmp = Reconcile!None THEN {} ELSE rmem[p].cp.found)
    BY <1>5 DEF Reconcile!RenameTmp, Reconcile!End, Reconcile!Goto
  <2>2. ASSUME ~rspoiled PROVE passed' = passed /\ FileHas'
    <3>1. Blocked /\ tmp = rmem[p].cp /\ HasKnown(tmp, known) /\ tmp # Reconcile!None
      BY <1>0, <2>1, <2>2, ReconcileCheckpoints DEF ReconcileIInv, Blocked, TmpIsScan, ScanHas, HasKnown
    <3>2. passed' = passed
      BY <2>1, <3>1, JudgedWell DEF Blocked
    <3> QED BY <1>0, <2>1, <3>1, <3>2 DEF FileHas
  <2> QED BY <1>0, <2>1, <2>2, ReconcileGoesOn, ReconcileCheckpoints
<1>6. CASE Reconcile!Killed(p)
  BY <1>0, <1>1, <1>6, ReconcileGoesOn DEF Reconcile!Killed, Reconcile!End, Reconcile!Goto, Reconcile!disk
<1> QED BY <1>2, <1>3, <1>4, <1>5, <1>6

LEMMA FailureKeeps ==
  ASSUME ReconcileIInv, NEW p \in Processes, Reconcile!StepFails(p)
  PROVE  ReconcileIInv'
BY ReconcileCheckpoints DEF Reconcile!StepFails, Reconcile!End, Reconcile!Goto, Reconcile!rec, ReconcileIInv, ReconcileTypeInv, Reconcile!NoWork

LEMMA ReconcileInvNext == ReconcileIInv /\ [Reconcile!Next]_(Reconcile!vars) => ReconcileIInv'
<1> SUFFICES ASSUME ReconcileIInv, [Reconcile!Next]_(Reconcile!vars) PROVE ReconcileIInv'
  OBVIOUS
<1>1. CASE UNCHANGED Reconcile!vars
  BY <1>1 DEF Reconcile!vars, Reconcile!rec, Reconcile!disk, Reconcile!bounds, ReconcileIInv, ReconcileTypeInv, Blocked, ReconcileAlone, FileHas, ScanHas, TmpIsScan, Reconcile!Usable
<1>2. CASE Reconcile!Next
  BY <1>2, StoreKeeps, CadenceKeeps, ReconcileRefreshKeeps, StepKeeps, FailureKeeps DEF Reconcile!Next
<1> QED BY <1>1, <1>2

-----------------------------------------------------------------------------
(* The model catalog.  A process carries the catalog with the answers it   *)
(* has heard so far, and a merge keeps what is not answered.               *)

Profile ==
  [provider : Catalog!Providers, model : Catalog!Models, native : Catalog!Natives,
   quality : Nat, cost : Nat, usable : BOOLEAN]
Places == {"idle", "codex", "claude", "save", "find", "open", "write"}
Catalogs == [state : {"none", "whole", "broken"}, profiles : SUBSET Profile, old : BOOLEAN]
Configs == [state : {"whole", "cut"}, model : Catalog!Models \cup {""}, native : Catalog!Natives \cup {""}, others : BOOLEAN]
CatalogWorks ==
  [profiles : SUBSET Profile, heard : SUBSET Profiles, asked : SUBSET Catalog!Providers, pick : SUBSET Configs]
CatalogTypeInv ==
  /\ catalog \in Catalogs /\ config \in Configs
  /\ cpc \in [Catalog!Procs -> Places] /\ cmem \in [Catalog!Procs -> CatalogWorks]
  /\ reported \subseteq Profiles

(* A catalog has one profile of a key; it says what was reported, and the  *)
(* qualities that were set are in it.                                      *)
Distinct(profiles) == \A p, q \in profiles : Catalog!Key(p) = Catalog!Key(q) => p = q
Says(profiles, heard) ==
  \A x \in Profile : (\E p \in profiles : p.usable /\ Catalog!Key(p) = Catalog!Key(x)) <=> (\E q \in heard : Catalog!Key(q) = Catalog!Key(x))
KeepsIts(profiles, quality) ==
  \A k \in quality : \E p \in profiles : Catalog!Key(p) = k /\ p.quality = 2
Good(profiles, heard, quality) ==
  Distinct(profiles) /\ Says(profiles, heard) /\ KeepsIts(profiles, quality)

(* What a process at work has in its copy: the catalog, and what it heard  *)
(* from those it has asked.                                                *)
Carries(copy, place) ==
  place \in {"codex", "claude", "save"} =>
    /\ Good(copy.profiles, {q \in reported : q.provider \notin copy.asked} \cup copy.heard, curated)
    /\ \A q \in copy.heard : q.provider \in copy.asked
    /\ place = "codex" => copy.asked = {}
    /\ place = "claude" => copy.asked \subseteq {"codex"}
Resting(p) == \A q \in Catalog!Procs \ {p} : cpc[q] = "idle"
CatalogHolds ==
  /\ \A p \in Catalog!Procs : cpc[p] # "idle" => Resting(p)
  /\ catalog.state # "broken" /\ (catalog.state = "none" => catalog.profiles = {})
  /\ Good(catalog.profiles, reported, curated)
  /\ \A p \in Catalog!Procs : Carries(cmem[p], cpc[p])

CatalogIInv == CatalogTypeInv /\ (cspoiled \subseteq {"cut"} => CatalogHolds)

LEMMA ProfilesAre ==
  ASSUME Catalog!ProfilesAssumption
  PROVE  /\ Profiles \subseteq Profile
         /\ \A p, q \in Profiles : Catalog!Key(p) = Catalog!Key(q) => p = q
BY DEF Catalog!ProfilesAssumption, Profile

LEMMA SameKey ==
  ASSUME NEW p \in Profile, NEW q \in Profile
  PROVE  Catalog!Key(p) = Catalog!Key(q) <=> p.provider = q.provider /\ p.model = q.model /\ p.native = q.native
BY DEF Catalog!Key

(* What happens to a profile: it is reported again, not any more, curated. *)
LEMMA Reported ==
  ASSUME NEW p \in Profile, NEW quality \in Nat
  PROVE  LET r == [p EXCEPT !.quality = quality, !.usable = TRUE] IN
         /\ r \in Profile /\ Catalog!Key(r) = Catalog!Key(p) /\ r.provider = p.provider
         /\ r.usable = TRUE /\ r.quality = quality
BY DEF Profile, Catalog!Key

LEMMA Retired ==
  ASSUME NEW p \in Profile
  PROVE  LET r == [p EXCEPT !.usable = FALSE] IN
         /\ r \in Profile /\ Catalog!Key(r) = Catalog!Key(p) /\ r.provider = p.provider
         /\ r.usable = FALSE /\ r.quality = p.quality
BY DEF Profile, Catalog!Key

LEMMA Curated ==
  ASSUME NEW p \in Profile
  PROVE  LET r == [p EXCEPT !.quality = 2] IN
         r \in Profile /\ Catalog!Key(r) = Catalog!Key(p) /\ r.usable = p.usable /\ r.quality = 2
BY DEF Profile, Catalog!Key

LEMMA KeptQuality ==
  ASSUME NEW old \in SUBSET Profile, NEW p \in Profile
  PROVE  (IF old = {} THEN p.quality ELSE (CHOOSE q \in old : TRUE).quality) \in Nat
<1>1. CASE old = {}
  BY <1>1 DEF Profile
<1>2. CASE old # {}
  <2>1. (CHOOSE q \in old : TRUE) \in old
    BY <1>2
  <2> QED BY <1>2, <2>1 DEF Profile
<1> QED BY <1>1, <1>2

(* What a refresh makes of a catalog. *)
LEMMA MergeSound ==
  ASSUME Catalog!ProfilesAssumption, NEW previous \in SUBSET Profile,
         NEW provider \in Catalog!Providers, NEW fresh \in SUBSET {q \in Profiles : q.provider = provider}
  PROVE  LET m == Catalog!MergeProviderProfiles(previous, fresh, provider) IN
         /\ m \in SUBSET Profile /\ (Distinct(previous) => Distinct(m))
         /\ \A x \in Profile : (\E p \in m : p.usable /\ Catalog!Key(p) = Catalog!Key(x)) <=>
              \/ \E q \in fresh : Catalog!Key(q) = Catalog!Key(x)
              \/ x.provider # provider /\ \E p \in previous : p.usable /\ Catalog!Key(p) = Catalog!Key(x)
         /\ \A quality : Distinct(previous) /\ KeepsIts(previous, quality) => KeepsIts(m, quality)
<1> DEFINE before(p) == {q \in previous : Catalog!Key(q) = Catalog!Key(p) /\ q.quality # 0}
           kept(p) == IF before(p) = {} THEN p.quality ELSE (CHOOSE q \in before(p) : TRUE).quality
           now(p) == [p EXCEPT !.quality = kept(p), !.usable = TRUE]
           gone(q) == [q EXCEPT !.usable = FALSE]
           lost == {r \in previous : r.provider = provider /\ Catalog!Key(r) \notin Catalog!Keys(fresh)}
           others == {q \in previous : q.provider # provider}
           m == Catalog!MergeProviderProfiles(previous, fresh, provider)
<1>1. m = {now(p) : p \in fresh} \cup others \cup {gone(q) : q \in lost}
  BY DEF Catalog!MergeProviderProfiles
<1>2. \A p \in fresh : p \in Profile /\ p.provider = provider
  BY ProfilesAre
<1>3. \A p \in fresh : kept(p) \in Nat
  BY <1>2, KeptQuality
<1> HIDE DEF kept
<1>4. \A p \in fresh : /\ now(p) \in Profile /\ Catalog!Key(now(p)) = Catalog!Key(p)
                       /\ now(p).usable = TRUE /\ now(p).quality = kept(p) /\ now(p).provider = provider
  <2> SUFFICES ASSUME NEW p \in fresh
               PROVE  /\ now(p) \in Profile /\ Catalog!Key(now(p)) = Catalog!Key(p)
                      /\ now(p).usable = TRUE /\ now(p).quality = kept(p) /\ now(p).provider = provider
    OBVIOUS
  <2>1. p \in Profile /\ kept(p) \in Nat /\ p.provider = provider
    BY <1>2, <1>3
  <2>2. /\ now(p) \in Profile /\ Catalog!Key(now(p)) = Catalog!Key(p) /\ now(p).provider = p.provider
        /\ now(p).usable = TRUE /\ now(p).quality = kept(p)
    BY ONLY <2>1, Reported
  <2> QED BY <2>1, <2>2
<1>5. \A q \in lost : /\ gone(q) \in Profile /\ Catalog!Key(gone(q)) = Catalog!Key(q) /\ gone(q).usable = FALSE
                      /\ gone(q).quality = q.quality /\ gone(q).provider = provider
  <2> SUFFICES ASSUME NEW q \in lost
               PROVE  /\ gone(q) \in Profile /\ Catalog!Key(gone(q)) = Catalog!Key(q) /\ gone(q).usable = FALSE
                      /\ gone(q).quality = q.quality /\ gone(q).provider = provider
    OBVIOUS
  <2>1. q \in Profile /\ q.provider = provider
    OBVIOUS
  <2>2. /\ gone(q) \in Profile /\ Catalog!Key(gone(q)) = Catalog!Key(q) /\ gone(q).provider = q.provider
        /\ gone(q).usable = FALSE /\ gone(q).quality = q.quality
    BY ONLY <2>1, Retired
  <2> QED BY <2>1, <2>2
<1> HIDE DEF now, gone, m
<1>6. \A k \in Catalog!Keys(fresh) : \E p \in fresh : Catalog!Key(p) = k
  BY DEF Catalog!Keys
<1>7. \A p \in fresh : Catalog!Key(p) \in Catalog!Keys(fresh)
  BY DEF Catalog!Keys
<1>8. m \in SUBSET Profile
  BY <1>1, <1>4, <1>5
<1>9. ASSUME Distinct(previous) PROVE Distinct(m)
  <2> SUFFICES ASSUME NEW p \in m, NEW q \in m, Catalog!Key(p) = Catalog!Key(q) PROVE p = q
    BY DEF Distinct
  <2>1. p.provider = q.provider /\ p \in Profile /\ q \in Profile
    BY <1>8, SameKey
  <2>2. CASE p \in others
    BY <2>1, <2>2, <1>1, <1>4, <1>5, <1>9 DEF Distinct
  <2>3. CASE q \in others
    BY <2>1, <2>3, <1>1, <1>4, <1>5, <1>9 DEF Distinct
  <2>4. ASSUME NEW a \in fresh, p = now(a), NEW b \in fresh, q = now(b) PROVE p = q
    <3>1. Catalog!Key(a) = Catalog!Key(b)
      BY <2>4, <1>4
    <3> QED BY <3>1, <2>4, ProfilesAre
  <2>5. ASSUME NEW a \in lost, p = gone(a), NEW b \in lost, q = gone(b) PROVE p = q
    <3>1. Catalog!Key(a) = Catalog!Key(b)
      BY <2>5, <1>5
    <3> QED BY <3>1, <2>5, <1>9 DEF Distinct
  <2>6. ASSUME NEW a \in fresh, NEW b \in lost, Catalog!Key(now(a)) = Catalog!Key(gone(b)) PROVE FALSE
    BY <2>6, <1>4, <1>5, <1>7
  <2> QED BY <1>1, <2>2, <2>3, <2>4, <2>5, <2>6
<1>10. ASSUME NEW x \in Profile
       PROVE  (\E p \in m : p.usable /\ Catalog!Key(p) = Catalog!Key(x)) <=>
                \/ \E q \in fresh : Catalog!Key(q) = Catalog!Key(x)
                \/ x.provider # provider /\ \E p \in previous : p.usable /\ Catalog!Key(p) = Catalog!Key(x)
  <2>1. ASSUME NEW p \in m, p.usable, Catalog!Key(p) = Catalog!Key(x)
        PROVE  \/ \E q \in fresh : Catalog!Key(q) = Catalog!Key(x)
               \/ x.provider # provider /\ \E r \in previous : r.usable /\ Catalog!Key(r) = Catalog!Key(x)
    <3>1. p.provider = x.provider
      BY <1>8, <2>1, SameKey
    <3>2. p \in {now(r) : r \in fresh} \/ p \in others
      BY <1>1, <1>5, <2>1
    <3> QED BY <3>1, <3>2, <2>1, <1>4
  <2>2. ASSUME NEW q \in fresh, Catalog!Key(q) = Catalog!Key(x)
        PROVE  \E p \in m : p.usable /\ Catalog!Key(p) = Catalog!Key(x)
    BY <1>1, <1>4, <2>2
  <2>3. ASSUME NEW p \in previous, p.usable, Catalog!Key(p) = Catalog!Key(x), x.provider # provider
        PROVE  \E r \in m : r.usable /\ Catalog!Key(r) = Catalog!Key(x)
    <3>1. p \in others
      BY <2>3, SameKey
    <3> QED BY <3>1, <1>1, <2>3
  <2> QED BY <2>1, <2>2, <2>3
<1>11. ASSUME NEW quality, Distinct(previous), KeepsIts(previous, quality) PROVE KeepsIts(m, quality)
  <2> SUFFICES ASSUME NEW k \in quality PROVE \E p \in m : Catalog!Key(p) = k /\ p.quality = 2
    BY DEF KeepsIts
  <2>1. PICK p \in previous : Catalog!Key(p) = k /\ p.quality = 2
    BY <1>11 DEF KeepsIts
  <2>2. CASE p \in others
    BY <2>1, <2>2, <1>1
  <2>3. CASE p \in lost
    BY <2>1, <2>3, <1>1, <1>5
  <2>4. CASE p \notin others /\ p \notin lost
    <3>1. PICK q \in fresh : Catalog!Key(q) = k
      BY <2>1, <2>4, <1>6
    <3>2. before(q) = {p}
      BY <2>1, <3>1, <1>11 DEF Distinct
    <3>3. kept(q) = 2
      BY <3>2, <2>1 DEF kept
    <3> QED BY <3>1, <3>3, <1>1, <1>4
  <2> QED BY <2>2, <2>3, <2>4
<1> QED BY <1>8, <1>9, <1>10, <1>11 DEF m

LEMMA CatalogInitInv == Catalog!ProfilesAssumption /\ Catalog!Init => CatalogIInv
<1> SUFFICES ASSUME Catalog!ProfilesAssumption, Catalog!Init PROVE CatalogIInv
  OBVIOUS
<1>1. CatalogTypeInv
  <2>1. Catalog!NoWork \in CatalogWorks
    BY DEF Catalog!NoWork, CatalogWorks
  <2>2. config \in Configs /\ Catalog!Missing \in Catalogs
    BY DEF Catalog!Init, Configs, Catalogs, Catalog!Missing
  <2> QED BY <2>1, <2>2 DEF Catalog!Init, CatalogTypeInv, Places
<1>2. Good({}, {}, {})
  BY DEF Good, Distinct, Says, KeepsIts
<1>3. CatalogHolds
  BY <1>2 DEF Catalog!Init, CatalogHolds, Catalog!Missing, Carries
<1> QED BY <1>1, <1>3 DEF CatalogIInv

(* What a provider's answer makes of a copy. *)
LEMMA Refreshed ==
  ASSUME Catalog!ProfilesAssumption, CatalogTypeInv, NEW p \in Catalog!Procs, NEW provider \in Catalog!Providers, Catalog!Discover(p, provider)
  PROVE  \/ UNCHANGED cmem
         \/ \E fresh \in SUBSET {q \in Profiles : q.provider = provider} :
              \E j \in CatalogWorks :
                /\ cmem' = [cmem EXCEPT ![p] = j]
                /\ j.profiles = Catalog!MergeProviderProfiles(cmem[p].profiles, fresh, provider)
                /\ j.heard = cmem[p].heard \cup fresh /\ j.asked = cmem[p].asked \cup {provider}
<1>1. CASE UNCHANGED cmem
  BY <1>1
<1>2. ASSUME NEW fresh \in (SUBSET {q \in Profiles : q.provider = provider}) \ {{}},
             cmem' = [cmem EXCEPT ![p].profiles = Catalog!MergeProviderProfiles(@, fresh, provider),
                                ![p].heard = @ \cup fresh, ![p].asked = @ \cup {provider}]
      PROVE  \E j \in CatalogWorks :
               /\ cmem' = [cmem EXCEPT ![p] = j]
               /\ j.profiles = Catalog!MergeProviderProfiles(cmem[p].profiles, fresh, provider)
               /\ j.heard = cmem[p].heard \cup fresh /\ j.asked = cmem[p].asked \cup {provider}
  <2> DEFINE m == Catalog!MergeProviderProfiles(cmem[p].profiles, fresh, provider)
             j == [cmem[p] EXCEPT !.profiles = m, !.heard = @ \cup fresh, !.asked = @ \cup {provider}]
  <2>1. cmem[p] \in CatalogWorks /\ cmem \in [Catalog!Procs -> CatalogWorks]
    BY DEF CatalogTypeInv
  <2>2. cmem[p].profiles \in SUBSET Profile
    BY <2>1 DEF CatalogWorks
  <2>3. m \in SUBSET Profile
    BY <2>2, MergeSound
  <2>4. cmem' = [cmem EXCEPT ![p] = j]
    BY <1>2, <2>1
  <2> HIDE DEF m
  <2>5. j \in CatalogWorks /\ j.profiles = m /\ j.heard = cmem[p].heard \cup fresh /\ j.asked = cmem[p].asked \cup {provider}
    BY <2>1, <2>3 DEF CatalogWorks
  <2> HIDE DEF j
  <2> QED BY <2>4, <2>5 DEF m
<1> QED BY <1>1, <1>2 DEF Catalog!Discover

(* A process goes on with a copy of its own. *)
LEMMA CatalogGoesOn ==
  ASSUME CatalogIInv, NEW p \in Catalog!Procs, NEW l \in Places, NEW j \in CatalogWorks,
         cpc' = [cpc EXCEPT ![p] = l], cmem' = [cmem EXCEPT ![p] = j],
         catalog' = catalog, reported' = reported, curated' = curated, config' \in Configs,
         cspoiled' \subseteq {"cut"} => cspoiled \subseteq {"cut"} /\ (cpc[p] # "idle" \/ Resting(p)),
         CatalogHolds => Carries(j, l)
  PROVE  CatalogIInv'
<1>1. CatalogTypeInv
  BY DEF CatalogIInv
<1>2. CatalogTypeInv'
  BY <1>1 DEF CatalogTypeInv
<1>3. ASSUME cspoiled' \subseteq {"cut"} PROVE CatalogHolds'
  <2>1. CatalogHolds /\ Resting(p)
    BY <1>3 DEF CatalogIInv, CatalogHolds
  <2>2. \A q \in Catalog!Procs : /\ cpc'[q] = IF q = p THEN l ELSE cpc[q]
                         /\ cmem'[q] = IF q = p THEN j ELSE cmem[q]
    BY <1>1 DEF CatalogTypeInv
  <2>3. \A q \in Catalog!Procs : q # p => cpc'[q] = "idle"
    BY <2>1, <2>2 DEF Resting
  <2>4. \A q \in Catalog!Procs : cpc'[q] # "idle" => Resting(q)'
    BY <2>3 DEF Resting
  <2>5. \A q \in Catalog!Procs : Carries(cmem'[q], cpc'[q])
    BY <2>1, <2>2 DEF CatalogHolds
  <2>6. \A q \in Catalog!Procs : Carries(cmem[q], cpc[q])'
    BY <2>5 DEF Carries, Good, Distinct, Says, KeepsIts
  <2> QED BY <2>1, <2>4, <2>6 DEF CatalogHolds
<1> QED BY <1>2, <1>3 DEF CatalogIInv

LEMMA ActsAlone ==
  ASSUME NEW p, NEW why, Catalog!Acts(p, why), cspoiled' \subseteq {"cut"}
  PROVE  cspoiled \subseteq {"cut"} /\ Catalog!Alone(p) /\ why \subseteq {"cut"}
BY DEF Catalog!Acts

(* A refresh begins with the catalog of the file. *)
LEMMA CatalogBegins ==
  ASSUME Catalog!ProfilesAssumption, CatalogIInv
  PROVE  LET j == [Catalog!NoWork EXCEPT !.profiles = Catalog!LoadCatalog] IN
         j \in CatalogWorks /\ (CatalogHolds => Carries(j, "codex"))
<1> DEFINE j == [Catalog!NoWork EXCEPT !.profiles = Catalog!LoadCatalog]
<1>1. Catalog!LoadCatalog \in SUBSET Profile
  BY DEF CatalogIInv, CatalogTypeInv, Catalogs, Catalog!LoadCatalog
<1>2. j \in CatalogWorks /\ j.profiles = Catalog!LoadCatalog /\ j.asked = {} /\ j.heard = {}
  BY <1>1 DEF Catalog!NoWork, CatalogWorks
<1>3. ASSUME CatalogHolds PROVE Catalog!LoadCatalog = catalog.profiles
  BY <1>3 DEF CatalogHolds, Catalog!LoadCatalog, CatalogIInv, CatalogTypeInv, Catalogs
<1> HIDE DEF j
<1>4. ASSUME CatalogHolds PROVE Carries(j, "codex")
  <2>1. Good(j.profiles, reported, curated)
    BY <1>2, <1>3, <1>4 DEF CatalogHolds
  <2>2. {q \in reported : q.provider \notin j.asked} \cup j.heard = reported
    BY <1>2
  <2> QED BY <2>1, <2>2, <1>2 DEF Carries
<1> QED BY <1>2, <1>4 DEF j

LEMMA EnsureKeeps ==
  ASSUME Catalog!ProfilesAssumption, CatalogIInv, Catalog!ensureModelCatalogFresh
  PROVE  CatalogIInv'
<1> DEFINE j == [Catalog!NoWork EXCEPT !.profiles = Catalog!LoadCatalog]
<1>1. j \in CatalogWorks /\ (CatalogHolds => Carries(j, "codex"))
  BY CatalogBegins
<1>2. "ensure" \in Catalog!Procs /\ "codex" \in Places /\ config \in Configs
  BY DEF Catalog!Procs, Places, CatalogIInv, CatalogTypeInv
<1>3. /\ cpc' = [cpc EXCEPT !["ensure"] = "codex"] /\ cmem' = [cmem EXCEPT !["ensure"] = j]
      /\ UNCHANGED <<catalog, config, reported, curated>> /\ Catalog!Acts("ensure", {})
  BY DEF Catalog!ensureModelCatalogFresh, Catalog!Goto, Catalog!Start
<1>4. cspoiled' \subseteq {"cut"} => cspoiled \subseteq {"cut"} /\ Resting("ensure")
  BY <1>3, ActsAlone DEF Catalog!Alone, Resting
<1> HIDE DEF j
<1> QED BY <1>1, <1>2, <1>3, <1>4, CatalogGoesOn

LEMMA CatalogRefreshKeeps ==
  ASSUME Catalog!ProfilesAssumption, CatalogIInv, Catalog!modelsRefresh
  PROVE  CatalogIInv'
<1> DEFINE j == [Catalog!NoWork EXCEPT !.profiles = Catalog!LoadCatalog]
<1>1. j \in CatalogWorks /\ (CatalogHolds => Carries(j, "codex"))
  BY CatalogBegins
<1>2. "refresh" \in Catalog!Procs /\ "codex" \in Places /\ config \in Configs
  BY DEF Catalog!Procs, Places, CatalogIInv, CatalogTypeInv
<1>3. /\ cpc' = [cpc EXCEPT !["refresh"] = "codex"] /\ cmem' = [cmem EXCEPT !["refresh"] = j]
      /\ UNCHANGED <<catalog, config, reported, curated>> /\ Catalog!Acts("refresh", {})
  BY DEF Catalog!modelsRefresh, Catalog!Goto, Catalog!Start
<1>4. cspoiled' \subseteq {"cut"} => cspoiled \subseteq {"cut"} /\ Resting("refresh")
  BY <1>3, ActsAlone DEF Catalog!Alone, Resting
<1> HIDE DEF j
<1> QED BY <1>1, <1>2, <1>3, <1>4, CatalogGoesOn

(* A provider's answer is merged into the copy. *)
LEMMA Merged ==
  ASSUME Catalog!ProfilesAssumption, NEW heard \in SUBSET Profiles, NEW profiles \in SUBSET Profile,
         Good(profiles, heard, curated), NEW provider \in Catalog!Providers,
         NEW fresh \in SUBSET {q \in Profiles : q.provider = provider}
  PROVE  Good(Catalog!MergeProviderProfiles(profiles, fresh, provider),
              {q \in heard : q.provider # provider} \cup fresh, curated)
<1> DEFINE m == Catalog!MergeProviderProfiles(profiles, fresh, provider)
<1>1. /\ m \in SUBSET Profile /\ Distinct(m) /\ KeepsIts(m, curated)
      /\ \A x \in Profile : (\E p \in m : p.usable /\ Catalog!Key(p) = Catalog!Key(x)) <=>
           \/ \E q \in fresh : Catalog!Key(q) = Catalog!Key(x)
           \/ x.provider # provider /\ \E p \in profiles : p.usable /\ Catalog!Key(p) = Catalog!Key(x)
  BY MergeSound DEF Good
<1>2. \A x \in Profile : (\E p \in profiles : p.usable /\ Catalog!Key(p) = Catalog!Key(x)) <=> (\E q \in heard : Catalog!Key(q) = Catalog!Key(x))
  BY DEF Good, Says
<1>3. \A x \in Profile : \A q \in heard : Catalog!Key(q) = Catalog!Key(x) => q.provider = x.provider
  BY SameKey, ProfilesAre
<1> HIDE DEF m
<1>4. Says(m, {q \in heard : q.provider # provider} \cup fresh)
  BY <1>1, <1>2, <1>3 DEF Says
<1> QED BY <1>1, <1>4 DEF Good, m

LEMMA DiscoverKeeps ==
  ASSUME Catalog!ProfilesAssumption, CatalogIInv, NEW p \in Catalog!Procs, NEW provider \in Catalog!Providers, Catalog!Discover(p, provider),
         cpc[p] = provider, NEW l \in {"idle", "claude", "save"}, cpc' = [cpc EXCEPT ![p] = l],
         l = "claude" => provider = "codex",
         UNCHANGED <<catalog, config, reported, curated, cspoiled>>
  PROVE  CatalogIInv'
<1>t. CatalogTypeInv /\ cmem[p] \in CatalogWorks /\ config \in Configs /\ l \in Places /\ reported \subseteq Profiles
  BY DEF CatalogIInv, CatalogTypeInv, Places
<1>a. cpc[p] \in {"codex", "claude"}
  BY DEF Catalog!Providers
<1>b. CatalogHolds => Carries(cmem[p], cpc[p])
  BY DEF CatalogHolds
<1>1. CASE UNCHANGED cmem
  <2>1. cmem' = [cmem EXCEPT ![p] = cmem[p]]
    BY <1>1, <1>t DEF CatalogTypeInv
  <2>2. CatalogHolds => Carries(cmem[p], l)
    BY <1>a, <1>b DEF Carries
  <2> QED BY <1>t, <1>a, <2>1, <2>2, CatalogGoesOn
<1>2. ASSUME NEW fresh \in SUBSET {q \in Profiles : q.provider = provider}, NEW j \in CatalogWorks,
             cmem' = [cmem EXCEPT ![p] = j],
             j.profiles = Catalog!MergeProviderProfiles(cmem[p].profiles, fresh, provider),
             j.heard = cmem[p].heard \cup fresh, j.asked = cmem[p].asked \cup {provider}
      PROVE  CatalogIInv'
  <2>1. ASSUME CatalogHolds PROVE Carries(j, l)
    <3> DEFINE heard == {q \in reported : q.provider \notin cmem[p].asked} \cup cmem[p].heard
    <3>1. /\ Good(cmem[p].profiles, heard, curated)
          /\ \A q \in cmem[p].heard : q.provider \in cmem[p].asked
          /\ cmem[p].asked \subseteq {"codex"} \ {provider}
      BY <2>1, <1>a, <1>b DEF Carries
    <3>2. heard \in SUBSET Profiles /\ cmem[p].profiles \in SUBSET Profile
      BY <1>t DEF CatalogWorks
    <3>3. Good(j.profiles, {q \in heard : q.provider # provider} \cup fresh, curated)
      BY <3>1, <3>2, <1>2, Merged
    <3>4. {q \in heard : q.provider # provider} \cup fresh
            = {q \in reported : q.provider \notin j.asked} \cup j.heard
      BY <3>1, <1>2
    <3>5. \A q \in j.heard : q.provider \in j.asked
      BY <3>1, <1>2
    <3>6. l = "claude" => j.asked \subseteq {"codex"}
      BY <3>1, <1>2
    <3> QED BY <3>3, <3>4, <3>5, <3>6 DEF Carries
  <2> QED BY <1>t, <1>a, <1>2, <2>1, CatalogGoesOn
<1>3. \/ UNCHANGED cmem
      \/ \E fresh \in SUBSET {q \in Profiles : q.provider = provider} :
           \E j \in CatalogWorks :
             /\ cmem' = [cmem EXCEPT ![p] = j]
             /\ j.profiles = Catalog!MergeProviderProfiles(cmem[p].profiles, fresh, provider)
             /\ j.heard = cmem[p].heard \cup fresh /\ j.asked = cmem[p].asked \cup {provider}
  BY <1>t, Refreshed
<1> QED BY <1>1, <1>2, <1>3

LEMMA ProviderKeeps ==
  ASSUME Catalog!ProfilesAssumption, CatalogIInv, NEW p \in Catalog!Procs, Catalog!discoverCodexProfiles(p) \/ Catalog!discoverClaudeProfiles(p)
  PROVE  CatalogIInv'
<1>1. CASE Catalog!discoverCodexProfiles(p)
  BY <1>1, DiscoverKeeps DEF Catalog!discoverCodexProfiles, Catalog!Goto, Catalog!Providers
<1>2. CASE Catalog!discoverClaudeProfiles(p)
  <2>1. PICK l \in {"save", "idle"} : cpc' = [cpc EXCEPT ![p] = l]
    BY <1>2 DEF Catalog!discoverClaudeProfiles, Catalog!Goto
  <2> QED BY <1>2, <2>1, DiscoverKeeps DEF Catalog!discoverClaudeProfiles, Catalog!Providers
<1> QED BY <1>1, <1>2

(* The end of a process, wherever it was. *)
LEMMA CatalogEndKeeps ==
  ASSUME CatalogIInv, NEW p \in Catalog!Procs, cpc[p] # "idle", Catalog!End(p),
         UNCHANGED <<catalog, reported, curated>>, config' \in Configs,
         cspoiled' \subseteq {"cut"} => cspoiled \subseteq {"cut"}
  PROVE  CatalogIInv'
<1>1. Catalog!NoWork \in CatalogWorks /\ "idle" \in Places
  BY DEF Catalog!NoWork, CatalogWorks, Places
<1>2. Carries(Catalog!NoWork, "idle")
  BY DEF Carries
<1> QED BY <1>1, <1>2, CatalogGoesOn DEF Catalog!End, Catalog!Goto

(* Codex alone is asked for a catalog with nothing in it. *)
LEMMA FirstReport ==
  ASSUME Catalog!ProfilesAssumption, CatalogIInv, Catalog!LoadCatalog = {}, CatalogHolds,
         NEW fresh \in SUBSET {q \in Profiles : q.provider = "codex"}, NEW j,
         j.profiles = {[q EXCEPT !.usable = TRUE] : q \in fresh}, j.heard = fresh, j.asked = {"codex"}
  PROVE  Carries(j, "save")
<1>1. catalog.profiles = {} /\ reported \subseteq Profiles
  BY DEF CatalogHolds, Catalog!LoadCatalog, CatalogIInv, CatalogTypeInv, Catalogs
<1>2. \A x \in Profile : ~\E q \in reported : Catalog!Key(q) = Catalog!Key(x)
  BY <1>1 DEF CatalogHolds, Good, Says
<1>3. reported = {}
  BY <1>1, <1>2, ProfilesAre
<1>4. curated = {}
  BY <1>1 DEF CatalogHolds, Good, KeepsIts
<1> DEFINE now(q) == [q EXCEPT !.usable = TRUE]
<1>5. \A q \in fresh : now(q) \in Profile /\ Catalog!Key(now(q)) = Catalog!Key(q) /\ now(q).usable = TRUE
  <2> SUFFICES ASSUME NEW q \in fresh PROVE now(q) \in Profile /\ Catalog!Key(now(q)) = Catalog!Key(q) /\ now(q).usable = TRUE
    OBVIOUS
  <2>1. q \in Profile
    BY ProfilesAre
  <2> QED BY <2>1 DEF Profile, Catalog!Key
<1> HIDE DEF now
<1>6. j.profiles = {now(q) : q \in fresh}
  BY DEF now
<1>7. Distinct(j.profiles)
  <2> SUFFICES ASSUME NEW a \in fresh, NEW b \in fresh, Catalog!Key(now(a)) = Catalog!Key(now(b)) PROVE now(a) = now(b)
    BY <1>6 DEF Distinct
  <2>1. Catalog!Key(a) = Catalog!Key(b)
    BY <1>5
  <2> QED BY <2>1, ProfilesAre
<1>8. Says(j.profiles, fresh)
  BY <1>5, <1>6 DEF Says
<1>9. KeepsIts(j.profiles, curated)
  BY <1>4 DEF KeepsIts
<1>10. {q \in reported : q.provider \notin j.asked} \cup j.heard = fresh
  BY <1>3
<1> QED BY <1>7, <1>8, <1>9, <1>10 DEF Carries, Good

LEMMA ApplyKeeps ==
  ASSUME Catalog!ProfilesAssumption, CatalogIInv, Catalog!modelsApply
  PROVE  CatalogIInv'
<1>t. /\ CatalogTypeInv /\ "apply" \in Catalog!Procs /\ cmem["apply"] \in CatalogWorks /\ config \in Configs
      /\ Catalog!LoadCatalog \in SUBSET Profile /\ {"save", "find"} \subseteq Places
  BY DEF CatalogIInv, CatalogTypeInv, Catalog!Procs, Places, Catalog!LoadCatalog, Catalogs
<1>1. /\ UNCHANGED <<catalog, config, reported, curated>>
      /\ cspoiled' \subseteq {"cut"} => cspoiled \subseteq {"cut"} /\ Resting("apply")
  BY ActsAlone DEF Catalog!modelsApply, Catalog!Start, Catalog!Alone, Resting
<1>2. ASSUME cmem' = [cmem EXCEPT !["apply"].profiles = Catalog!LoadCatalog], cpc' = [cpc EXCEPT !["apply"] = "find"]
      PROVE  CatalogIInv'
  <2> DEFINE j == [cmem["apply"] EXCEPT !.profiles = Catalog!LoadCatalog]
  <2>1. j \in CatalogWorks /\ cmem' = [cmem EXCEPT !["apply"] = j]
    BY <1>2, <1>t DEF CatalogWorks, CatalogTypeInv
  <2>2. Carries(j, "find")
    BY DEF Carries
  <2> HIDE DEF j
  <2> QED BY <1>1, <1>2, <1>t, <2>1, <2>2, CatalogGoesOn
<1>3. ASSUME NEW fresh \in SUBSET {q \in Profiles : q.provider = "codex"}, Catalog!LoadCatalog = {},
             cmem' = [cmem EXCEPT !["apply"] = [Catalog!NoWork EXCEPT
                       !.profiles = {[q EXCEPT !.usable = TRUE] : q \in fresh},
                       !.heard = fresh, !.asked = {"codex"}]],
             cpc' = [cpc EXCEPT !["apply"] = "save"]
      PROVE  CatalogIInv'
  <2> DEFINE first == {[q EXCEPT !.usable = TRUE] : q \in fresh}
             j == [Catalog!NoWork EXCEPT !.profiles = first, !.heard = fresh, !.asked = {"codex"}]
  <2>1. first \in SUBSET Profile
    <3>1. \A q \in fresh : q \in Profile
      BY ProfilesAre
    <3>2. \A q \in Profile : [q EXCEPT !.usable = TRUE] \in Profile
      BY DEF Profile
    <3> QED BY <3>1, <3>2
  <2>2. j \in CatalogWorks /\ j.profiles = first /\ j.heard = fresh /\ j.asked = {"codex"}
    <3> HIDE DEF first
    <3> QED BY <2>1 DEF Catalog!NoWork, CatalogWorks, Catalog!Providers
  <2>3. cmem' = [cmem EXCEPT !["apply"] = j]
    BY <1>3
  <2> HIDE DEF j
  <2>4. CatalogHolds => Carries(j, "save")
    BY <2>2, <1>3, FirstReport
  <2> QED BY <1>1, <1>3, <1>t, <2>2, <2>3, <2>4, CatalogGoesOn
<1> QED BY <1>2, <1>3 DEF Catalog!modelsApply, Catalog!Goto

LEMMA SaveKeeps ==
  ASSUME CatalogIInv, NEW p \in Catalog!Procs, Catalog!SaveCatalog(p)
  PROVE  CatalogIInv'
<1>t. /\ CatalogTypeInv /\ cmem[p] \in CatalogWorks /\ Catalog!NoWork \in CatalogWorks /\ cpc[p] = "save"
      /\ cmem[p].profiles \in SUBSET Profile /\ cmem[p].heard \in SUBSET Profiles
  BY DEF CatalogIInv, CatalogTypeInv, Catalog!SaveCatalog, Catalog!NoWork, CatalogWorks
<1>1. /\ catalog' = [state |-> "whole", profiles |-> cmem[p].profiles, old |-> FALSE]
      /\ reported' = {q \in reported : q.provider \notin cmem[p].asked} \cup cmem[p].heard
      /\ UNCHANGED <<config, curated, cspoiled>>
  BY DEF Catalog!SaveCatalog
<1>2. PICK l \in {"idle", "find"} : \E j \in CatalogWorks : cpc' = [cpc EXCEPT ![p] = l] /\ cmem' = [cmem EXCEPT ![p] = j]
  <2>1. CASE p = "apply"
    <3>1. cmem' = [cmem EXCEPT ![p] = cmem[p]] /\ cpc' = [cpc EXCEPT ![p] = "find"]
      BY <2>1, <1>t DEF CatalogTypeInv, Catalog!SaveCatalog, Catalog!Goto
    <3> QED BY <3>1, <1>t
  <2>2. CASE p # "apply"
    BY <2>2, <1>t DEF Catalog!SaveCatalog, Catalog!End, Catalog!Goto
  <2> QED BY <2>1, <2>2
<1>3. CatalogTypeInv'
  BY <1>1, <1>2, <1>t DEF CatalogTypeInv, Catalogs, Places
<1>4. ASSUME cspoiled' \subseteq {"cut"} PROVE CatalogHolds'
  <2>1. CatalogHolds
    BY <1>1, <1>4 DEF CatalogIInv
  <2>2. \A q \in Catalog!Procs : cpc'[q] = IF q = p THEN l ELSE "idle"
    BY <1>2, <1>t, <2>1 DEF CatalogTypeInv, CatalogHolds, Resting
  <2>3. Good(catalog'.profiles, reported', curated')
    BY <1>1, <1>t, <2>1 DEF CatalogHolds, Carries
  <2>4. \A q \in Catalog!Procs : Carries(cmem[q], cpc[q])'
    BY <2>2 DEF Carries
  <2>5. \A q \in Catalog!Procs : cpc'[q] # "idle" => Resting(q)'
    BY <2>2 DEF Resting
  <2>6. Good(catalog.profiles, reported, curated)'
    BY <2>3 DEF Good, Distinct, Says, KeepsIts
  <2> QED BY <2>4, <2>5, <2>6, <1>1 DEF CatalogHolds
<1> QED BY <1>3, <1>4 DEF CatalogIInv

LEMMA ConfigKeeps ==
  ASSUME CatalogIInv, Catalog!OpenConfig \/ Catalog!WriteConfig \/ \E model, effort : Catalog!ReadConfig(model, effort)
  PROVE  CatalogIInv'
<1>t. /\ CatalogTypeInv /\ "apply" \in Catalog!Procs /\ cmem["apply"] \in CatalogWorks /\ config \in Configs
      /\ {"open", "write"} \subseteq Places
  BY DEF CatalogIInv, CatalogTypeInv, Catalog!Procs, Places
<1>c. \A j : Carries(j, "open") /\ Carries(j, "write")
  BY DEF Carries
<1>1. CASE Catalog!OpenConfig
  <2>1. cmem' = [cmem EXCEPT !["apply"] = cmem["apply"]]
    BY <1>1, <1>t DEF Catalog!OpenConfig, CatalogTypeInv
  <2>2. config' \in Configs /\ cpc["apply"] # "idle"
    BY <1>1 DEF Catalog!OpenConfig, Configs
  <2> QED BY <1>1, <1>t, <1>c, <2>1, <2>2, CatalogGoesOn DEF Catalog!OpenConfig, Catalog!Goto
<1>2. CASE Catalog!WriteConfig
  <2>1. config' \in Configs
    BY <1>2, <1>t DEF Catalog!WriteConfig, CatalogWorks
  <2> QED BY <1>2, <1>t, <2>1, CatalogEndKeeps DEF Catalog!WriteConfig
<1>3. ASSUME NEW model, NEW effort, Catalog!ReadConfig(model, effort) PROVE CatalogIInv'
  <2> DEFINE found == Catalog!findCodexProfile(cmem["apply"].profiles, model, effort)
  <2>1. /\ cpc["apply"] = "find" /\ UNCHANGED <<catalog, config, reported, curated, cspoiled>>
        /\ \/ Catalog!End("apply")
           \/ \E q \in found :
                /\ cmem' = [cmem EXCEPT !["apply"].pick =
                             {[state |-> "whole", model |-> q.model, native |-> q.native, others |-> config.others]}]
                /\ cpc' = [cpc EXCEPT !["apply"] = "open"]
    BY <1>3 DEF Catalog!ReadConfig, Catalog!Goto
  <2>2. CASE Catalog!End("apply")
    BY <2>1, <2>2, <1>t, CatalogEndKeeps
  <2>3. ASSUME NEW q \in found,
               cmem' = [cmem EXCEPT !["apply"].pick =
                         {[state |-> "whole", model |-> q.model, native |-> q.native, others |-> config.others]}],
               cpc' = [cpc EXCEPT !["apply"] = "open"]
        PROVE  CatalogIInv'
    <3>1. found \subseteq cmem["apply"].profiles
      BY DEF Catalog!findCodexProfile
    <3>2. q \in Profile
      BY <1>t, <3>1 DEF CatalogWorks
    <3> DEFINE pick == {[state |-> "whole", model |-> q.model, native |-> q.native, others |-> config.others]}
               j == [cmem["apply"] EXCEPT !.pick = pick]
    <3>3. pick \in SUBSET Configs
      <4>1. config.others \in BOOLEAN /\ q.model \in Catalog!Models /\ q.native \in Catalog!Natives
        BY <1>t, <3>2 DEF Configs, Profile
      <4>2. [state |-> "whole", model |-> q.model, native |-> q.native, others |-> config.others] \in Configs
        BY <4>1 DEF Configs
      <4> QED BY <4>2
    <3>4. cmem' = [cmem EXCEPT !["apply"] = j]
      BY <2>3, <1>t DEF CatalogTypeInv
    <3> HIDE DEF pick
    <3>5. j \in CatalogWorks
      BY <1>t, <3>3 DEF CatalogWorks
    <3> HIDE DEF j
    <3> QED BY <2>1, <2>3, <1>t, <1>c, <3>4, <3>5, CatalogGoesOn
  <2> QED BY <2>1, <2>2, <2>3
<1> QED BY <1>1, <1>2, <1>3

LEMMA FailsKeeps ==
  ASSUME CatalogIInv, NEW p \in Catalog!Procs, Catalog!Fails(p)
  PROVE  CatalogIInv'
<1>1. config \in Configs
  BY DEF CatalogIInv, CatalogTypeInv
<1> QED BY <1>1, CatalogEndKeeps DEF Catalog!Fails

LEMMA TTLKeeps ==
  ASSUME CatalogIInv, Catalog!TTLPasses
  PROVE  CatalogIInv'
<1>1. /\ catalog' \in Catalogs /\ catalog'.state = catalog.state /\ catalog'.profiles = catalog.profiles
      /\ UNCHANGED <<config, cpc, cmem, reported, curated, cspoiled>>
  BY DEF Catalog!TTLPasses, CatalogIInv, CatalogTypeInv, Catalogs
<1>2. CatalogTypeInv'
  BY <1>1 DEF CatalogIInv, CatalogTypeInv
<1>3. CatalogHolds => CatalogHolds'
  BY <1>1 DEF CatalogHolds, Resting, Carries, Good, Distinct, Says, KeepsIts
<1> QED BY <1>1, <1>2, <1>3 DEF CatalogIInv

LEMMA EditKeeps ==
  ASSUME CatalogIInv, Catalog!Edit
  PROVE  CatalogIInv'
<1>t. CatalogTypeInv /\ catalog \in Catalogs /\ catalog.profiles \in SUBSET Profile
  BY DEF CatalogIInv, CatalogTypeInv, Catalogs
<1>u. UNCHANGED <<config, cpc, cmem, reported>>
  BY DEF Catalog!Edit
<1>1. ASSUME NEW q \in catalog.profiles,
             catalog' = [catalog EXCEPT !.profiles = (@ \ {q}) \cup {[q EXCEPT !.quality = 2]}],
             curated' = curated \cup {Catalog!Key(q)}, Catalog!Acts("editor", {})
      PROVE  CatalogIInv'
  <2> DEFINE better == [q EXCEPT !.quality = 2]
             edited == (catalog.profiles \ {q}) \cup {better}
  <2>1. better \in Profile /\ Catalog!Key(better) = Catalog!Key(q) /\ better.usable = q.usable /\ better.quality = 2
    <3>1. q \in Profile
      BY <1>t
    <3> QED BY <3>1, Curated
  <2>2. catalog' = [catalog EXCEPT !.profiles = edited]
    BY <1>1
  <2> HIDE DEF better
  <2>3. edited \in SUBSET Profile
    BY <1>t, <2>1
  <2>4. catalog' \in Catalogs /\ catalog'.profiles = edited /\ catalog'.state = catalog.state
    <3> HIDE DEF edited
    <3> QED BY <2>2, <2>3, <1>t DEF Catalogs
  <2>5. CatalogTypeInv'
    BY <1>t, <1>u, <2>4 DEF CatalogTypeInv
  <2>6. ASSUME cspoiled' \subseteq {"cut"} PROVE CatalogHolds'
    <3>1. CatalogHolds /\ \A p \in Catalog!Procs : cpc[p] = "idle"
      BY <1>1, <2>6, ActsAlone DEF CatalogIInv, Catalog!Alone, Catalog!Procs
    <3>2. Good(catalog.profiles, reported, curated)
      BY <3>1 DEF CatalogHolds
    <3>3. Distinct(edited)
      BY <3>2, <2>1 DEF Good, Distinct
    <3>4. Says(edited, reported)
      <4>1. \A x \in Profile : (\E p \in edited : p.usable /\ Catalog!Key(p) = Catalog!Key(x))
                                 <=> (\E p \in catalog.profiles : p.usable /\ Catalog!Key(p) = Catalog!Key(x))
        BY <2>1
      <4> QED BY <4>1, <3>2 DEF Good, Says
    <3>5. KeepsIts(edited, curated')
      <4> SUFFICES ASSUME NEW k \in curated' PROVE \E p \in edited : Catalog!Key(p) = k /\ p.quality = 2
        BY DEF KeepsIts
      <4>1. CASE k = Catalog!Key(q)
        BY <4>1, <2>1
      <4>2. CASE k # Catalog!Key(q)
        <5>1. PICK p \in catalog.profiles : Catalog!Key(p) = k /\ p.quality = 2
          BY <1>1, <4>2, <3>2 DEF Good, KeepsIts
        <5> QED BY <5>1, <4>2
      <4> QED BY <4>1, <4>2
    <3> HIDE DEF edited
    <3>6. Good(catalog.profiles, reported, curated)'
      BY <3>3, <3>4, <3>5, <2>4, <1>u DEF Good, Distinct, Says, KeepsIts
    <3>7. catalog'.state = "whole"
      BY <2>4 DEF Catalog!Edit
    <3> QED BY <3>1, <3>6, <3>7, <1>u DEF CatalogHolds, Resting, Carries
  <2> QED BY <2>5, <2>6 DEF CatalogIInv
<1>2. ASSUME catalog' = [Catalog!Missing EXCEPT !.state = "broken"], Catalog!Acts("editor", {"broken"})
      PROVE  CatalogIInv'
  <2>1. CatalogTypeInv'
    BY <1>t, <1>u, <1>2 DEF CatalogTypeInv, Catalogs, Catalog!Missing
  <2>2. ~(cspoiled' \subseteq {"cut"})
    BY <1>2, ActsAlone
  <2> QED BY <2>1, <2>2 DEF CatalogIInv
<1> QED BY <1>1, <1>2 DEF Catalog!Edit

LEMMA CatalogInvNext == Catalog!ProfilesAssumption /\ CatalogIInv /\ [Catalog!Next]_(Catalog!vars) => CatalogIInv'
<1> SUFFICES ASSUME Catalog!ProfilesAssumption, CatalogIInv, [Catalog!Next]_(Catalog!vars) PROVE CatalogIInv'
  OBVIOUS
<1>1. CASE UNCHANGED Catalog!vars
  BY <1>1 DEF Catalog!vars, CatalogIInv, CatalogTypeInv, CatalogHolds, Resting, Carries, Good, Distinct, Says, KeepsIts
<1>2. CASE Catalog!ensureModelCatalogFresh \/ Catalog!modelsRefresh \/ Catalog!modelsApply
  BY <1>2, EnsureKeeps, CatalogRefreshKeeps, ApplyKeeps
<1>3. ASSUME NEW p \in Catalog!Procs, Catalog!discoverCodexProfiles(p) \/ Catalog!discoverClaudeProfiles(p) \/ Catalog!SaveCatalog(p) \/ Catalog!Fails(p)
      PROVE  CatalogIInv'
  BY <1>3, ProviderKeeps, SaveKeeps, FailsKeeps
<1>4. ASSUME NEW model, NEW effort, Catalog!ReadConfig(model, effort) PROVE CatalogIInv'
  BY <1>4, ConfigKeeps
<1>5. CASE Catalog!OpenConfig \/ Catalog!WriteConfig \/ Catalog!TTLPasses \/ Catalog!Edit
  BY <1>5, ConfigKeeps, TTLKeeps, EditKeeps
<1> QED BY <1>1, <1>2, <1>3, <1>4, <1>5 DEF Catalog!Next

LEMMA CatalogIsTold == Catalog!ProfilesAssumption /\ CatalogIInv => Catalog!LastKnownGood
<1> SUFFICES ASSUME Catalog!ProfilesAssumption, CatalogIInv, catalog.state = "whole", cspoiled \subseteq {"cut"}
             PROVE  /\ {Catalog!Key(p) : p \in {q \in catalog.profiles : q.usable}} = Catalog!Keys(reported)
                    /\ \A k \in curated : \E p \in catalog.profiles : Catalog!Key(p) = k /\ p.quality = 2
  BY DEF Catalog!LastKnownGood
<1>1. Good(catalog.profiles, reported, curated) /\ catalog.profiles \in SUBSET Profile /\ reported \subseteq Profile
  BY ProfilesAre DEF CatalogIInv, CatalogHolds, CatalogTypeInv, Catalogs
<1>2. \A x \in Profile : (\E p \in catalog.profiles : p.usable /\ Catalog!Key(p) = Catalog!Key(x)) <=> (\E q \in reported : Catalog!Key(q) = Catalog!Key(x))
  BY <1>1 DEF Good, Says
<1> QED BY <1>1, <1>2 DEF Good, KeepsIts, Catalog!Keys

-----------------------------------------------------------------------------
(* Agent launches.  A launch that is alone has only its own shims in the   *)
(* jail, and an agent runs only what its own launch allowed.               *)

AllowedBins == {"git", Agent!Engine} \cup (UNION Declared) \cup (UNION Languages)
LaunchPcs ==
  {"idle", "openctx", "writectx", "remove", "mkdir", "build", "link", "runs", "ended"}
Launches ==
  [allow : SUBSET AllowedBins, file : BOOLEAN, todo : SUBSET AllowedBins,
   cur : AllowedBins \cup {"none"}, confined : BOOLEAN]
AgentTypeInv ==
  /\ apc \in [Workers -> LaunchPcs] /\ work \in [Workers -> Launches]
  /\ told = [w \in Workers |-> told[w]] /\ ran = [w \in Workers |-> ran[w]]
  /\ overlapped \in BOOLEAN

(* Only an agent that runs has been told something and has run something,  *)
(* and its launch allows the engine.                                       *)
Brokered ==
  \A w \in Workers :
    /\ apc[w] # "runs" => ran[w] = {}
    /\ ran[w] \subseteq work[w].allow
    /\ Agent!UnderWay(w) => Agent!Engine \in work[w].allow

(* Launches one after the other. *)
AgentAlone == \A v, w \in Workers : Agent!UnderWay(v) /\ Agent!UnderWay(w) => v = w
(* The jail and what is still to be put into it are what is allowed.       *)
OwnJail ==
  \A w \in Workers :
    /\ apc[w] = "mkdir" => jail = {}
    /\ apc[w] = "build" => jail \cup work[w].todo = work[w].allow
    /\ apc[w] = "link" => jail \cup work[w].todo \cup {work[w].cur} = work[w].allow
    /\ apc[w] = "runs" => jail = work[w].allow /\ told[w] = w
(* The context file is that of the launch that will name it.               *)
OwnFile ==
  \A w \in Workers :
    /\ apc[w] \in {"remove", "mkdir", "build", "link"} /\ work[w].file => ctx = w
    /\ apc[w] \in {"openctx", "writectx"} => work[w].file = FALSE
Own == AgentAlone /\ OwnJail /\ OwnFile

(* A launch that has not begun names no file.                              *)
Fresh == \A w \in Workers : apc[w] = "idle" => work[w].file = FALSE

AgentIInv == AgentTypeInv /\ Brokered /\ Fresh /\ (~overlapped => Own)

LEMMA NoWorkType ==
  /\ Agent!NoWork \in Launches /\ Agent!NoWork.allow = {} /\ Agent!NoWork.file = FALSE
BY DEF Agent!NoWork, Launches

LEMMA AgentInitInv == Agent!Init => AgentIInv
<1> SUFFICES ASSUME Agent!Init PROVE AgentIInv
  OBVIOUS
<1>1. AgentTypeInv
  BY NoWorkType DEF Agent!Init, AgentTypeInv, LaunchPcs
<1>2. Brokered /\ Fresh /\ Own
  BY NoWorkType DEF Agent!Init, Brokered, Fresh, Own, AgentAlone, OwnJail, OwnFile, Agent!UnderWay
<1> QED BY <1>1, <1>2 DEF AgentIInv

(* Launches that are not under way have nothing at stake. *)
LEMMA OthersRest ==
  ASSUME AgentIInv, ~overlapped, NEW w \in Workers, Agent!UnderWay(w), NEW v \in Workers, v # w
  PROVE  apc[v] \in {"idle", "ended"}
BY DEF AgentIInv, Own, AgentAlone, Agent!UnderWay

(* A launch ends, wherever it is; what it leaves on disk is its own.       *)
LEMMA AgentEndKeeps ==
  ASSUME AgentIInv, NEW w \in Workers, Agent!UnderWay(w), Agent!End(w), overlapped' = overlapped,
         \/ apc[w] # "runs" /\ UNCHANGED <<told, ran>>
         \/ Agent!Forget(w)
  PROVE  AgentIInv'
<1>1. /\ apc' = [apc EXCEPT ![w] = "ended"] /\ work' = [work EXCEPT ![w] = Agent!NoWork]
  BY DEF Agent!End, Agent!Goto
<1>t. AgentTypeInv
  BY DEF AgentIInv
<1>2. \A v \in Workers : /\ apc'[v] = IF v = w THEN "ended" ELSE apc[v]
                         /\ work'[v] = IF v = w THEN Agent!NoWork ELSE work[v]
  BY <1>1, <1>t DEF AgentTypeInv
<1>3. /\ ran'[w] = {} /\ \A v \in Workers : v # w => ran'[v] = ran[v] /\ told'[v] = told[v]
      /\ told' = [v \in Workers |-> told'[v]] /\ ran' = [v \in Workers |-> ran'[v]]
  BY <1>t DEF Agent!Forget, AgentIInv, Brokered, AgentTypeInv
<1>4. AgentTypeInv'
  BY <1>1, <1>3, <1>t, NoWorkType DEF AgentTypeInv, LaunchPcs
<1>5. Brokered' /\ Fresh'
  BY <1>2, <1>3, NoWorkType DEF AgentIInv, Brokered, Fresh, Agent!UnderWay
<1>6. ASSUME ~overlapped' PROVE Own'
  <2>1. \A v \in Workers : apc'[v] \in {"idle", "ended"}
    BY <1>2, <1>6, OthersRest
  <2> QED BY <2>1 DEF Own, AgentAlone, OwnJail, OwnFile, Agent!UnderWay
<1> QED BY <1>4, <1>5, <1>6 DEF AgentIInv

LEMMA BeginKeeps ==
  ASSUME AgentIInv, NEW w \in Workers, Agent!Begin(w)
  PROVE  AgentIInv'
<1>1. PICK declared \in Declared, langTools \in Languages, cage \in BOOLEAN :
        /\ apc[w] = "idle"
        /\ work' = [work EXCEPT ![w].allow = Agent!effectiveAllowBins(declared, langTools), ![w].confined = cage]
        /\ overlapped' = (overlapped \/ \E v \in Workers : Agent!UnderWay(v))
        /\ apc' = [apc EXCEPT ![w] = "openctx"]
        /\ UNCHANGED <<ctx, jail, made, told, ran>>
  BY DEF Agent!Begin, Agent!Goto, Agent!disk, Agent!seen
<1> DEFINE allow == Agent!effectiveAllowBins(declared, langTools)
           j == [work[w] EXCEPT !.allow = allow, !.confined = cage]
<1>t. AgentTypeInv
  BY DEF AgentIInv
<1>2. allow \in SUBSET AllowedBins /\ Agent!Engine \in allow
  BY DEF Agent!effectiveAllowBins, AllowedBins
<1> HIDE DEF allow
<1>3. j \in Launches /\ j.allow = allow /\ j.file = work[w].file
  BY <1>2, <1>t DEF AgentTypeInv, Launches
<1>4. work' = [work EXCEPT ![w] = j]
  BY <1>1, <1>t DEF AgentTypeInv, allow
<1> HIDE DEF j
<1>5. \A v \in Workers : /\ apc'[v] = IF v = w THEN "openctx" ELSE apc[v]
                         /\ work'[v] = IF v = w THEN j ELSE work[v]
  BY <1>1, <1>4, <1>t DEF AgentTypeInv
<1>6. AgentTypeInv'
  BY <1>1, <1>3, <1>4, <1>t DEF AgentTypeInv, LaunchPcs
<1>r. ran' = ran /\ apc[w] = "idle"
  BY <1>1
<1>7. Brokered' /\ Fresh'
  <2>1. Brokered /\ Fresh /\ ran[w] = {}
    BY <1>r DEF AgentIInv, Brokered
  <2>2. Brokered'
    BY <1>r, <1>2, <1>3, <1>5, <2>1 DEF Brokered, Agent!UnderWay
  <2>3. Fresh'
    BY <1>5, <2>1 DEF Fresh
  <2> QED BY <2>2, <2>3
<1>8. ASSUME ~overlapped' PROVE Own'
  <2>1. Own /\ \A v \in Workers : ~Agent!UnderWay(v)
    BY <1>1, <1>8 DEF AgentIInv
  <2>2. \A v \in Workers : v # w => apc'[v] \in {"idle", "ended"}
    BY <1>5, <2>1 DEF Agent!UnderWay
  <2>3. j.file = FALSE
    BY <1>1, <1>3 DEF AgentIInv, Fresh
  <2>4. apc'[w] = "openctx" /\ work'[w].file = FALSE
    BY <1>5, <2>3
  <2> QED BY <2>2, <2>4 DEF Own, AgentAlone, OwnJail, OwnFile, Agent!UnderWay
<1> QED BY <1>6, <1>7, <1>8 DEF AgentIInv

(* A launch goes on: it alone is under way, with what it is allowed.       *)
LEMMA AgentGoesOn ==
  ASSUME AgentIInv, NEW w \in Workers, Agent!UnderWay(w), NEW l \in LaunchPcs \ {"idle", "ended"}, NEW j \in Launches,
         apc' = [apc EXCEPT ![w] = l], work' = [work EXCEPT ![w] = j], overlapped' = overlapped,
         j.allow = work[w].allow, apc[w] # "runs", ran' = ran,
         told' = told \/ \E x : told' = [told EXCEPT ![w] = x],
         ~overlapped =>
           /\ l = "mkdir" => jail' = {}
           /\ l = "build" => jail' \cup j.todo = j.allow
           /\ l = "link" => jail' \cup j.todo \cup {j.cur} = j.allow
           /\ l = "runs" => jail' = j.allow /\ told'[w] = w
           /\ l \in {"remove", "mkdir", "build", "link"} /\ j.file => ctx' = w
           /\ l \in {"openctx", "writectx"} => j.file = FALSE
  PROVE  AgentIInv'
<1>t. AgentTypeInv
  BY DEF AgentIInv
<1>2. \A v \in Workers : /\ apc'[v] = IF v = w THEN l ELSE apc[v]
                         /\ work'[v] = IF v = w THEN j ELSE work[v]
  BY <1>t DEF AgentTypeInv
<1>3. AgentTypeInv'
  BY <1>t DEF AgentTypeInv
<1>4. Brokered' /\ Fresh'
  BY <1>2 DEF AgentIInv, Brokered, Fresh, Agent!UnderWay
<1>5. ASSUME ~overlapped' PROVE Own'
  <2>1. \A v \in Workers : v # w => apc'[v] \in {"idle", "ended"}
    BY <1>2, <1>5, OthersRest
  <2>2. apc'[w] = l /\ work'[w] = j
    BY <1>2
  <2> QED BY <1>5, <2>1, <2>2 DEF Own, AgentAlone, OwnJail, OwnFile, Agent!UnderWay
<1> QED BY <1>3, <1>4, <1>5 DEF AgentIInv

LEMMA ContextKeeps ==
  ASSUME AgentIInv, NEW w \in Workers, Agent!OpenContext(w) \/ Agent!WriteContext(w) \/ Agent!ContextFails(w)
  PROVE  AgentIInv'
<1>t. AgentTypeInv /\ work[w] \in Launches /\ work = [work EXCEPT ![w] = work[w]]
  BY DEF AgentIInv, AgentTypeInv
<1>f. ~overlapped /\ apc[w] \in {"openctx", "writectx"} => work[w].file = FALSE
  BY DEF AgentIInv, Own, OwnFile
<1>1. CASE Agent!OpenContext(w)
  <2>1. /\ apc[w] = "openctx" /\ apc' = [apc EXCEPT ![w] = "writectx"] /\ work' = [work EXCEPT ![w] = work[w]]
        /\ UNCHANGED <<told, ran, overlapped>>
    BY <1>1, <1>t DEF Agent!OpenContext, Agent!Goto, Agent!seen
  <2> QED BY <1>f, <1>t, <2>1, AgentGoesOn DEF Agent!UnderWay, LaunchPcs
<1>2. CASE Agent!ContextFails(w)
  <2>1. /\ apc[w] = "openctx" /\ apc' = [apc EXCEPT ![w] = "remove"] /\ work' = [work EXCEPT ![w] = work[w]]
        /\ UNCHANGED <<told, ran, overlapped>>
    BY <1>2, <1>t DEF Agent!ContextFails, Agent!Goto, Agent!seen
  <2> QED BY <1>f, <1>t, <2>1, AgentGoesOn DEF Agent!UnderWay, LaunchPcs
<1>3. CASE Agent!WriteContext(w) /\ Agent!End(w)
  BY <1>3, AgentEndKeeps DEF Agent!WriteContext, Agent!seen, Agent!UnderWay
<1>4. CASE Agent!WriteContext(w) /\ ~Agent!End(w)
  <2>1. /\ apc[w] = "writectx" /\ apc' = [apc EXCEPT ![w] = "remove"] /\ ctx' = w
        /\ work' = [work EXCEPT ![w] = [work[w] EXCEPT !.file = TRUE]]
        /\ UNCHANGED <<told, ran, overlapped>>
    BY <1>4, <1>t DEF Agent!WriteContext, Agent!Goto, Agent!seen
  <2>2. [work[w] EXCEPT !.file = TRUE] \in Launches
        /\ [work[w] EXCEPT !.file = TRUE].allow = work[w].allow
    BY <1>t DEF Launches
  <2> QED BY <2>1, <2>2, AgentGoesOn DEF Agent!UnderWay, LaunchPcs
<1> QED BY <1>1, <1>2, <1>3, <1>4

LEMMA JailKeeps ==
  ASSUME AgentIInv, NEW w \in Workers, Agent!RemoveJail(w) \/ Agent!MakeJail(w)
  PROVE  AgentIInv'
<1>t. AgentTypeInv /\ work[w] \in Launches /\ work = [work EXCEPT ![w] = work[w]]
  BY DEF AgentIInv, AgentTypeInv
<1>f. ~overlapped /\ apc[w] \in {"remove", "mkdir"} /\ work[w].file => ctx = w
  BY DEF AgentIInv, Own, OwnFile
<1>1. CASE Agent!RemoveJail(w)
  <2>1. /\ apc[w] = "remove" /\ apc' = [apc EXCEPT ![w] = "mkdir"] /\ work' = [work EXCEPT ![w] = work[w]]
        /\ jail' = {} /\ UNCHANGED <<ctx, told, ran, overlapped>>
    BY <1>1, <1>t DEF Agent!RemoveJail, Agent!Goto, Agent!seen
  <2> QED BY <1>f, <1>t, <2>1, AgentGoesOn DEF Agent!UnderWay, LaunchPcs
<1>2. CASE Agent!MakeJail(w)
  <2> DEFINE j == [work[w] EXCEPT !.todo = work[w].allow]
  <2>1. /\ apc[w] = "mkdir" /\ apc' = [apc EXCEPT ![w] = "build"] /\ work' = [work EXCEPT ![w] = j]
        /\ UNCHANGED <<ctx, jail, told, ran, overlapped>>
    BY <1>2, <1>t DEF Agent!MakeJail, Agent!Goto, Agent!seen
  <2>2. j \in Launches /\ j.allow = work[w].allow /\ j.todo = work[w].allow /\ j.file = work[w].file
    BY <1>t DEF Launches
  <2> HIDE DEF j
  <2>3. ~overlapped => jail = {}
    BY <2>1 DEF AgentIInv, Own, OwnJail
  <2> QED BY <1>f, <2>1, <2>2, <2>3, AgentGoesOn DEF Agent!UnderWay, LaunchPcs
<1> QED BY <1>1, <1>2

LEMMA ShimKeeps ==
  ASSUME AgentIInv, NEW w \in Workers, Agent!Lstat(w) \/ Agent!Link(w)
  PROVE  AgentIInv'
<1>t. AgentTypeInv /\ work[w] \in Launches /\ work = [work EXCEPT ![w] = work[w]]
  BY DEF AgentIInv, AgentTypeInv
<1>f. ~overlapped /\ apc[w] \in {"build", "link"} /\ work[w].file => ctx = w
  BY DEF AgentIInv, Own, OwnFile
<1>1. CASE Agent!Lstat(w)
  <2> DEFINE b == CHOOSE x \in work[w].todo : TRUE
             j == [work[w] EXCEPT !.todo = @ \ {b}, !.cur = b]
             l == IF b \in jail THEN "build" ELSE "link"
  <2>0. b \in work[w].todo
    BY <1>1 DEF Agent!Lstat
  <2>1. /\ apc[w] = "build" /\ work' = [work EXCEPT ![w] = j]
        /\ apc' = IF b \in jail THEN apc ELSE [apc EXCEPT ![w] = "link"]
        /\ UNCHANGED <<ctx, jail, told, ran, overlapped>>
    BY <1>1, <1>t DEF Agent!Lstat, Agent!Goto, Agent!seen, Agent!disk
  <2>2. apc' = [apc EXCEPT ![w] = l]
    BY <1>t, <2>1 DEF AgentTypeInv
  <2> HIDE DEF b
  <2>3. j \in Launches /\ j.allow = work[w].allow /\ j.todo = work[w].todo \ {b} /\ j.cur = b /\ j.file = work[w].file
    BY <1>t, <2>0 DEF Launches
  <2> HIDE DEF j
  <2>4. ~overlapped => /\ b \in jail => jail \cup j.todo = j.allow
                       /\ jail \cup j.todo \cup {j.cur} = j.allow
    BY <2>0, <2>1, <2>3 DEF AgentIInv, Own, OwnJail
  <2>5. l \in LaunchPcs \ {"idle", "ended"} /\ l \in {"build", "link"} /\ (l = "build" => b \in jail)
    BY DEF LaunchPcs
  <2> HIDE DEF l
  <2> QED BY <1>f, <2>1, <2>2, <2>3, <2>4, <2>5, AgentGoesOn DEF Agent!UnderWay
<1>2. CASE Agent!Link(w) /\ made /\ work[w].cur \notin jail
  <2>1. /\ apc[w] = "link" /\ work' = [work EXCEPT ![w] = work[w]] /\ apc' = [apc EXCEPT ![w] = "build"]
        /\ jail' = jail \cup {work[w].cur} /\ UNCHANGED <<ctx, told, ran, overlapped>>
    BY <1>2, <1>t DEF Agent!Link, Agent!Goto, Agent!seen
  <2>2. ~overlapped => jail' \cup work[w].todo = work[w].allow
    BY <2>1 DEF AgentIInv, Own, OwnJail
  <2> QED BY <1>f, <1>t, <2>1, <2>2, AgentGoesOn DEF Agent!UnderWay, LaunchPcs
<1>3. CASE Agent!Link(w) /\ ~(made /\ work[w].cur \notin jail)
  BY <1>3, AgentEndKeeps DEF Agent!Link, Agent!seen, Agent!UnderWay
<1> QED BY <1>1, <1>2, <1>3

LEMMA LaunchKeeps ==
  ASSUME AgentIInv, NEW w \in Workers, Agent!Launch(w)
  PROVE  AgentIInv'
<1>t. AgentTypeInv /\ work[w] \in Launches /\ work = [work EXCEPT ![w] = work[w]]
  BY DEF AgentIInv, AgentTypeInv
<1>1. CASE Agent!End(w) /\ UNCHANGED told
  BY <1>1, AgentEndKeeps DEF Agent!Launch, Agent!UnderWay
<1>2. CASE ~(Agent!End(w) /\ UNCHANGED told)
  <2>1. /\ apc[w] = "build" /\ work[w].todo = {}
        /\ told' = [told EXCEPT ![w] = IF work[w].file THEN ctx ELSE w]
        /\ apc' = [apc EXCEPT ![w] = "runs"] /\ work' = [work EXCEPT ![w] = work[w]]
        /\ UNCHANGED <<ctx, jail, ran, overlapped>>
    BY <1>2, <1>t DEF Agent!Launch, Agent!Goto, Agent!disk
  <2>2. told'[w] = IF work[w].file THEN ctx ELSE w
    BY <1>t, <2>1 DEF AgentTypeInv
  <2>3. ~overlapped => jail' = work[w].allow /\ told'[w] = w
    BY <2>1, <2>2 DEF AgentIInv, Own, OwnJail, OwnFile
  <2> QED BY <1>t, <2>1, <2>3, AgentGoesOn DEF Agent!UnderWay, LaunchPcs
<1> QED BY <1>1, <1>2

LEMMA ExecKeeps ==
  ASSUME AgentIInv, NEW w \in Workers, NEW b \in Bins, Agent!runBrokeredExec(w, b)
  PROVE  AgentIInv'
<1>1. /\ apc[w] = "runs" /\ b \in work[w].allow
      /\ ran' = [ran EXCEPT ![w] = {b}] /\ UNCHANGED <<ctx, jail, apc, work, told, overlapped>>
  BY DEF Agent!runBrokeredExec, Agent!checkExec, Agent!disk, AgentIInv, Brokered, Agent!UnderWay
<1>2. \A v \in Workers : ran'[v] = IF v = w THEN {b} ELSE ran[v]
  BY <1>1 DEF AgentIInv, AgentTypeInv
<1>3. AgentTypeInv' /\ Brokered' /\ Fresh'
  BY <1>1, <1>2 DEF AgentIInv, AgentTypeInv, Brokered, Fresh, Agent!UnderWay
<1>4. Own => Own'
  BY <1>1 DEF Own, AgentAlone, OwnJail, OwnFile, Agent!UnderWay
<1> QED BY <1>1, <1>3, <1>4 DEF AgentIInv

LEMMA AgentInvNext == AgentIInv /\ [Agent!Next]_(Agent!vars) => AgentIInv'
<1> SUFFICES ASSUME AgentIInv, [Agent!Next]_(Agent!vars) PROVE AgentIInv'
  OBVIOUS
<1>1. CASE UNCHANGED Agent!vars
  BY <1>1 DEF Agent!vars, AgentIInv, AgentTypeInv, Brokered, Fresh, Own, AgentAlone, OwnJail, OwnFile, Agent!UnderWay
<1>2. ASSUME NEW w \in Workers, Agent!AgentExits(w) \/ Agent!Killed(w) PROVE AgentIInv'
  BY <1>2, AgentEndKeeps DEF Agent!AgentExits, Agent!Killed, Agent!UnderWay
<1>3. CASE Agent!Next
  BY <1>2, <1>3, BeginKeeps, ContextKeeps, JailKeeps, ShimKeeps, LaunchKeeps, ExecKeeps DEF Agent!Next
<1> QED BY <1>1, <1>3

-----------------------------------------------------------------------------
(* Secrets.  One key is about and opens what is sealed, and what was       *)
(* acknowledged is in the file or in the hands of who writes it.           *)

Values == [Codenames -> Nat]
Jobs == [op : {"none", "set", "rm", "exec"}, name : Codenames \cup {"none", Secret!AnyName}, key : Nat, sealed : Values]
States == {"idle", "openkey", "writekey", "load", "loaded", "openstore", "writestore"}
SecretTypeInv ==
  /\ key \in Nat /\ sealed \in Values \cup {Secret!Cut} /\ keys \in Nat
  /\ xpc \in [Processes -> States] /\ job \in [Processes -> Jobs]
  /\ \A p \in Processes : (xpc[p] # "idle" => job[p].key # 0) /\ (job[p].op \in {"set", "rm"} => job[p].name \in Codenames)
  /\ raced \subseteq {"key", "set"}

(* A first key is made by one process, while there is none.                *)
OneKey ==
  /\ \A p, q \in Processes : xpc[p] \in Secret!MakesKey /\ xpc[q] \in Secret!MakesKey => p = q
  /\ \A p \in Processes : xpc[p] \in Secret!MakesKey => key = 0
(* Whoever loads or writes values has the key of the file.                 *)
KeyHeld == \A p \in Processes : xpc[p] \in {"load"} \cup Secret!Writes => key # 0 /\ job[p].key = key
Readable(s, k) == \A n \in DOMAIN s : s[n] \in {0, k}
CopyReadable == \A p \in Processes : xpc[p] \in Secret!Writes => Readable(job[p].sealed, key)
Opened == OneKey /\ KeyHeld /\ CopyReadable /\ Readable(sealed, key) /\ lacked = FALSE

(* Values are rewritten by one process, from what is in the file.          *)
OneWrite == \A p, q \in Processes : xpc[p] \in Secret!Writes /\ xpc[q] \in Secret!Writes => p = q
Has(s, A) == \A n \in A : n \in Codenames /\ s[n] # 0
CopyKeeps ==
  \A p \in Processes :
    /\ xpc[p] = "loaded" => job[p].sealed = sealed /\ Has(sealed, acked)
    /\ xpc[p] \in {"openstore", "writestore"} =>
         Has(job[p].sealed, IF job[p].op = "set" THEN acked \cup {job[p].name} ELSE acked \ {job[p].name})
FileKeeps == sealed # Secret!Cut => Has(sealed, acked)
Kept == OneWrite /\ CopyKeeps /\ FileKeeps

SecretIInv == SecretTypeInv /\ ("key" \notin raced => Opened) /\ (raced = {} => Kept)

LEMMA NothingTypes ==
  /\ Secret!Nothing \in Values /\ Secret!NoWork \in Jobs /\ Secret!NoWork.op = "none"
  /\ \A k : Readable(Secret!Nothing, k) /\ Readable(Secret!Cut, k)
BY DEF Secret!Nothing, Values, Secret!NoWork, Jobs, Readable, Secret!Cut

JobFor(op, n, k) == [Secret!NoWork EXCEPT !.op = op, !.name = n, !.key = k]
LEMMA JobForType ==
  ASSUME NEW k \in Nat, NEW op \in {"set", "rm", "exec"}, NEW n \in Codenames \cup {Secret!AnyName}
  PROVE  /\ JobFor(op, n, k) \in Jobs /\ JobFor(op, n, k).op = op
         /\ JobFor(op, n, k).name = n /\ JobFor(op, n, k).key = k
BY NothingTypes DEF JobFor, Secret!NoWork, Jobs

LEMMA SecretInitInv == Secret!Init => SecretIInv
<1> SUFFICES ASSUME Secret!Init PROVE SecretIInv
  OBVIOUS
<1>1. SecretTypeInv
  BY NothingTypes DEF Secret!Init, SecretTypeInv, States
<1>2. Opened
  BY NothingTypes DEF Secret!Init, Opened, OneKey, KeyHeld, CopyReadable, Secret!MakesKey, Secret!Writes
<1>3. Kept
  BY DEF Secret!Init, Kept, OneWrite, CopyKeeps, FileKeeps, Secret!Writes, Has
<1> QED BY <1>1, <1>2, <1>3 DEF SecretIInv

LEMMA OpenKeeps ==
  ASSUME SecretIInv, NEW p \in Processes, NEW op \in {"set", "rm", "exec"}, NEW name \in Codenames \cup {Secret!AnyName},
         op \in {"set", "rm"} => name \in Codenames, Secret!Open(p, op, name)
  PROVE  SecretIInv'
<1> DEFINE k == IF key # 0 THEN key ELSE keys + 1
           l == IF key # 0 THEN "load" ELSE "openkey"
           j == JobFor(op, name, k)
<1>1. /\ xpc[p] = "idle" /\ UNCHANGED <<key, sealed, lacked, acked>>
      /\ job' = [job EXCEPT ![p] = j] /\ xpc' = [xpc EXCEPT ![p] = l]
      /\ keys' \in Nat
      /\ raced' = raced \cup IF key = 0 /\ Secret!Others(p, Secret!MakesKey) THEN {"key"} ELSE {}
  <2>1. CASE key # 0
    BY <2>1 DEF Secret!Open, Secret!Goto, SecretIInv, SecretTypeInv, JobFor
  <2>2. CASE key = 0
    BY <2>2 DEF Secret!Open, Secret!Goto, SecretIInv, SecretTypeInv, JobFor
  <2> QED BY <2>1, <2>2
<1>2. /\ k \in Nat /\ k # 0 /\ j \in Jobs /\ j.op = op /\ j.name = name /\ j.key = k
      /\ l \in States /\ l \notin Secret!Writes /\ l # "idle"
  <2>1. k \in Nat /\ k # 0 /\ l \in States /\ l \notin Secret!Writes /\ l # "idle"
    BY DEF SecretIInv, SecretTypeInv, States, Secret!Writes
  <2> HIDE DEF k
  <2> QED BY <2>1, JobForType
<1>3. /\ l = "load" => key # 0 /\ k = key
      /\ l \in Secret!MakesKey => key = 0
  BY DEF Secret!MakesKey
<1> HIDE DEF j, k, l
<1>t. SecretTypeInv
  BY DEF SecretIInv
<1>4. \A q \in Processes : /\ xpc'[q] = IF q = p THEN l ELSE xpc[q]
                       /\ job'[q] = IF q = p THEN j ELSE job[q]
  BY <1>1, <1>t DEF SecretTypeInv
<1>5. SecretTypeInv'
  BY <1>1, <1>2, <1>4, <1>t DEF SecretTypeInv
<1>6. ASSUME "key" \notin raced' PROVE Opened'
  <2>1. Opened /\ (key = 0 => ~Secret!Others(p, Secret!MakesKey))
    BY <1>1, <1>6 DEF SecretIInv
  <2>2. OneKey'
    BY <1>1, <1>3, <1>4, <2>1 DEF Opened, OneKey, Secret!Others
  <2>3. KeyHeld' /\ CopyReadable'
    BY <1>1, <1>2, <1>3, <1>4, <2>1 DEF Opened, KeyHeld, CopyReadable, States
  <2> QED BY <1>1, <2>1, <2>2, <2>3 DEF Opened
<1>7. ASSUME raced' = {} PROVE Kept'
  <2>1. Kept
    BY <1>1, <1>7 DEF SecretIInv
  <2> QED BY <1>1, <1>2, <1>4, <2>1 DEF Kept, OneWrite, CopyKeeps, FileKeeps, Secret!Writes
<1> QED BY <1>5, <1>6, <1>7 DEF SecretIInv

LEMMA KeyKeeps ==
  ASSUME SecretIInv, NEW p \in Processes, Secret!OpenKey(p) \/ Secret!WriteKey(p)
  PROVE  SecretIInv'
<1> DEFINE l == IF xpc[p] = "openkey" THEN "writekey" ELSE "load"
<1>1. /\ xpc[p] \in Secret!MakesKey /\ UNCHANGED <<sealed, job, lacked, acked, keys, raced>>
      /\ xpc' = [xpc EXCEPT ![p] = l]
      /\ key' = IF l = "load" THEN job[p].key ELSE 0
  BY DEF Secret!OpenKey, Secret!WriteKey, Secret!Goto, Secret!bounds, Secret!MakesKey
<1>2. l \in States /\ l \notin Secret!Writes /\ l # "idle" /\ (l # "load" => l \in Secret!MakesKey)
  BY DEF States, Secret!Writes, Secret!MakesKey
<1> HIDE DEF l
<1>t. SecretTypeInv /\ job[p].key \in Nat /\ job[p].key # 0
  BY <1>1 DEF SecretIInv, SecretTypeInv, Secret!MakesKey, Jobs
<1>4. \A q \in Processes : xpc'[q] = IF q = p THEN l ELSE xpc[q]
  BY <1>1, <1>t DEF SecretTypeInv
<1>5. SecretTypeInv'
  BY <1>1, <1>2, <1>4, <1>t DEF SecretTypeInv, Secret!MakesKey
<1>6. ASSUME "key" \notin raced' PROVE Opened'
  <2>1. Opened /\ key = 0 /\ \A q \in Processes : xpc[q] \in Secret!MakesKey => q = p
    BY <1>1, <1>6 DEF SecretIInv, Opened, OneKey
  <2>2. \A q \in Processes : xpc[q] \notin {"load"} \cup Secret!Writes
    BY <2>1 DEF Opened, KeyHeld
  <2>3. OneKey'
    BY <1>1, <1>2, <1>4, <2>1 DEF OneKey, Secret!MakesKey
  <2>4. Readable(sealed, key)'
    BY <1>1, <2>1 DEF Opened, Readable
  <2>5. KeyHeld' /\ CopyReadable'
    BY <1>1, <1>2, <1>4, <1>t, <2>2 DEF KeyHeld, CopyReadable
  <2>6. lacked' = FALSE
    BY <1>1, <2>1 DEF Opened
  <2> QED BY <2>3, <2>4, <2>5, <2>6 DEF Opened
<1>7. ASSUME raced' = {} PROVE Kept'
  <2>1. Kept
    BY <1>1, <1>7 DEF SecretIInv
  <2> QED BY <1>1, <1>2, <1>4, <2>1 DEF Kept, OneWrite, CopyKeeps, FileKeeps, Secret!Writes
<1> QED BY <1>5, <1>6, <1>7 DEF SecretIInv

(* A process ends, and leaves the files alone. *)
LEMMA Ends ==
  ASSUME SecretIInv, NEW p \in Processes, Secret!End(p), UNCHANGED <<key, sealed, acked, raced>>, keys' = keys,
         "key" \notin raced => lacked' = lacked
  PROVE  SecretIInv'
<1>1. /\ xpc' = [xpc EXCEPT ![p] = "idle"] /\ job' = [job EXCEPT ![p] = Secret!NoWork]
  BY DEF Secret!End, Secret!Goto
<1>t. SecretTypeInv
  BY DEF SecretIInv
<1>4. \A q \in Processes : /\ xpc'[q] = IF q = p THEN "idle" ELSE xpc[q]
                       /\ job'[q] = IF q = p THEN Secret!NoWork ELSE job[q]
  BY <1>1, <1>t DEF SecretTypeInv
<1>5. SecretTypeInv'
  <2>1. "idle" \in States /\ Secret!NoWork \in Jobs /\ Secret!NoWork.op \notin {"set", "rm"}
    BY NothingTypes DEF States
  <2> QED BY <1>1, <1>4, <1>t, <2>1 DEF SecretTypeInv
<1>6. ASSUME "key" \notin raced' PROVE Opened'
  BY <1>4, <1>6 DEF SecretIInv, Opened, OneKey, KeyHeld, CopyReadable, Secret!MakesKey, Secret!Writes
<1>7. ASSUME raced' = {} PROVE Kept'
  BY <1>4, <1>7 DEF SecretIInv, Kept, OneWrite, CopyKeeps, FileKeeps, Secret!Writes
<1> QED BY <1>5, <1>6, <1>7 DEF SecretIInv

LEMMA LoadKeeps ==
  ASSUME SecretIInv, NEW p \in Processes, Secret!LoadStore(p)
  PROVE  SecretIInv'
<1>1. CASE sealed = Secret!Cut
  BY <1>1, Ends DEF Secret!LoadStore, Secret!bounds
<1>2. CASE sealed # Secret!Cut
  <2>1. /\ xpc[p] = "load" /\ UNCHANGED <<key, sealed, lacked, acked, keys>>
        /\ xpc' = [xpc EXCEPT ![p] = "loaded"] /\ job' = [job EXCEPT ![p].sealed = sealed]
        /\ raced' = raced \cup IF Secret!Others(p, Secret!Writes) THEN {"set"} ELSE {}
    BY <1>2 DEF Secret!LoadStore, Secret!Goto, Secret!bounds
  <2>t. SecretTypeInv /\ sealed \in Values
    BY <1>2 DEF SecretIInv, SecretTypeInv
  <2>2. \A q \in Processes : /\ xpc'[q] = IF q = p THEN "loaded" ELSE xpc[q]
                         /\ job'[q] = IF q = p THEN [job[p] EXCEPT !.sealed = sealed] ELSE job[q]
    BY <2>1, <2>t DEF SecretTypeInv
  <2>3. /\ [job[p] EXCEPT !.sealed = sealed] \in Jobs
        /\ job'[p].sealed = sealed /\ job'[p].key = job[p].key
        /\ job'[p].op = job[p].op /\ job'[p].name = job[p].name
    BY <2>2, <2>t DEF SecretTypeInv, Jobs
  <2>4. SecretTypeInv'
    BY <2>1, <2>2, <2>3, <2>t DEF SecretTypeInv, States
  <2>5. ASSUME "key" \notin raced' PROVE Opened'
    <3>1. Opened
      BY <2>1, <2>5 DEF SecretIInv
    <3>2. OneKey'
      BY <2>1, <2>2, <3>1 DEF Opened, OneKey, Secret!MakesKey
    <3> QED BY <2>1, <2>2, <2>3, <3>1, <3>2 DEF Opened, KeyHeld, CopyReadable, Secret!Writes
  <2>6. ASSUME raced' = {} PROVE Kept'
    <3>1. Kept /\ ~Secret!Others(p, Secret!Writes)
      BY <2>1, <2>6 DEF SecretIInv
    <3>2. OneWrite'
      BY <2>1, <2>2, <3>1 DEF Kept, OneWrite, Secret!Others
    <3> QED BY <1>2, <2>1, <2>2, <2>3, <3>1, <3>2 DEF Kept, CopyKeeps, FileKeeps, Secret!Writes
  <2> QED BY <2>4, <2>5, <2>6 DEF SecretIInv
<1> QED BY <1>1, <1>2

(* The copy gets or loses the name of the command. *)
LEMMA CopyKeepsUp ==
  ASSUME SecretIInv, NEW p \in Processes, xpc[p] = "loaded", NEW v,
         (job[p].op = "set" /\ v = job[p].key) \/ (job[p].op = "rm" /\ v = 0),
         job' = [job EXCEPT ![p].sealed[job[p].name] = v], Secret!Goto(p, "openstore"),
         UNCHANGED <<key, sealed, lacked, acked, keys, raced>>
  PROVE  SecretIInv'
<1> DEFINE name == job[p].name
           copy == [job[p].sealed EXCEPT ![name] = v]
<1>t. SecretTypeInv /\ v \in Nat /\ name \in Codenames /\ job[p] \in Jobs /\ job[p].sealed \in Values
      /\ (job[p].op = "set" => v # 0)
  BY DEF SecretIInv, SecretTypeInv, Jobs
<1>1. /\ xpc' = [xpc EXCEPT ![p] = "openstore"]
      /\ job' = [job EXCEPT ![p] = [job[p] EXCEPT !.sealed = copy]]
  BY <1>t DEF Secret!Goto, SecretTypeInv
<1>2. copy \in Values /\ \A n \in Codenames : copy[n] = IF n = name THEN v ELSE job[p].sealed[n]
  BY <1>t DEF Values
<1> HIDE DEF copy
<1>3. \A q \in Processes : /\ xpc'[q] = IF q = p THEN "openstore" ELSE xpc[q]
                       /\ job'[q] = IF q = p THEN [job[p] EXCEPT !.sealed = copy] ELSE job[q]
  BY <1>1, <1>t DEF SecretTypeInv
<1>4. /\ [job[p] EXCEPT !.sealed = copy] \in Jobs
      /\ job'[p].sealed = copy /\ job'[p].key = job[p].key
      /\ job'[p].op = job[p].op /\ job'[p].name = job[p].name
  BY <1>2, <1>3, <1>t DEF Jobs
<1>5. SecretTypeInv'
  BY <1>1, <1>3, <1>4, <1>t DEF SecretTypeInv, States
<1>6. ASSUME "key" \notin raced' PROVE Opened'
  <2>1. Opened /\ job[p].key = key /\ Readable(job[p].sealed, key)
    BY <1>6 DEF SecretIInv, Opened, KeyHeld, CopyReadable, Secret!Writes
  <2>2. Readable(copy, key)
    BY <1>2, <1>t, <2>1 DEF Readable, Values
  <2>3. OneKey'
    BY <1>3, <2>1 DEF Opened, OneKey, Secret!MakesKey
  <2> QED BY <1>3, <1>4, <2>1, <2>2, <2>3 DEF Opened, KeyHeld, CopyReadable, Secret!Writes
<1>7. ASSUME raced' = {} PROVE Kept'
  <2>1. Kept /\ job[p].sealed = sealed /\ Has(sealed, acked)
    BY <1>7 DEF SecretIInv, Kept, CopyKeeps
  <2>2. Has(copy, IF job[p].op = "set" THEN acked \cup {name} ELSE acked \ {name})
    BY <1>2, <1>t, <2>1 DEF Has
  <2>3. OneWrite'
    BY <1>3, <2>1 DEF Kept, OneWrite, Secret!Writes
  <2>4. CopyKeeps'
    <3> SUFFICES ASSUME NEW q \in Processes
                 PROVE  /\ xpc'[q] = "loaded" => job'[q].sealed = sealed /\ Has(sealed, acked)
                        /\ xpc'[q] \in {"openstore", "writestore"} =>
                             Has(job'[q].sealed,
                                 IF job'[q].op = "set" THEN acked \cup {job'[q].name} ELSE acked \ {job'[q].name})
      BY DEF CopyKeeps
    <3>1. CASE q = p
      BY <1>3, <1>4, <2>2, <3>1
    <3>2. CASE q # p
      BY <1>3, <2>1, <3>2 DEF Kept, CopyKeeps
    <3> QED BY <3>1, <3>2
  <2>5. FileKeeps'
    BY <2>1 DEF Kept, FileKeeps
  <2> QED BY <2>3, <2>4, <2>5 DEF Kept
<1> QED BY <1>5, <1>6, <1>7 DEF SecretIInv

LEMMA OpenStoreKeeps ==
  ASSUME SecretIInv, NEW p \in Processes, Secret!OpenStore(p)
  PROVE  SecretIInv'
<1>1. /\ xpc[p] = "openstore" /\ sealed' = Secret!Cut /\ UNCHANGED <<key, job, lacked, acked, keys, raced>>
      /\ xpc' = [xpc EXCEPT ![p] = "writestore"]
  BY DEF Secret!OpenStore, Secret!Goto, Secret!bounds
<1>2. SecretTypeInv /\ \A q \in Processes : xpc'[q] = IF q = p THEN "writestore" ELSE xpc[q]
  BY <1>1 DEF SecretIInv, SecretTypeInv
<1>3. SecretTypeInv'
  BY <1>1, <1>2 DEF SecretTypeInv, States
<1>4. ASSUME "key" \notin raced' PROVE Opened'
  <2>1. Opened
    BY <1>1, <1>4 DEF SecretIInv
  <2>2. OneKey' /\ KeyHeld'
    BY <1>1, <1>2, <2>1 DEF Opened, OneKey, KeyHeld, Secret!MakesKey, Secret!Writes
  <2>3. CopyReadable'
    BY <1>1, <1>2, <2>1 DEF Opened, CopyReadable, Secret!Writes
  <2> QED BY <1>1, <2>1, <2>2, <2>3, NothingTypes DEF Opened
<1>5. ASSUME raced' = {} PROVE Kept'
  <2>1. Kept /\ \A q \in Processes : xpc[q] \in Secret!Writes => q = p
    BY <1>1, <1>5 DEF SecretIInv, Kept, OneWrite, Secret!Writes
  <2> QED BY <1>1, <1>2, <2>1 DEF Kept, OneWrite, CopyKeeps, FileKeeps, Secret!Writes
<1> QED BY <1>3, <1>4, <1>5 DEF SecretIInv

LEMMA WriteStoreKeeps ==
  ASSUME SecretIInv, NEW p \in Processes, Secret!WriteStore(p)
  PROVE  SecretIInv'
<1>1. /\ xpc[p] = "writestore" /\ sealed' = job[p].sealed /\ UNCHANGED <<key, lacked, keys, raced>>
      /\ acked' = IF job[p].op = "set" THEN acked \cup {job[p].name} ELSE acked \ {job[p].name}
      /\ xpc' = [xpc EXCEPT ![p] = "idle"] /\ job' = [job EXCEPT ![p] = Secret!NoWork]
  BY DEF Secret!WriteStore, Secret!End, Secret!Goto, Secret!bounds
<1>2. SecretTypeInv /\ job[p].sealed \in Values
      /\ \A q \in Processes : /\ xpc'[q] = IF q = p THEN "idle" ELSE xpc[q]
                          /\ job'[q] = IF q = p THEN Secret!NoWork ELSE job[q]
  BY <1>1 DEF SecretIInv, SecretTypeInv, Jobs
<1>3. SecretTypeInv'
  <2>1. "idle" \in States /\ Secret!NoWork \in Jobs /\ Secret!NoWork.op \notin {"set", "rm"}
    BY NothingTypes DEF States
  <2> QED BY <1>1, <1>2, <2>1 DEF SecretTypeInv
<1>4. ASSUME "key" \notin raced' PROVE Opened'
  BY <1>1, <1>2, <1>4 DEF SecretIInv, Opened, OneKey, KeyHeld, CopyReadable, Secret!MakesKey, Secret!Writes
<1>5. ASSUME raced' = {} PROVE Kept'
  <2>1. Kept /\ \A q \in Processes : xpc[q] \in Secret!Writes => q = p
    BY <1>1, <1>5 DEF SecretIInv, Kept, OneWrite, Secret!Writes
  <2>2. Has(sealed', acked')
    BY <1>1, <2>1 DEF Kept, CopyKeeps
  <2> QED BY <1>2, <2>1, <2>2 DEF Kept, OneWrite, CopyKeeps, FileKeeps, Secret!Writes
<1> QED BY <1>3, <1>4, <1>5 DEF SecretIInv

LEMMA ResolveKeeps ==
  ASSUME SecretIInv, NEW p \in Processes, Secret!Resolve(p)
  PROVE  SecretIInv'
<1>1. "key" \notin raced => lacked' = lacked
  <2> SUFFICES ASSUME "key" \notin raced, NEW n \in Codenames PROVE job[p].sealed[n] \in {0, job[p].key}
    BY DEF Secret!Resolve, SecretIInv, Opened
  <2>1. Readable(job[p].sealed, key) /\ job[p].key = key /\ job[p].sealed \in Values
    BY DEF Secret!Resolve, SecretIInv, SecretTypeInv, Jobs, Opened, CopyReadable, KeyHeld, Secret!Writes
  <2> QED BY <2>1 DEF Readable, Values
<1> QED BY <1>1, Ends DEF Secret!Resolve, Secret!bounds

LEMMA SecretInvNext == SecretIInv /\ [Secret!Next]_(Secret!vars) => SecretIInv'
<1> SUFFICES ASSUME SecretIInv, [Secret!Next]_(Secret!vars) PROVE SecretIInv'
  OBVIOUS
<1>1. CASE UNCHANGED Secret!vars
  BY <1>1 DEF Secret!vars, SecretIInv, SecretTypeInv, Opened, OneKey, KeyHeld, CopyReadable, Kept, OneWrite, CopyKeeps, FileKeeps
<1>2. CASE Secret!Next
  <2>1. PICK p \in Processes :
          \/ \E n \in Codenames : Secret!Open(p, "set", n) \/ Secret!Open(p, "rm", n)
          \/ Secret!Open(p, "exec", Secret!AnyName)
          \/ Secret!OpenKey(p) \/ Secret!WriteKey(p) \/ Secret!LoadStore(p)
          \/ Secret!Set(p) \/ Secret!Delete(p) \/ Secret!OpenStore(p) \/ Secret!WriteStore(p) \/ Secret!Resolve(p) \/ Secret!Killed(p)
    BY <1>2 DEF Secret!Next
  <2>2. CASE (\E n \in Codenames : Secret!Open(p, "set", n) \/ Secret!Open(p, "rm", n)) \/ Secret!Open(p, "exec", Secret!AnyName)
    BY <2>2, OpenKeeps
  <2>3. CASE Secret!Set(p)
    BY <2>3, CopyKeepsUp DEF Secret!Set, Secret!bounds
  <2>4. CASE Secret!Delete(p)
    BY <2>4, CopyKeepsUp, Ends DEF Secret!Delete, Secret!bounds
  <2>5. CASE Secret!Killed(p)
    BY <2>5, Ends DEF Secret!Killed
  <2> QED BY <2>1, <2>2, <2>3, <2>4, <2>5, KeyKeeps, LoadKeeps, OpenStoreKeeps, WriteStoreKeeps, ResolveKeeps
<1> QED BY <1>1, <1>2

-----------------------------------------------------------------------------
(* The verification loop.  Each stage that passed still holds while nobody *)
(* else changes the tree.                                                  *)

Loops ==
  [pc : {"idle", "act", "check", "clean", "gaveup", "error"}, iters : Nat,
   feedback : SUBSET BoundaryRules, remaining : SUBSET BoundaryRules]
VerifyTypeInv ==
  /\ loop \in Loops
  /\ verify \in [pc : {"idle", "boundaries", "drift", "behavior", "verdict"}, behaviorOnly : BOOLEAN,
                 noBuild : BOOLEAN, failed : BOOLEAN, gated : BOOLEAN]
  /\ verify.gated = TRUE => verify.pc = "verdict"
  /\ violated \subseteq BoundaryRules /\ drifted \subseteq Facts /\ broken \in BOOLEAN

(* What has not failed so far, in a tree that did not change, holds. *)
SoFarOk ==
  verify.failed = FALSE /\ "verify" \notin moved =>
    /\ verify.behaviorOnly = FALSE =>
         /\ verify.pc \in {"drift", "behavior", "verdict"} => violated = {}
         /\ verify.pc \in {"behavior", "verdict"} => drifted \subseteq OffLimits
    /\ verify.gated = TRUE => broken = FALSE
VerifyIInv == VerifyTypeInv /\ Verify!CleanIsChecked /\ SoFarOk

LEMMA VerifyInitInv == Verify!Init => VerifyIInv
<1> SUFFICES ASSUME Verify!Init PROVE VerifyIInv
  OBVIOUS
<1>1. VerifyTypeInv
  BY DEF Verify!Init, VerifyTypeInv, Loops
<1>2. Verify!CleanIsChecked /\ SoFarOk
  BY DEF Verify!Init, Verify!CleanIsChecked, SoFarOk
<1> QED BY <1>1, <1>2 DEF VerifyIInv

LEMMA ChangedKeeps ==
  ASSUME VerifyTypeInv, Verify!Changed, VerifyTypeInv'
  PROVE  Verify!CleanIsChecked' /\ SoFarOk'
BY DEF Verify!Changed, Verify!CleanIsChecked, SoFarOk

(* A step of the loop. *)
LEMMA LoopKeeps ==
  ASSUME VerifyIInv, Verify!Edit \/ Verify!LoopStarts \/ Verify!RunAgent \/ Verify!Check \/ Verify!LoopEnds
  PROVE  VerifyIInv'
<1>1. VerifyTypeInv'
  <2>1. CASE Verify!Edit
    BY <2>1 DEF VerifyIInv, VerifyTypeInv, Loops, Verify!Edit, Verify!Changed
  <2>2. CASE Verify!LoopStarts
    BY <2>2 DEF VerifyIInv, VerifyTypeInv, Loops, Verify!LoopStarts, Verify!tree
  <2>3. CASE Verify!RunAgent
    <3>1. PICK l \in {"check", "error"} : loop' = [loop EXCEPT !.pc = l, !.iters = @ + 1]
      BY <2>3 DEF Verify!RunAgent
    <3>2. Verify!Changed /\ verify' = verify
      BY <2>3 DEF Verify!RunAgent
    <3> DEFINE k == loop.iters + 1
    <3>4. loop \in Loops /\ k \in Nat
      BY DEF VerifyIInv, VerifyTypeInv, Loops
    <3> HIDE DEF k
    <3>3. [loop EXCEPT !.pc = l, !.iters = k] \in Loops
      BY <3>4 DEF Loops
    <3> QED BY <3>1, <3>2, <3>3 DEF VerifyIInv, VerifyTypeInv, Loops, Verify!Changed, k
  <2>4. CASE Verify!Check
    BY <2>4 DEF VerifyIInv, VerifyTypeInv, Loops, Verify!Check, Verify!tree
  <2>5. CASE Verify!LoopEnds
    BY <2>5 DEF VerifyIInv, VerifyTypeInv, Loops, Verify!LoopEnds, Verify!tree
  <2> QED BY <2>1, <2>2, <2>3, <2>4, <2>5
<1>2. CASE Verify!Edit \/ Verify!RunAgent
  BY <1>1, <1>2, ChangedKeeps DEF Verify!Edit, Verify!RunAgent, VerifyIInv
<1>3. CASE Verify!LoopStarts \/ Verify!Check \/ Verify!LoopEnds
  <2>1. UNCHANGED <<violated, drifted, broken, verify>> /\ ("verify" \in moved => "verify" \in moved')
    BY <1>3 DEF Verify!LoopStarts, Verify!Check, Verify!LoopEnds, Verify!tree
  <2>2. SoFarOk'
    BY <2>1 DEF VerifyIInv, SoFarOk
  <2>3. ASSUME Verify!LoopStarts PROVE Verify!CleanIsChecked'
    BY <2>3 DEF Verify!LoopStarts, Verify!CleanIsChecked
  <2>4. ASSUME Verify!Check PROVE Verify!CleanIsChecked'
    BY <2>4 DEF Verify!Check, Verify!CleanIsChecked, VerifyIInv, VerifyTypeInv, Loops, Verify!tree
  <2>5. ASSUME Verify!LoopEnds PROVE Verify!CleanIsChecked'
    BY <2>5 DEF Verify!LoopEnds, Verify!CleanIsChecked, VerifyIInv, VerifyTypeInv, Loops
  <2>6. Verify!CleanIsChecked'
    BY <1>3, <2>3, <2>4, <2>5
  <2> QED BY <1>1, <2>2, <2>6 DEF VerifyIInv
<1> QED BY <1>2, <1>3

(* A step of the command. *)
LEMMA VerifyKeeps ==
  ASSUME VerifyIInv, Verify!VerifyStarts \/ Verify!Boundaries \/ Verify!Drift \/ Verify!Behavior \/ Verify!VerifyEnds
  PROVE  VerifyIInv'
<1>1. VerifyTypeInv'
  <2>1. CASE Verify!VerifyStarts
    BY <2>1 DEF VerifyIInv, VerifyTypeInv, Loops, Verify!VerifyStarts, Verify!tree
  <2>2. CASE Verify!Boundaries
    <3>1. (violated # {}) \in BOOLEAN
      OBVIOUS
    <3> QED BY <2>2, <3>1 DEF VerifyIInv, VerifyTypeInv, Loops, Verify!Boundaries, Verify!tree
  <2>3. CASE Verify!Drift
    <3>1. (verify.failed \/ Verify!checkDrift) \in BOOLEAN
      OBVIOUS
    <3> QED BY <2>3, <3>1 DEF VerifyIInv, VerifyTypeInv, Loops, Verify!Drift, Verify!tree
  <2>4. CASE Verify!Behavior
    <3>1. (verify.failed \/ broken) \in BOOLEAN
      OBVIOUS
    <3> QED BY <2>4, <3>1 DEF VerifyIInv, VerifyTypeInv, Loops, Verify!Behavior, Verify!Changed, Verify!tree
  <2>5. CASE Verify!VerifyEnds
    BY <2>5 DEF VerifyIInv, VerifyTypeInv, Loops, Verify!VerifyEnds, Verify!tree
  <2> QED BY <2>1, <2>2, <2>3, <2>4, <2>5
<1>2. CASE Verify!Behavior /\ Verify!Changed
  BY <1>1, <1>2, ChangedKeeps DEF VerifyIInv
<1>3. CASE Verify!VerifyStarts \/ Verify!Boundaries \/ Verify!Drift \/ (Verify!Behavior /\ ~Verify!Changed) \/ Verify!VerifyEnds
  <2>1. /\ UNCHANGED <<violated, drifted, broken, loop>>
        /\ "loop" \in moved <=> "loop" \in moved'
    BY <1>3 DEF Verify!VerifyStarts, Verify!Boundaries, Verify!Drift, Verify!Behavior, Verify!VerifyEnds, Verify!tree
  <2>2. Verify!CleanIsChecked'
    BY <2>1 DEF VerifyIInv, Verify!CleanIsChecked
  <2>3. ASSUME Verify!VerifyStarts PROVE SoFarOk'
    BY <2>1, <2>3 DEF Verify!VerifyStarts, SoFarOk
  <2>4. ASSUME Verify!Boundaries PROVE SoFarOk'
    <3>1. verify'.failed = FALSE =>
            /\ violated = {} /\ verify'.pc = "drift" /\ verify.failed \in BOOLEAN
            /\ verify'.behaviorOnly = verify.behaviorOnly /\ verify'.gated = verify.gated
      BY <2>4 DEF Verify!Boundaries, VerifyIInv, VerifyTypeInv
    <3>2. verify.pc = "boundaries" /\ moved' = moved
      BY <2>4 DEF Verify!Boundaries
    <3>3. verify.gated # TRUE
      BY <3>2 DEF VerifyIInv, VerifyTypeInv
    <3> QED BY <2>1, <3>1, <3>2, <3>3 DEF SoFarOk
  <2>5. ASSUME Verify!Drift PROVE SoFarOk'
    BY <2>1, <2>5 DEF Verify!Drift, Verify!checkDrift, SoFarOk, VerifyIInv, VerifyTypeInv, Loops
  <2>6. ASSUME Verify!Behavior /\ ~Verify!Changed PROVE SoFarOk'
    BY <2>1, <2>6 DEF Verify!Behavior, SoFarOk, VerifyIInv, VerifyTypeInv, Loops
  <2>7. ASSUME Verify!VerifyEnds PROVE SoFarOk'
    BY <2>1, <2>7 DEF Verify!VerifyEnds, SoFarOk
  <2>8. SoFarOk'
    BY <1>3, <2>3, <2>4, <2>5, <2>6, <2>7
  <2> QED BY <1>1, <2>2, <2>8 DEF VerifyIInv
<1> QED BY <1>2, <1>3

LEMMA VerifyInvNext == VerifyIInv /\ [Verify!Next]_(Verify!vars) => VerifyIInv'
<1> SUFFICES ASSUME VerifyIInv, [Verify!Next]_(Verify!vars) PROVE VerifyIInv'
  OBVIOUS
<1>1. CASE UNCHANGED Verify!vars
  BY <1>1 DEF Verify!vars, Verify!tree, Verify!setup, VerifyIInv, VerifyTypeInv, Loops, Verify!CleanIsChecked, SoFarOk
<1>2. CASE Verify!Next
  BY <1>2, LoopKeeps, VerifyKeeps DEF Verify!Next
<1> QED BY <1>1, <1>2

-----------------------------------------------------------------------------
(* The hard floor.  A hook that goes through its targets has found nothing *)
(* against those it left behind that stood all the time; an allowed call   *)
(* has nothing against it at all.                                          *)

(* No rule that stood all the time denies the path. *)
Passes(h, p) == p \notin stood[h] /\ <<"user", p[2]>> \notin stood[h]
PassesWords(h) ==
  \A n \in hook[h].call.operands \cup hook[h].call.words :
    \A root \in {Gate!storeRoot(hook[h].call), "user"} : <<root, n>> \notin stood[h]

(* What stood is still in force; a hook that goes through its targets has  *)
(* found nothing against those it has left behind; one that allowed found  *)
(* nothing at all.                                                         *)
StoodInv ==
  /\ stood \in [GateHooks -> SUBSET rules]
  /\ gpc = [h \in GateHooks |-> gpc[h]] /\ hook = [h \in GateHooks |-> hook[h]]
SoFar(h) ==
  /\ gpc[h] = "targets" =>
       \A p \in Gate!hookTargetPaths(hook[h].call) \ hook[h].left : Passes(h, p)
  /\ gpc[h] = "allowed" =>
       (\A p \in Gate!hookTargetPaths(hook[h].call) : Passes(h, p)) /\ PassesWords(h)
GateIInv == StoodInv /\ \A h \in GateHooks : SoFar(h)

(* A hook that is not going through its targets, and has not allowed, has  *)
(* said nothing yet.                                                       *)
LEMMA Silent ==
  ASSUME NEW h \in GateHooks, gpc[h] \notin {"targets", "allowed"}
  PROVE  SoFar(h)
  BY DEF SoFar

(* A step of a hook concerns that hook alone, and takes nothing from what  *)
(* another one knows.                                                      *)
LEMMA Others ==
  ASSUME NEW h \in GateHooks, NEW g \in GateHooks, SoFar(g),
         gpc'[g] = gpc[g], hook'[g] = hook[g], stood'[g] \subseteq stood[g]
  PROVE  SoFar(g)'
  BY DEF SoFar, Passes, PassesWords

(* A hook that ends forgets everything. *)
LEMMA GateEndKeeps ==
  ASSUME GateIInv, NEW h \in GateHooks, Gate!End(h), rules' = rules
  PROVE  GateIInv'
<1>1. StoodInv'
  BY DEF GateIInv, StoodInv, Gate!End, Gate!Goto, Gate!Work
<1>2. ASSUME NEW g \in GateHooks PROVE SoFar(g)'
  <2>1. CASE g = h
    BY <2>1 DEF GateIInv, StoodInv, SoFar, Gate!End, Gate!Goto
  <2>2. CASE g # h
    BY <2>2, Others DEF GateIInv, StoodInv, Gate!End, Gate!Goto, Gate!Work
  <2> QED BY <2>1, <2>2
<1> QED BY <1>1, <1>2 DEF GateIInv

(* So does one that goes on to a step that has found nothing. *)
LEMMA GotoKeeps ==
  ASSUME GateIInv, NEW h \in GateHooks, NEW l, l \notin {"targets", "allowed"},
         Gate!Goto(h, l), UNCHANGED <<rules, hook, stood>>
  PROVE  GateIInv'
<1>1. StoodInv'
  BY DEF GateIInv, StoodInv, Gate!Goto
<1>2. ASSUME NEW g \in GateHooks PROVE SoFar(g)'
  <2>1. CASE g = h
    BY <2>1 DEF GateIInv, StoodInv, SoFar, Gate!Goto
  <2>2. CASE g # h
    BY <2>2, Others DEF GateIInv, StoodInv, Gate!Goto
  <2> QED BY <2>1, <2>2
<1> QED BY <1>1, <1>2 DEF GateIInv

LEMMA StoodAreRules ==
  ASSUME GateIInv, NEW h \in GateHooks
  PROVE  stood[h] \subseteq rules
  BY DEF GateIInv, StoodInv

(* A target that the rules of its project and the user's let through. *)
LEMMA NotDenied ==
  ASSUME GateIInv, NEW h \in GateHooks, NEW p, ~Gate!gateDeniedPath(p)
  PROVE  Passes(h, p)
  BY StoodAreRules DEF Gate!gateDeniedPath, Passes

LEMMA GateInitInv == Gate!Init => GateIInv
  BY DEF Gate!Init, GateIInv, StoodInv, SoFar

LEMMA BeginInv ==
  ASSUME GateIInv, NEW h \in GateHooks, NEW call \in Calls, Gate!Begin(h, call)
  PROVE  GateIInv'
<1>1. StoodInv'
  BY DEF GateIInv, StoodInv, Gate!Begin, Gate!Goto, Gate!Work, Gate!stores
<1>2. ASSUME NEW g \in GateHooks PROVE SoFar(g)'
  <2>1. CASE g = h
    BY <2>1 DEF GateIInv, StoodInv, SoFar, Gate!Begin, Gate!Goto
  <2>2. CASE g # h
    BY <2>2, Others DEF GateIInv, StoodInv, Gate!Begin, Gate!Goto, Gate!Work
  <2> QED BY <2>1, <2>2
<1> QED BY <1>1, <1>2 DEF GateIInv

LEMMA OpenStoreInv ==
  ASSUME GateIInv, NEW h \in GateHooks, Gate!OpenStore(h)
  PROVE  GateIInv'
  BY GotoKeeps DEF Gate!OpenStore, Gate!stores

LEMMA RefusedInv ==
  ASSUME GateIInv, NEW h \in GateHooks, Gate!Refused(h)
  PROVE  GateIInv'
  BY GateEndKeeps DEF Gate!Refused, Gate!stores

LEMMA SelfAuthorizeInv ==
  ASSUME GateIInv, NEW h \in GateHooks, Gate!bashAttemptsSelfAuthorize(h)
  PROVE  GateIInv'
<1>1. CASE Gate!End(h)
  BY <1>1, GateEndKeeps DEF Gate!bashAttemptsSelfAuthorize, Gate!stores
<1>2. CASE Gate!Goto(h, "dispatcher") /\ UNCHANGED <<hook, stood>>
  BY <1>2, GotoKeeps DEF Gate!bashAttemptsSelfAuthorize, Gate!stores
<1> QED BY <1>1, <1>2 DEF Gate!bashAttemptsSelfAuthorize

LEMMA DispatcherModeInv ==
  ASSUME GateIInv, NEW h \in GateHooks, Gate!DispatcherModeOn(h)
  PROVE  GateIInv'
<1>1. CASE Gate!Goto(h, "soft")
  BY <1>1, GotoKeeps DEF Gate!DispatcherModeOn, Gate!stores
<1>2. CASE Gate!Goto(h, "floor")
  BY <1>2, GotoKeeps DEF Gate!DispatcherModeOn, Gate!stores
<1> QED BY <1>1, <1>2 DEF Gate!DispatcherModeOn

(* The override leads to the floor and not past it. *)
LEMMA ConsumeOverrideInv ==
  ASSUME GateIInv, NEW h \in GateHooks, Gate!ConsumeOverride(h)
  PROVE  GateIInv'
<1>1. CASE Gate!Goto(h, "floor") /\ UNCHANGED <<hook, stood>>
  BY <1>1, GotoKeeps DEF Gate!ConsumeOverride
<1>2. CASE Gate!End(h)
  BY <1>2, GateEndKeeps DEF Gate!ConsumeOverride
<1> QED BY <1>1, <1>2 DEF Gate!ConsumeOverride

(* At first every target is left. *)
LEMMA FloorInv ==
  ASSUME GateIInv, NEW h \in GateHooks, Gate!Floor(h)
  PROVE  GateIInv'
<1>1. StoodInv'
  BY DEF GateIInv, StoodInv, Gate!Floor, Gate!Goto, Gate!Work, Gate!stores
<1>2. ASSUME NEW g \in GateHooks PROVE SoFar(g)'
  <2>1. CASE g = h
    <3>1. gpc'[h] = "targets"
      BY DEF GateIInv, StoodInv, Gate!Floor, Gate!Goto
    <3>2. hook'[h] = [hook[h] EXCEPT !.left = Gate!hookTargetPaths(hook[h].call)]
      BY DEF GateIInv, StoodInv, Gate!Floor, Gate!Work
    <3>3. hook'[h].call = hook[h].call
      BY <3>2
    <3> QED BY <2>1, <3>1, <3>2, <3>3 DEF SoFar
  <2>2. CASE g # h
    BY <2>2, Others DEF GateIInv, StoodInv, Gate!Floor, Gate!Goto, Gate!Work
  <2> QED BY <2>1, <2>2
<1> QED BY <1>1, <1>2 DEF GateIInv

LEMMA FloorTargetInv ==
  ASSUME GateIInv, NEW h \in GateHooks, NEW p, Gate!FloorTarget(h, p)
  PROVE  GateIInv'
<1>1. CASE Gate!End(h)
  BY <1>1, GateEndKeeps DEF Gate!FloorTarget, Gate!stores
<1>2. CASE /\ ~Gate!gateDeniedPath(p)
           /\ Gate!Work(h, [hook[h] EXCEPT !.left = @ \ {p}])
           /\ UNCHANGED <<gpc, stood>>
  <2>1. StoodInv'
    BY <1>2 DEF GateIInv, StoodInv, Gate!FloorTarget, Gate!Work, Gate!stores
  <2>2. ASSUME NEW g \in GateHooks PROVE SoFar(g)'
    <3>1. CASE g = h
      <4>1. hook'[h] = [hook[h] EXCEPT !.left = @ \ {p}]
        BY <1>2 DEF GateIInv, StoodInv, Gate!Work
      <4>2. hook'[h].call = hook[h].call /\ hook[h].left \ {p} \subseteq hook'[h].left
        BY <4>1
      <4>3. gpc[h] = "targets" /\ Passes(h, p)
        BY <1>2, NotDenied DEF Gate!FloorTarget
      <4>4. ASSUME NEW q \in Gate!hookTargetPaths(hook[h].call) \ hook'[h].left
            PROVE  Passes(h, q)
        BY <4>2, <4>3 DEF GateIInv, SoFar
      <4> QED BY <1>2, <3>1, <4>2, <4>3, <4>4 DEF SoFar, Passes
    <3>2. CASE g # h
      BY <1>2, <3>2, Others DEF GateIInv, StoodInv, Gate!Work
    <3> QED BY <3>1, <3>2
  <2> QED BY <2>1, <2>2 DEF GateIInv
<1> QED BY <1>1, <1>2 DEF Gate!FloorTarget

(* The words of the command are the last to be looked at. *)
LEMMA AllowInv ==
  ASSUME GateIInv, NEW h \in GateHooks, Gate!Allow(h)
  PROVE  GateIInv'
<1>1. CASE Gate!End(h)
  BY <1>1, GateEndKeeps DEF Gate!Allow, Gate!stores
<1>2. CASE /\ ~Gate!bashHitsGate(hook[h].call)
           /\ Gate!Goto(h, "allowed")
           /\ UNCHANGED <<hook, stood>>
  <2>1. StoodInv'
    BY <1>2 DEF GateIInv, StoodInv, Gate!Allow, Gate!Goto, Gate!stores
  <2>2. ASSUME NEW g \in GateHooks PROVE SoFar(g)'
    <3>1. CASE g = h
      <4>1. \A p \in Gate!hookTargetPaths(hook[h].call) : Passes(h, p)
        BY DEF Gate!Allow, GateIInv, SoFar
      <4>2. PassesWords(h)
        BY <1>2, StoodAreRules DEF Gate!bashHitsGate, Gate!gateDeniedPath, PassesWords
      <4>3. gpc'[h] = "allowed"
        BY <1>2 DEF GateIInv, StoodInv, Gate!Goto
      <4> QED BY <1>2, <3>1, <4>1, <4>2, <4>3 DEF SoFar, Passes, PassesWords
    <3>2. CASE g # h
      BY <1>2, <3>2, Others DEF GateIInv, StoodInv, Gate!Goto
    <3> QED BY <3>1, <3>2
  <2> QED BY <2>1, <2>2 DEF GateIInv
<1> QED BY <1>1, <1>2 DEF Gate!Allow

LEMMA ToolRunsInv ==
  ASSUME GateIInv, NEW h \in GateHooks, Gate!ToolRuns(h)
  PROVE  GateIInv'
  BY GateEndKeeps DEF Gate!ToolRuns, Gate!stores

(* New rules do not count as having stood; a rule that goes no longer does. *)
LEMMA RulesInv ==
  ASSUME GateIInv, NEW root, NEW n, Gate!gateAdd(root, n) \/ Gate!gateRm(root, n)
  PROVE  GateIInv'
<1>1. StoodInv' /\ \A g \in GateHooks : stood'[g] \subseteq stood[g]
  BY DEF GateIInv, StoodInv, Gate!gateAdd, Gate!gateRm
<1>2. UNCHANGED <<gpc, hook>>
  BY DEF Gate!gateAdd, Gate!gateRm
<1> QED BY <1>1, <1>2, Others DEF GateIInv

LEMMA GateInvNext ==
  ASSUME GateIInv, [Gate!Next]_(Gate!vars)
  PROVE  GateIInv'
<1>1. CASE \E h \in GateHooks : \E call \in Calls : Gate!Begin(h, call)
  BY <1>1, BeginInv
<1>2. CASE \E h \in GateHooks : Gate!OpenStore(h) \/ Gate!Refused(h) \/ Gate!bashAttemptsSelfAuthorize(h)
  BY <1>2, OpenStoreInv, RefusedInv, SelfAuthorizeInv
<1>3. CASE \E h \in GateHooks : Gate!DispatcherModeOn(h) \/ Gate!ConsumeOverride(h) \/ Gate!Floor(h)
  BY <1>3, DispatcherModeInv, ConsumeOverrideInv, FloorInv
<1>4. CASE \E h \in GateHooks : Gate!Allow(h) \/ Gate!ToolRuns(h)
  BY <1>4, AllowInv, ToolRunsInv
<1>5. CASE \E h \in GateHooks : \E p \in Projects \X (Targets \cup {"_"}) : Gate!FloorTarget(h, p)
  BY <1>5, FloorTargetInv
<1>6. CASE \E root \in Projects \cup {"user"}, n \in Targets : Gate!gateAdd(root, n) \/ Gate!gateRm(root, n)
  BY <1>6, RulesInv
<1>7. CASE \/ \E root \in Projects : Gate!override(root)
           \/ \E root \in Projects : \E m \in {"off", "soft", "hard"} : Gate!modeCmd(root, m)
           \/ UNCHANGED Gate!vars
  <2>1. UNCHANGED <<rules, gpc, hook, stood>>
    BY <1>7 DEF Gate!override, Gate!modeCmd, Gate!vars, Gate!stores
  <2> QED BY <2>1, Others DEF GateIInv, StoodInv
<1> QED BY <1>1, <1>2, <1>3, <1>4, <1>5, <1>6, <1>7 DEF Gate!Next

(* The inductive invariant, for every set of hooks, calls and projects.    *)

-----------------------------------------------------------------------------
(* Knowledge that machines exchange.  A merge is at least as new as both   *)
(* sides, and a put makes nothing older.                                   *)

Stored == Sync!Version \cup {Sync!None}

(* A version has a stamp, and None is none. *)
LEMMA SyncVersions ==
  ASSUME Sync!StampsAssumption
  PROVE  /\ \A v \in Sync!Version : v.at \in Nat /\ v.at > 0 /\ v # Sync!None
         /\ Sync!None.at = 0
<1>1. \A v \in Sync!Version : v.at \in Stamps
  BY DEF Sync!Version
<1>2. Sync!None.at = 0
  BY DEF Sync!None
<1>3. \A t \in Stamps : t \in Nat /\ t > 0 /\ t # 0
  BY DEF Sync!StampsAssumption
<1> QED BY <1>1, <1>2, <1>3

(* The merge of one record: at least as new as both sides, and when it is  *)
(* not the side that is equally new, the report says so.                   *)
LEMMA MergedIsNewest ==
  ASSUME Sync!StampsAssumption, NEW b \in Stored, NEW new \in Stored
  PROVE  /\ Sync!Merged(b, new) \in Stored
         /\ b.at <= Sync!Merged(b, new).at
         /\ new.at <= Sync!Merged(b, new).at
         /\ Sync!Merged(b, new) # b => b.at < Sync!Merged(b, new).at
         /\ new # Sync!None /\ new.at = Sync!Merged(b, new).at /\ new # Sync!Merged(b, new)
              => b = Sync!Merged(b, new) /\ Sync!NeedsReview(b, new)
<1>1. b.at \in Nat /\ new.at \in Nat
  BY SyncVersions DEF Stored, Sync!None
<1>2. CASE new = Sync!None
  BY <1>1, <1>2, SyncVersions DEF Sync!Merged
<1>3. CASE new # Sync!None /\ b = Sync!None
  BY <1>1, <1>3, SyncVersions DEF Sync!Merged, Stored
<1>4. CASE new # Sync!None /\ b # Sync!None
  <2>1. b \in Sync!Version /\ new \in Sync!Version
    BY <1>4 DEF Stored
  <2>2. b.at = new.at /\ b # new => b.body # new.body
    BY <2>1 DEF Sync!Version
  <2> QED BY <1>1, <1>4, <2>1, <2>2 DEF Sync!Merged, Sync!NeedsReview, Stored
<1> QED BY <1>2, <1>3, <1>4

(* A put takes a record off a request and changes nothing else of it. *)
LEMMA LeftShrinks ==
  ASSUME NEW A, NEW I, NEW B, NEW i,
         NEW q \in [machine : A, left : SUBSET I, base : B, posted : B]
  PROVE  [q EXCEPT !.left = @ \ {i}] \in [machine : A, left : SUBSET I, base : B, posted : B]
OBVIOUS

(* Stores, exports and requests are well typed. *)
LEMMA SyncInitTypes == Sync!Init => Sync!TypeOK
<1> SUFFICES ASSUME Sync!Init PROVE Sync!TypeOK
  OBVIOUS
<1>1. Sync!Nothing \in [Ids -> Stored]
  BY DEF Sync!Nothing, Stored
<1>2. Sync!NoWork \in [machine : Machines \cup {"none"}, left : SUBSET Ids,
                  base : [Ids -> Stored], posted : [Ids -> Stored]]
  BY <1>1 DEF Sync!NoWork
<1>3. Sync!NoWork.left = {}
  BY DEF Sync!NoWork
<1> QED BY <1>1, <1>2, <1>3 DEF Sync!Init, Sync!TypeOK, Stored

LEMMA SyncNextTypes ==
  ASSUME Sync!StampsAssumption
  PROVE  Sync!TypeOK /\ [Sync!Next]_(Sync!vars) => Sync!TypeOK'
<1> SUFFICES ASSUME Sync!TypeOK, [Sync!Next]_(Sync!vars) PROVE Sync!TypeOK'
  OBVIOUS
<1> USE DEF Sync!TypeOK
<1>0. Sync!Nothing \in [Ids -> Stored]
  BY DEF Sync!Nothing, Stored
<1>n. /\ Sync!NoWork \in [machine : Machines \cup {"none"}, left : SUBSET Ids,
                     base : [Ids -> Stored], posted : [Ids -> Stored]]
      /\ Sync!NoWork.left = {}
  BY <1>0 DEF Sync!NoWork
<1>1. ASSUME NEW m \in Machines, NEW i \in Ids, NEW b \in Bodies, NEW t \in Stamps, Sync!Commit(m, i, b, t)
      PROVE  Sync!TypeOK'
  <2> DEFINE v == [body |-> b, at |-> t]
  <2>1. v \in Sync!Version
    BY DEF Sync!Version
  <2> QED BY <1>1, <2>1 DEF Sync!Commit
<1>2. ASSUME NEW m \in Machines, NEW i \in Ids, NEW v \in seen[m][i] \cup {Sync!None}, Sync!TakeBack(m, i, v)
      PROVE  Sync!TypeOK'
  <2>1. v \in Stored
    BY DEF Stored
  <2> QED BY <1>2, <2>1 DEF Sync!TakeBack, Stored
<1>3. ASSUME NEW m \in Machines, Sync!Export(m) PROVE Sync!TypeOK'
  BY <1>3 DEF Sync!Export
<1>4. ASSUME NEW m \in Machines, NEW r \in Requests, NEW s \in sent, Sync!Post(r, m, s)
      PROVE  Sync!TypeOK'
  BY <1>4 DEF Sync!Post
<1>5. ASSUME NEW r \in Requests, NEW i \in Ids, Sync!Advance(r, i)
      PROVE  /\ request' \in [Requests -> [machine : Machines \cup {"none"}, left : SUBSET Ids,
                                           base : [Ids -> Sync!Version \cup {Sync!None}],
                                           posted : [Ids -> Sync!Version \cup {Sync!None}]]]
             /\ \A q \in Requests : request'[q].left # {} => request'[q].machine \in Machines
  <2>1. CASE request[r].left = {i}
    <3>1. request' = [request EXCEPT ![r] = Sync!NoWork]
      BY <1>5, <2>1 DEF Sync!Advance
    <3>2. request' \in [Requests -> [machine : Machines \cup {"none"}, left : SUBSET Ids,
                                     base : [Ids -> Stored], posted : [Ids -> Stored]]]
      BY <1>n, <3>1 DEF Stored
    <3>3. ASSUME NEW q \in Requests, request'[q].left # {} PROVE request'[q].machine \in Machines
      BY <1>n, <3>1, <3>3
    <3> QED BY <3>2, <3>3 DEF Stored
  <2>2. CASE request[r].left # {i}
    <3>1. request' = [request EXCEPT ![r].left = @ \ {i}]
      BY <1>5, <2>2 DEF Sync!Advance
    <3>2. [request[r] EXCEPT !.left = @ \ {i}]
             \in [machine : Machines \cup {"none"}, left : SUBSET Ids,
                  base : [Ids -> Sync!Version \cup {Sync!None}], posted : [Ids -> Sync!Version \cup {Sync!None}]]
      BY LeftShrinks, request[r] \in [machine : Machines \cup {"none"}, left : SUBSET Ids,
                  base : [Ids -> Sync!Version \cup {Sync!None}], posted : [Ids -> Sync!Version \cup {Sync!None}]]
    <3>3. ASSUME NEW q \in Requests, request'[q].left # {} PROVE request'[q].machine \in Machines
      BY <3>1, <3>3
    <3> QED BY <3>1, <3>2, <3>3
  <2> QED BY <2>1, <2>2
<1>6. ASSUME NEW r \in Requests, NEW i \in Ids, Sync!PutOne(r, i) PROVE Sync!TypeOK'
  <2>1. request[r].left # {} /\ Sync!Advance(r, i)
    BY <1>6 DEF Sync!PutOne, Sync!IsNext
  <2> DEFINE m == request[r].machine
             b == request[r].base[i]
             new == request[r].posted[i]
  <2>2. m \in Machines /\ b \in Stored /\ new \in Stored
    BY <2>1 DEF Stored
  <2>3. Sync!Merged(b, new) \in Stored
    BY <2>2, MergedIsNewest
  <2>4. {new} \ {Sync!None} \subseteq Sync!Version
    BY <2>2 DEF Stored
  <2>5. /\ store' = [store EXCEPT ![m][i] = Sync!Merged(b, new)]
        /\ seen' = [seen EXCEPT ![m][i] = @ \cup ({new} \ {Sync!None})]
        /\ review' = [review EXCEPT ![m] = @ \cup {j \in {i} : Sync!NeedsReview(b, new)}]
        /\ kspoiled' = [kspoiled EXCEPT ![m] = @ \cup {j \in {i} : store[m][i] # b}]
        /\ sent' = sent
    BY <1>6 DEF Sync!PutOne, Sync!PutMerged
  <2> HIDE DEF m, b, new
  <2>6. store' \in [Machines -> [Ids -> Sync!Version \cup {Sync!None}]]
    BY <2>2, <2>3, <2>5 DEF Stored
  <2>7. seen' \in [Machines -> [Ids -> SUBSET Sync!Version]]
    BY <2>2, <2>4, <2>5
  <2>8. review' \in [Machines -> SUBSET Ids] /\ kspoiled' \in [Machines -> SUBSET Ids]
    BY <2>2, <2>5
  <2> QED BY <1>5, <2>1, <2>5, <2>6, <2>7, <2>8
<1>7. ASSUME NEW r \in Requests, NEW i \in Ids, Sync!PutFails(r, i) PROVE Sync!TypeOK'
  BY <1>5, <1>7 DEF Sync!PutFails
<1>8. ASSUME NEW m \in Machines, Sync!Killed(m) PROVE Sync!TypeOK'
  BY <1>8, <1>n DEF Sync!Killed, Stored
<1>9. CASE UNCHANGED Sync!vars
  BY <1>9 DEF Sync!vars
<1> QED BY <1>1, <1>2, <1>3, <1>4, <1>6, <1>7, <1>8, <1>9 DEF Sync!Next

LEMMA NextKeeps ==
  ASSUME Sync!StampsAssumption
  PROVE  Sync!TypeOK /\ Sync!NewestIsKept /\ [Sync!Next]_(Sync!vars) => Sync!NewestIsKept'
<1> SUFFICES ASSUME Sync!TypeOK, Sync!NewestIsKept, [Sync!Next]_(Sync!vars),
                    NEW m \in Machines, NEW i \in Ids, i \notin kspoiled'[m],
                    NEW v \in seen'[m][i]
             PROVE  /\ v.at <= store'[m][i].at
                    /\ v.at = store'[m][i].at /\ v # store'[m][i] => i \in review'[m]
  BY DEF Sync!NewestIsKept, Sync!TypeOK
<1>0. ASSUME i \notin kspoiled[m], v \in seen[m][i]
      PROVE  /\ v.at <= store[m][i].at
             /\ v.at = store[m][i].at /\ v # store[m][i] => i \in review[m]
  BY <1>0 DEF Sync!NewestIsKept
<1>1. ASSUME NEW n \in Machines, NEW j \in Ids, NEW b \in Bodies, NEW t \in Stamps, Sync!Commit(n, j, b, t)
      PROVE  /\ v.at <= store'[m][i].at
             /\ v.at = store'[m][i].at /\ v # store'[m][i] => i \in review'[m]
  <2> DEFINE c == [body |-> b, at |-> t]
  <2>1. /\ store' = [store EXCEPT ![n][j] = c]
        /\ seen' = [seen EXCEPT ![n][j] = @ \cup {c}]
        /\ kspoiled' = [kspoiled EXCEPT ![n] = @ \cup {k \in {j} : c.at <= store[n][j].at}]
        /\ review' = review
    BY <1>1 DEF Sync!Commit
  <2>2. c \in Sync!Version /\ c.at \in Nat
    BY DEF Sync!StampsAssumption, Sync!Version
  <2> HIDE DEF c
  <2>3. CASE n = m /\ j = i
    <3>1. i \notin kspoiled[m] /\ ~(c.at <= store[m][i].at)
      BY <2>1, <2>3 DEF Sync!TypeOK
    <3>2. store'[m][i] = c /\ seen'[m][i] = seen[m][i] \cup {c}
      BY <2>1, <2>3 DEF Sync!TypeOK
    <3>3. store[m][i].at \in Nat
      BY SyncVersions DEF Sync!TypeOK, Sync!None
    <3>4. CASE v = c
      BY <2>2, <3>2, <3>4
    <3>5. CASE v \in seen[m][i]
      <4>1. v.at \in Nat /\ v.at <= store[m][i].at
        BY <1>0, <3>1, <3>5, SyncVersions DEF Sync!TypeOK
      <4> QED BY <2>2, <3>1, <3>2, <3>3, <4>1
    <3> QED BY <3>2, <3>4, <3>5
  <2>4. CASE ~(n = m /\ j = i)
    <3>1. store'[m][i] = store[m][i] /\ seen'[m][i] = seen[m][i] /\ i \notin kspoiled[m]
      BY <2>1, <2>4 DEF Sync!TypeOK
    <3> QED BY <1>0, <2>1, <3>1
  <2> QED BY <2>3, <2>4
<1>2. ASSUME NEW n \in Machines, NEW j \in Ids, NEW w \in seen[n][j] \cup {Sync!None}, Sync!TakeBack(n, j, w)
      PROVE  /\ v.at <= store'[m][i].at
             /\ v.at = store'[m][i].at /\ v # store'[m][i] => i \in review'[m]
  <2>1. ~(n = m /\ j = i) /\ i \notin kspoiled[m]
    BY <1>2 DEF Sync!TakeBack, Sync!TypeOK
  <2>2. store'[m][i] = store[m][i] /\ seen' = seen /\ review' = review
    BY <1>2, <2>1 DEF Sync!TakeBack, Sync!TypeOK
  <2> QED BY <1>0, <2>1, <2>2
<1>3. ASSUME UNCHANGED <<store, seen, review, kspoiled>>
      PROVE  /\ v.at <= store'[m][i].at
             /\ v.at = store'[m][i].at /\ v # store'[m][i] => i \in review'[m]
  BY <1>0, <1>3
<1>4. ASSUME NEW r \in Requests, NEW j \in Ids, Sync!PutOne(r, j)
      PROVE  /\ v.at <= store'[m][i].at
             /\ v.at = store'[m][i].at /\ v # store'[m][i] => i \in review'[m]
  <2> DEFINE n == request[r].machine
             b == request[r].base[j]
             new == request[r].posted[j]
  <2>1. n \in Machines /\ b \in Stored /\ new \in Stored
    BY <1>4 DEF Sync!PutOne, Sync!IsNext, Sync!TypeOK, Stored
  <2>2. /\ store' = [store EXCEPT ![n][j] = Sync!Merged(b, new)]
        /\ seen' = [seen EXCEPT ![n][j] = @ \cup ({new} \ {Sync!None})]
        /\ review' = [review EXCEPT ![n] = @ \cup {k \in {j} : Sync!NeedsReview(b, new)}]
        /\ kspoiled' = [kspoiled EXCEPT ![n] = @ \cup {k \in {j} : store[n][j] # b}]
    BY <1>4 DEF Sync!PutOne, Sync!PutMerged
  <2> HIDE DEF n, b, new
  <2>3. CASE n = m /\ j = i
    <3>1. i \notin kspoiled[m] /\ store[m][i] = b
      BY <2>2, <2>3 DEF Sync!TypeOK
    <3>2. store'[m][i] = Sync!Merged(b, new) /\ seen'[m][i] = seen[m][i] \cup ({new} \ {Sync!None})
      BY <2>2, <2>3 DEF Sync!TypeOK
    <3>3. review'[m] = review[m] \cup {k \in {i} : Sync!NeedsReview(b, new)}
      BY <2>2, <2>3 DEF Sync!TypeOK
    <3>4. CASE v = new /\ new # Sync!None
      BY <2>1, <3>2, <3>3, <3>4, MergedIsNewest
    <3>5. CASE v \in seen[m][i]
      <4>1. v.at \in Nat /\ v.at <= b.at /\ (v.at = b.at /\ v # b => i \in review[m])
        BY <1>0, <3>1, <3>5, SyncVersions DEF Sync!TypeOK
      <4>2. b.at \in Nat /\ Sync!Merged(b, new).at \in Nat
        BY <2>1, SyncVersions, MergedIsNewest DEF Stored, Sync!None
      <4> QED BY <2>1, <3>2, <3>3, <4>1, <4>2, MergedIsNewest
    <3> QED BY <3>2, <3>4, <3>5
  <2>4. CASE ~(n = m /\ j = i)
    <3>1. store'[m][i] = store[m][i] /\ seen'[m][i] = seen[m][i] /\ i \notin kspoiled[m]
      BY <2>1, <2>2, <2>4 DEF Sync!TypeOK
    <3>2. review[m] \subseteq review'[m]
      BY <2>1, <2>2 DEF Sync!TypeOK
    <3> QED BY <1>0, <3>1, <3>2
  <2> QED BY <2>3, <2>4
<1>5. ASSUME NEW n \in Machines, Sync!Export(n)
      PROVE  UNCHANGED <<store, seen, review, kspoiled>>
  BY <1>5 DEF Sync!Export
<1>6. ASSUME NEW n \in Machines, NEW r \in Requests, NEW s \in sent, Sync!Post(r, n, s)
      PROVE  UNCHANGED <<store, seen, review, kspoiled>>
  BY <1>6 DEF Sync!Post
<1>7. ASSUME NEW r \in Requests, NEW j \in Ids, Sync!PutFails(r, j)
      PROVE  UNCHANGED <<store, seen, review, kspoiled>>
  BY <1>7 DEF Sync!PutFails
<1>8. ASSUME NEW n \in Machines, Sync!Killed(n)
      PROVE  UNCHANGED <<store, seen, review, kspoiled>>
  BY <1>8 DEF Sync!Killed
<1>9. CASE UNCHANGED Sync!vars
  BY <1>3, <1>9 DEF Sync!vars
<1> QED BY <1>1, <1>2, <1>3, <1>4, <1>5, <1>6, <1>7, <1>8, <1>9 DEF Sync!Next

(* Stores, exports and requests are well typed in every reachable state. *)

-----------------------------------------------------------------------------
(* Managed runtimes.  What an installer has copied so far is there, and    *)
(* nobody is about to remove a version that somebody installs or that      *)
(* hooks run.                                                              *)

(* What an installer under way has behind it. *)
Safe(p) ==
  /\ ~Runtime!Judged(mjob[p].version)
  /\ \A g \in Runtime!Files : g < mjob[p].copy \/ mpc[p] = "copied" => Runtime!Exists(mjob[p].version, g)
Installing == \A p \in Installers : mpc[p] # "idle" /\ mjob[p].version \notin mraced => Safe(p)
Activated == \A v \in active \ mraced : Runtime!Complete(v) /\ ~Runtime!Judged(v)
RuntimeIInv == Runtime!TypeOK /\ Installing /\ Activated

LEMMA RuntimeInitInv ==
  ASSUME Runtime!CountAssumption
  PROVE  Runtime!Init => RuntimeIInv
<1> SUFFICES ASSUME Runtime!Init PROVE RuntimeIInv
  OBVIOUS
<1>1. Runtime!NoWork \in [version : Versions \cup {"none"}, copy : 0..FileCount]
  BY DEF Runtime!CountAssumption, Runtime!NoWork
<1>2. Runtime!TypeOK
  BY <1>1 DEF Runtime!Init, Runtime!TypeOK
<1>3. Installing /\ Activated
  BY DEF Runtime!Init, Installing, Activated
<1> QED BY <1>2, <1>3 DEF RuntimeIInv

(* Ending and going on with the next file keep the types of a job. *)
LEMMA JobTypes ==
  ASSUME Runtime!CountAssumption, Runtime!TypeOK, NEW p \in Installers, mpc[p] # "idle", Runtime!End(p) \/ Runtime!CopyNext(p)
  PROVE  /\ mpc' \in [Installers -> {"idle", "copy", "rename", "copied"}]
         /\ mjob' \in [Installers -> [version : Versions \cup {"none"}, copy : 0..FileCount]]
         /\ \A q \in Installers : mpc'[q] # "idle" => mjob'[q].version \in Versions /\ mjob'[q].copy \in Runtime!Files
<1> USE DEF Runtime!TypeOK, Runtime!Goto
<1>1. CASE Runtime!End(p)
  <2>1. Runtime!NoWork \in [version : Versions \cup {"none"}, copy : 0..FileCount]
    BY DEF Runtime!CountAssumption, Runtime!NoWork
  <2> QED BY <1>1, <2>1 DEF Runtime!End
<1>2. CASE Runtime!CopyNext(p) /\ Runtime!Done(p)
  BY <1>2 DEF Runtime!CopyNext
<1>3. CASE Runtime!CopyNext(p) /\ ~Runtime!Done(p)
  <2>1. mjob[p].copy + 1 \in Runtime!Files /\ mjob[p].copy + 1 \in 0..FileCount
    BY <1>3 DEF Runtime!CountAssumption, Runtime!Done, Runtime!Files
  <2>2. mjob' = [mjob EXCEPT ![p].copy = @ + 1] /\ mpc' = [mpc EXCEPT ![p] = "copy"]
    BY <1>3 DEF Runtime!CopyNext
  <2> QED BY <2>1, <2>2
<1> QED BY <1>1, <1>2, <1>3

LEMMA RuntimeNextTypes ==
  ASSUME Runtime!CountAssumption
  PROVE  Runtime!TypeOK /\ [Runtime!Next]_(Runtime!vars) => Runtime!TypeOK'
<1> SUFFICES ASSUME Runtime!TypeOK, [Runtime!Next]_(Runtime!vars) PROVE Runtime!TypeOK'
  OBVIOUS
<1> USE DEF Runtime!TypeOK
<1>1. ASSUME NEW p \in Installers, NEW v \in Versions, Runtime!Provision(p, v) PROVE Runtime!TypeOK'
  <2>1. CASE Runtime!Complete(v)
    BY <1>1, <2>1 DEF Runtime!Provision
  <2>2. CASE ~Runtime!Complete(v)
    <3>1. [version |-> v, copy |-> 1] \in [version : Versions \cup {"none"}, copy : 0..FileCount]
          /\ 1 \in Runtime!Files
      BY DEF Runtime!CountAssumption, Runtime!Files
    <3>2. /\ mpc' = [mpc EXCEPT ![p] = "copy"] /\ mjob' = [mjob EXCEPT ![p] = [version |-> v, copy |-> 1]]
          /\ dir' = [dir EXCEPT ![v] = IF @ = "none" THEN "fresh" ELSE @]
          /\ active' = active /\ binary' = binary /\ temp' = temp /\ stale' = stale
          /\ mraced' = mraced \cup {w \in {v} : Runtime!Judged(w)}
      BY <1>1, <2>2 DEF Runtime!Provision, Runtime!Goto
    <3>3. mjob' \in [Installers -> [version : Versions \cup {"none"}, copy : 0..FileCount]]
      BY <3>1, <3>2
    <3>4. \A q \in Installers : mpc'[q] # "idle" => mjob'[q].version \in Versions /\ mjob'[q].copy \in Runtime!Files
      BY <3>1, <3>2
    <3> QED BY <3>2, <3>3, <3>4
  <2> QED BY <2>1, <2>2
<1>2. ASSUME NEW p \in Installers, NEW v \in Versions, Runtime!CreateTemp(p, v) PROVE Runtime!TypeOK'
  <2>1. CASE Runtime!End(p) \/ Runtime!CopyNext(p)
    BY <1>2, <2>1, JobTypes DEF Runtime!CreateTemp
  <2>2. CASE ~(Runtime!End(p) \/ Runtime!CopyNext(p))
    BY <1>2, <2>2 DEF Runtime!CreateTemp, Runtime!Goto
  <2> QED BY <2>1, <2>2
<1>3. ASSUME NEW p \in Installers, Runtime!CopyFails(p) PROVE Runtime!TypeOK'
  BY <1>3, JobTypes DEF Runtime!CopyFails
<1>4. ASSUME NEW p \in Installers, NEW v \in Versions, Runtime!Rename(p, v) PROVE Runtime!TypeOK'
  <2>1. mpc[p] # "idle" /\ (Runtime!End(p) \/ Runtime!CopyNext(p))
    BY <1>4 DEF Runtime!Rename
  <2>2. binary' \in [Versions -> [Runtime!Files -> {"none", "whole"}]] /\ dir' \in [Versions -> {"none", "fresh", "old"}]
    <3>1. v \in Versions /\ mjob[p].copy \in Runtime!Files
      BY <2>1
    <3>2. CASE temp[p]
      <4>1. /\ binary' = [binary EXCEPT ![v][mjob[p].copy] = "whole"]
            /\ dir' = [dir EXCEPT ![v] = "fresh"]
        BY <1>4, <3>2 DEF Runtime!Rename
      <4> QED BY <3>1, <4>1
    <3>3. CASE ~temp[p]
      BY <1>4, <3>3 DEF Runtime!Rename
    <3> QED BY <3>2, <3>3
  <2> QED BY <1>4, <2>1, <2>2, JobTypes DEF Runtime!Rename
<1>5. ASSUME NEW p \in Installers, Runtime!Activate(p) PROVE Runtime!TypeOK'
  BY <1>5, JobTypes DEF Runtime!Activate
<1>6. ASSUME NEW c \in Cleaners, Runtime!Scan(c) PROVE Runtime!TypeOK'
  BY <1>6 DEF Runtime!Scan
<1>7. ASSUME NEW c \in Cleaners, NEW v \in Versions, NEW f \in Runtime!Files, Runtime!RemoveFile(c, v, f) PROVE Runtime!TypeOK'
  BY <1>7 DEF Runtime!RemoveFile
<1>8. ASSUME NEW c \in Cleaners, NEW v \in Versions, Runtime!RemoveDir(c, v) PROVE Runtime!TypeOK'
  BY <1>8 DEF Runtime!RemoveDir
<1>9. ASSUME NEW p \in Installers, Runtime!Killed(p) PROVE Runtime!TypeOK'
  BY <1>9, JobTypes DEF Runtime!Killed
<1>10. ASSUME NEW c \in Cleaners, Runtime!CleanupKilled(c) PROVE Runtime!TypeOK'
  BY <1>10 DEF Runtime!CleanupKilled
<1>11. ASSUME NEW v \in Versions, Runtime!DayPasses(v) PROVE Runtime!TypeOK'
  BY <1>11 DEF Runtime!DayPasses
<1>12. CASE UNCHANGED Runtime!vars
  BY <1>12 DEF Runtime!vars
<1> QED BY <1>1, <1>2, <1>3, <1>4, <1>5, <1>6, <1>7, <1>8, <1>9, <1>10, <1>11, <1>12 DEF Runtime!Next

(* A step of an installer that only adds files. *)
LEMMA InstallerStep ==
  ASSUME Runtime!CountAssumption, RuntimeIInv, NEW p \in Installers, mpc[p] # "idle", Runtime!End(p) \/ Runtime!CopyNext(p),
         stale' = stale, mraced' = mraced, active' = active,
         \A v \in Versions, g \in Runtime!Files : Runtime!Exists(v, g) => Runtime!Exists(v, g)',
         Runtime!CopyNext(p) => binary'[mjob[p].version][mjob[p].copy] # "none"
  PROVE  Installing' /\ Activated'
<1> USE DEF RuntimeIInv, Runtime!TypeOK
<1>1. Activated'
  BY DEF Activated, Runtime!Complete, Runtime!Judged
<1>2. ASSUME NEW q \in Installers, q # p, mpc'[q] # "idle", mjob'[q].version \notin mraced'
      PROVE  Safe(q)'
  <2>1. mpc'[q] = mpc[q] /\ mjob'[q] = mjob[q]
    BY <1>2 DEF Runtime!End, Runtime!CopyNext, Runtime!Goto
  <2>2. Safe(q) /\ mjob[q].version \in Versions
    BY <1>2, <2>1 DEF Installing
  <2> QED BY <2>1, <2>2 DEF Safe, Runtime!Judged
<1>3. ASSUME mpc'[p] # "idle", mjob'[p].version \notin mraced' PROVE Safe(p)'
  <2>1. Runtime!CopyNext(p)
    BY <1>3 DEF Runtime!End, Runtime!Goto
  <2>2. mjob'[p].version = mjob[p].version
    BY <2>1 DEF Runtime!CopyNext
  <2>3. Safe(p) /\ mjob[p].version \in Versions /\ mjob[p].copy \in Runtime!Files
    BY <1>3, <2>2 DEF Installing
  <2>4. ASSUME NEW g \in Runtime!Files, g <= mjob[p].copy
        PROVE  binary'[mjob[p].version][g] # "none"
    <3>1. g < mjob[p].copy \/ g = mjob[p].copy
      BY <2>3, <2>4 DEF Runtime!CountAssumption, Runtime!Files
    <3>2. CASE g < mjob[p].copy
      <4>1. Runtime!Exists(mjob[p].version, g)
        BY <2>3, <3>2 DEF Safe
      <4> QED BY <2>3, <4>1 DEF Runtime!Exists
    <3>3. CASE g = mjob[p].copy
      BY <2>1, <3>3
    <3> QED BY <3>1, <3>2, <3>3
  <2>5. CASE Runtime!Done(p)
    <3>1. mjob' = mjob
      BY <2>1, <2>5 DEF Runtime!CopyNext
    <3> QED BY <2>3, <2>4, <2>5, <3>1 DEF Runtime!CountAssumption, Safe, Runtime!Judged, Runtime!Done, Runtime!Files, Runtime!Exists
  <2>6. CASE ~Runtime!Done(p)
    <3>1. mjob'[p].copy = mjob[p].copy + 1 /\ mpc'[p] = "copy"
      BY <2>1, <2>6 DEF Runtime!CopyNext, Runtime!Goto
    <3>2. \A g \in Runtime!Files : g < mjob'[p].copy => g <= mjob[p].copy
      BY <2>3, <3>1 DEF Runtime!CountAssumption, Runtime!Files
    <3> QED BY <2>2, <2>3, <2>4, <3>1, <3>2 DEF Safe, Runtime!Judged, Runtime!Exists
  <2> QED BY <2>5, <2>6
<1> QED BY <1>1, <1>2, <1>3 DEF Installing

(* A step that leaves installers, files and judgements alone. *)
LEMMA QuietStep ==
  ASSUME RuntimeIInv, stale' = stale, mraced' = mraced, active' = active, binary' = binary,
         mjob' = mjob, mpc' = mpc
  PROVE  Installing' /\ Activated'
BY DEF RuntimeIInv, Installing, Activated, Safe, Runtime!Judged, Runtime!Complete, Runtime!Exists

LEMMA NextSafe ==
  ASSUME Runtime!CountAssumption
  PROVE  RuntimeIInv /\ [Runtime!Next]_(Runtime!vars) => Installing' /\ Activated'
<1> SUFFICES ASSUME RuntimeIInv, [Runtime!Next]_(Runtime!vars) PROVE Installing' /\ Activated'
  OBVIOUS
<1> USE DEF RuntimeIInv
<1>1. ASSUME NEW p \in Installers, NEW v \in Versions, Runtime!Provision(p, v) PROVE Installing' /\ Activated'
  <2>1. /\ mraced' = mraced \cup {w \in {v} : Runtime!Judged(w)} /\ binary' = binary /\ stale' = stale
        /\ mpc[p] = "idle"
    BY <1>1 DEF Runtime!Provision
  <2>2. CASE Runtime!Complete(v)
    <3>1. mpc' = mpc /\ mjob' = mjob /\ active' = active \cup {v}
      BY <1>1, <2>2 DEF Runtime!Provision
    <3>2. Installing'
      BY <2>1, <3>1 DEF Installing, Safe, Runtime!Judged, Runtime!Exists
    <3>3. Activated'
      BY <2>1, <2>2, <3>1 DEF Activated, Runtime!Judged, Runtime!Complete, Runtime!Exists
    <3> QED BY <3>2, <3>3
  <2>3. CASE ~Runtime!Complete(v)
    <3>1. /\ mpc' = [mpc EXCEPT ![p] = "copy"] /\ active' = active
          /\ mjob' = [mjob EXCEPT ![p] = [version |-> v, copy |-> 1]]
      BY <1>1, <2>3 DEF Runtime!Provision, Runtime!Goto
    <3>2. Activated'
      BY <2>1, <3>1 DEF Activated, Runtime!Judged, Runtime!Complete, Runtime!Exists
    <3>3. ASSUME NEW q \in Installers, mpc'[q] # "idle", mjob'[q].version \notin mraced' PROVE Safe(q)'
      <4>1. CASE q = p
        <5>1. mjob'[p] = [version |-> v, copy |-> 1] /\ mpc'[p] = "copy"
          BY <3>1 DEF Runtime!TypeOK
        <5>2. ~Runtime!Judged(v) /\ \A g \in Runtime!Files : ~(g < 1)
          BY <2>1, <3>3, <4>1, <5>1 DEF Runtime!Files
        <5> QED BY <2>1, <4>1, <5>1, <5>2 DEF Safe, Runtime!Judged
      <4>2. CASE q # p
        <5>1. mjob'[q] = mjob[q] /\ mpc'[q] = mpc[q]
          BY <3>1, <4>2 DEF Runtime!TypeOK
        <5>2. Safe(q)
          BY <2>1, <3>3, <5>1 DEF Installing
        <5> QED BY <2>1, <5>1, <5>2 DEF Safe, Runtime!Judged, Runtime!Exists
      <4> QED BY <4>1, <4>2
    <3> QED BY <3>2, <3>3 DEF Installing
  <2> QED BY <2>2, <2>3
<1>2. ASSUME NEW p \in Installers, NEW v \in Versions, Runtime!CreateTemp(p, v) PROVE Installing' /\ Activated'
  <2>1. /\ v = mjob[p].version /\ mpc[p] = "copy" /\ binary' = binary /\ stale' = stale /\ mraced' = mraced
        /\ active' = active
    BY <1>2 DEF Runtime!CreateTemp
  <2>2. CASE Runtime!Exists(v, mjob[p].copy)
    <3>1. Runtime!CopyNext(p)
      BY <1>2, <2>2 DEF Runtime!CreateTemp
    <3> QED BY <2>1, <2>2, <3>1, InstallerStep DEF Runtime!Exists
  <2>3. CASE ~Runtime!Exists(v, mjob[p].copy) /\ dir[v] = "none"
    <3>1. Runtime!End(p)
      BY <1>2, <2>3 DEF Runtime!CreateTemp
    <3>2. ~Runtime!CopyNext(p)
      BY <2>1, <3>1 DEF Runtime!End, Runtime!CopyNext, Runtime!Goto, Runtime!TypeOK
    <3> QED BY <2>1, <3>1, <3>2, InstallerStep DEF Runtime!Exists
  <2>4. CASE ~Runtime!Exists(v, mjob[p].copy) /\ dir[v] # "none"
    <3>1. mpc' = [mpc EXCEPT ![p] = "rename"] /\ mjob' = mjob
      BY <1>2, <2>4 DEF Runtime!CreateTemp, Runtime!Goto
    <3>2. \A q \in Installers : (mpc'[q] # "idle" <=> mpc[q] # "idle") /\ (mpc'[q] = "copied" => mpc[q] = "copied")
      BY <2>1, <3>1 DEF Runtime!TypeOK
    <3> QED BY <2>1, <3>1, <3>2 DEF Installing, Activated, Safe, Runtime!Judged, Runtime!Complete, Runtime!Exists
  <2> QED BY <2>2, <2>3, <2>4
<1>3. ASSUME NEW p \in Installers, mpc[p] # "idle", Runtime!End(p), stale' = stale, mraced' = mraced,
             active' = active, binary' = binary
      PROVE  Installing' /\ Activated'
  <2>1. ~Runtime!CopyNext(p)
    BY <1>3 DEF Runtime!End, Runtime!CopyNext, Runtime!Goto, Runtime!TypeOK
  <2> QED BY <1>3, <2>1, InstallerStep DEF Runtime!Exists
<1>4. ASSUME NEW p \in Installers, NEW v \in Versions, Runtime!Rename(p, v) PROVE Installing' /\ Activated'
  <2>1. /\ v = mjob[p].version /\ mpc[p] = "rename" /\ stale' = stale /\ mraced' = mraced
        /\ active' = active /\ mjob[p].copy \in Runtime!Files
    BY <1>4 DEF Runtime!Rename, Runtime!TypeOK
  <2>2. CASE temp[p]
    <3>1. binary' = [binary EXCEPT ![v][mjob[p].copy] = "whole"] /\ Runtime!CopyNext(p)
      BY <1>4, <2>2 DEF Runtime!Rename
    <3>2. \A w \in Versions, g \in Runtime!Files : Runtime!Exists(w, g) => Runtime!Exists(w, g)'
      BY <2>1, <3>1 DEF Runtime!Exists, Runtime!TypeOK
    <3>3. binary'[v][mjob[p].copy] # "none"
      BY <2>1, <3>1 DEF Runtime!TypeOK
    <3> QED BY <2>1, <3>1, <3>2, <3>3, InstallerStep
  <2>3. CASE ~temp[p] /\ Runtime!Exists(v, mjob[p].copy)
    <3>1. binary' = binary /\ Runtime!CopyNext(p)
      BY <1>4, <2>3 DEF Runtime!Rename
    <3> QED BY <2>1, <2>3, <3>1, InstallerStep DEF Runtime!Exists
  <2>4. CASE ~temp[p] /\ ~Runtime!Exists(v, mjob[p].copy)
    BY <1>3, <1>4, <2>1, <2>4 DEF Runtime!Rename
  <2> QED BY <2>2, <2>3, <2>4
<1>5. ASSUME NEW p \in Installers, Runtime!Activate(p) PROVE Installing' /\ Activated'
  <2>1. /\ mpc[p] = "copied" /\ Runtime!End(p) /\ active' = active \cup {mjob[p].version}
        /\ binary' = binary /\ stale' = stale /\ mraced' = mraced /\ mjob[p].version \in Versions
    BY <1>5 DEF Runtime!Activate, Runtime!TypeOK
  <2>2. mjob[p].version \notin mraced => Runtime!Complete(mjob[p].version) /\ ~Runtime!Judged(mjob[p].version)
    BY <2>1 DEF Installing, Safe, Runtime!Complete
  <2>3. Activated'
    BY <2>1, <2>2 DEF Activated, Runtime!Complete, Runtime!Judged, Runtime!Exists
  <2>4. ASSUME NEW q \in Installers, mpc'[q] # "idle", mjob'[q].version \notin mraced' PROVE Safe(q)'
    <3>1. q # p /\ mpc'[q] = mpc[q] /\ mjob'[q] = mjob[q]
      BY <2>1, <2>4 DEF Runtime!End, Runtime!Goto, Runtime!TypeOK
    <3> QED BY <2>1, <2>4, <3>1 DEF Installing, Safe, Runtime!Judged, Runtime!Exists
  <2> QED BY <2>3, <2>4 DEF Installing
<1>6. ASSUME NEW c \in Cleaners, Runtime!Scan(c) PROVE Installing' /\ Activated'
  <2>1. /\ stale' = [stale EXCEPT ![c] = {v \in Versions : Runtime!Incomplete(v)}]
        /\ mraced' = mraced \cup {v \in Versions : Runtime!Incomplete(v) /\ \E p \in Installers : mjob[p].version = v}
        /\ binary' = binary /\ mpc' = mpc /\ mjob' = mjob /\ active' = active
    BY <1>6 DEF Runtime!Scan
  <2>2. \A v \in Versions : Runtime!Judged(v)' => Runtime!Judged(v) \/ Runtime!Incomplete(v)
    BY <2>1 DEF Runtime!Judged, Runtime!TypeOK
  <2>3. Activated'
    BY <2>1, <2>2 DEF Activated, Runtime!Complete, Runtime!Exists, Runtime!Incomplete, Runtime!TypeOK
  <2>4. ASSUME NEW q \in Installers, mpc'[q] # "idle", mjob'[q].version \notin mraced' PROVE Safe(q)'
    <3>1. mjob[q].version \in Versions /\ Safe(q) /\ ~Runtime!Incomplete(mjob[q].version)
      BY <2>1, <2>4 DEF Installing, Runtime!TypeOK
    <3> QED BY <2>1, <2>2, <3>1 DEF Safe, Runtime!Exists
  <2> QED BY <2>3, <2>4 DEF Installing
<1>7. ASSUME NEW c \in Cleaners, NEW v \in Versions, NEW f \in Runtime!Files, Runtime!RemoveFile(c, v, f)
      PROVE  Installing' /\ Activated'
  <2>1. /\ Runtime!Judged(v) /\ binary' = [binary EXCEPT ![v][f] = "none"]
        /\ stale' = stale /\ mraced' = mraced /\ mpc' = mpc /\ mjob' = mjob /\ active' = active
    BY <1>7 DEF Runtime!RemoveFile, Runtime!Judged
  <2>2. \A w \in Versions \ {v}, g \in Runtime!Files : Runtime!Exists(w, g) => Runtime!Exists(w, g)'
    BY <2>1 DEF Runtime!Exists, Runtime!TypeOK
  <2>3. Activated'
    BY <2>1, <2>2 DEF Activated, Runtime!Complete, Runtime!Judged, Runtime!TypeOK
  <2>4. ASSUME NEW q \in Installers, mpc'[q] # "idle", mjob'[q].version \notin mraced' PROVE Safe(q)'
    <3>1. Safe(q) /\ mjob[q].version \in Versions \ {v}
      BY <2>1, <2>4 DEF Installing, Safe, Runtime!TypeOK
    <3> QED BY <2>1, <2>2, <3>1 DEF Safe, Runtime!Judged
  <2> QED BY <2>3, <2>4 DEF Installing
<1>8. ASSUME stale' \in [Cleaners -> SUBSET Versions], \A d \in Cleaners : stale'[d] \subseteq stale[d],
             mraced' = mraced, active' = active, binary' = binary, mpc' = mpc, mjob' = mjob
      PROVE  Installing' /\ Activated'
  <2>1. \A w : Runtime!Judged(w)' => Runtime!Judged(w)
    BY <1>8 DEF Runtime!Judged
  <2>2. Activated'
    BY <1>8, <2>1 DEF Activated, Runtime!Complete, Runtime!Exists
  <2>3. Installing'
    BY <1>8, <2>1 DEF Installing, Safe, Runtime!Exists
  <2> QED BY <2>2, <2>3
<1>9. ASSUME NEW c \in Cleaners, NEW v \in Versions, Runtime!RemoveDir(c, v) PROVE Installing' /\ Activated'
  BY <1>8, <1>9 DEF Runtime!RemoveDir, Runtime!TypeOK
<1>10. ASSUME NEW c \in Cleaners, Runtime!CleanupKilled(c) PROVE Installing' /\ Activated'
  BY <1>8, <1>10 DEF Runtime!CleanupKilled, Runtime!TypeOK
<1>11. ASSUME NEW p \in Installers, Runtime!CopyFails(p) PROVE Installing' /\ Activated'
  BY <1>3, <1>11 DEF Runtime!CopyFails
<1>12. ASSUME NEW p \in Installers, Runtime!Killed(p) PROVE Installing' /\ Activated'
  BY <1>3, <1>12 DEF Runtime!Killed
<1>13. ASSUME NEW v \in Versions, Runtime!DayPasses(v) PROVE Installing' /\ Activated'
  BY <1>13, QuietStep DEF Runtime!DayPasses
<1>14. CASE UNCHANGED Runtime!vars
  BY <1>14, QuietStep DEF Runtime!vars
<1> QED BY <1>1, <1>2, <1>4, <1>5, <1>6, <1>7, <1>9, <1>10, <1>11, <1>12, <1>13, <1>14 DEF Runtime!Next

(* The invariant is inductive. *)

-----------------------------------------------------------------------------
(* The waves of a workflow.  The steps of a wave do not overlap, so no      *)
(* path is within two of their leases, when wildcards are whole elements.  *)
(* The schedule is made with the operators of WorkflowPlan. *)
LEMMA SamePlan ==
  /\ \A m, done : Waves!NextBatch(m, done) = NextBatch(m, done)
  /\ \A w, path : Waves!LeaseAllows(w, path) = LeaseAllows(w, path)
  /\ Waves!Manifest(WriteSets) = Manifest(WriteSets)
BY DEF Waves!NextBatch, NextBatch, Waves!workflowWritesOverlap, workflowWritesOverlap,
       Waves!LeaseAllows, LeaseAllows, Waves!Matches, Matches, Waves!NameMatches, NameMatches,
       Waves!Manifest, Manifest, Waves!Steps, Steps, Waves!IsPrefix, IsPrefix,
       Waves!Front, Front, Waves!Last, Last

Apart(batch) ==
  \A s, t \in batch : s # t => ~workflowWritesOverlap(manifest.writes[s], manifest.writes[t])
WavesInv ==
  /\ batches \in Seq(SUBSET Steps)
  /\ \A s \in Steps : WholeNames(PathNames, manifest.writes[s])
  /\ manifest.parallel => \A k \in DOMAIN batches : Apart(batches[k])

LEMMA WavesInit ==
  ASSUME WholeElements, Init
  PROVE  WavesInv
<1>1. batches = <<>>
  BY DEF Init, Waves!Init
<1>2. \A s \in Steps : WholeNames(PathNames, manifest.writes[s])
  <2>1. CASE part = "waves"
    <3>1. manifest \in Manifest(WriteSets)
      BY <2>1, SamePlan DEF Init, Waves!Init
    <3>2. \A s \in Steps : manifest.writes[s] \in WriteSets
      BY <3>1 DEF Manifest
    <3> QED BY <3>2 DEF WholeElements, WholeNames
  <2>2. CASE part # "waves"
    <3>1. \A s \in Steps : manifest.writes[s] = {}
      BY <2>2 DEF Init
    <3> QED BY <3>1 DEF WholeNames
  <2> QED BY <2>1, <2>2
<1> QED BY <1>1, <1>2 DEF WavesInv

LEMMA WavesNext ==
  ASSUME WavesInv, [Waves!Next]_(Waves!vars)
  PROVE  WavesInv'
<1>1. manifest' = manifest
  BY DEF Waves!Next, Waves!Load, Waves!Wave, Waves!vars
<1>2. CASE batches' = batches
  BY <1>1, <1>2 DEF WavesInv, Apart
<1>3. CASE batches' # batches
  <2> DEFINE done == Waves!Scheduled
             batch == NextBatch(manifest, done)
  <2>1. batches' = Append(batches, batch)
    BY <1>3, SamePlan DEF Waves!Next, Waves!Load, Waves!Wave, Waves!vars
  <2>2. batch \subseteq Steps /\ (manifest.parallel => Apart(batch))
    <3> HIDE DEF done
    <3> QED BY NextBatchSound DEF Apart
  <2> HIDE DEF batch
  <2>3. batches \in Seq(SUBSET Steps)
    BY DEF WavesInv
  <2>4. /\ batches' \in Seq(SUBSET Steps)
        /\ \A k \in DOMAIN batches' : (k \in DOMAIN batches /\ batches'[k] = batches[k]) \/ batches'[k] = batch
    BY <2>1, <2>2, <2>3
  <2> QED BY <1>1, <2>2, <2>4 DEF WavesInv, Apart
<1> QED BY <1>2, <1>3

-----------------------------------------------------------------------------
(* A step of the whole is a step of each part or leaves it alone. *)
LEMMA PartsStep ==
  ASSUME [Next]_vars
  PROVE  /\ [Session!Next]_(Session!vars)
         /\ [Reconcile!Next]_(Reconcile!vars)
         /\ [Catalog!Next]_(Catalog!vars)
         /\ [Agent!Next]_(Agent!vars)
         /\ [Secret!Next]_(Secret!vars)
         /\ [Verify!Next]_(Verify!vars)
         /\ [Gate!Next]_(Gate!vars)
         /\ [Sync!Next]_(Sync!vars)
         /\ [Runtime!Next]_(Runtime!vars)
         /\ [Waves!Next]_(Waves!vars)
<1>1. /\ Session!Next \/ UNCHANGED sessionVars
      /\ Reconcile!Next \/ UNCHANGED reconcileVars
      /\ Catalog!Next \/ UNCHANGED catalogVars
      /\ Agent!Next \/ UNCHANGED agentVars
      /\ Secret!Next \/ UNCHANGED secretVars
      /\ Verify!Next \/ UNCHANGED verifyVars
      /\ Gate!Next \/ UNCHANGED gateVars
      /\ Sync!Next \/ UNCHANGED syncVars
      /\ Runtime!Next \/ UNCHANGED runtimeVars
      /\ Waves!Next \/ UNCHANGED wavesVars
  BY DEF Next, vars, RunSession, RunReconcile, RunCatalog, RunAgent, RunSecret, RunVerify, RunGate,
         RunWaves, RunSync, RunRuntime
<1>2. UNCHANGED sessionVars => UNCHANGED Session!vars
  BY DEF sessionVars, Session!vars, Session!store
<1>3. UNCHANGED reconcileVars => UNCHANGED Reconcile!vars
  BY DEF reconcileVars, Reconcile!vars, Reconcile!rec, Reconcile!disk, Reconcile!bounds
<1>4. UNCHANGED catalogVars => UNCHANGED Catalog!vars
  BY DEF catalogVars, Catalog!vars
<1>5. UNCHANGED agentVars => UNCHANGED Agent!vars
  BY DEF agentVars, Agent!vars
<1>6. UNCHANGED secretVars => UNCHANGED Secret!vars
  BY DEF secretVars, Secret!vars, Secret!bounds
<1>7. UNCHANGED verifyVars => UNCHANGED Verify!vars
  BY DEF verifyVars, Verify!vars, Verify!tree, Verify!setup
<1>8. UNCHANGED gateVars => UNCHANGED Gate!vars
  BY DEF gateVars, Gate!vars, Gate!stores
<1>9. UNCHANGED syncVars => UNCHANGED Sync!vars
  BY DEF syncVars, Sync!vars
<1>10. UNCHANGED runtimeVars => UNCHANGED Runtime!vars
  BY DEF runtimeVars, Runtime!vars
<1>11. UNCHANGED wavesVars => UNCHANGED Waves!vars
  BY DEF wavesVars, Waves!vars
<1> QED BY <1>1, <1>2, <1>3, <1>4, <1>5, <1>6, <1>7, <1>8, <1>9, <1>10, <1>11

(* preamble.go:590, 619: a record that a prompt leaves out as known is in  *)
(* the agent's context in its current version, whatever tool hooks run     *)
(* beside it, whichever saves fail and whoever is killed.                  *)
THEOREM KnownWasShown == Spec => []SuppressedWasShown
<1>1. Init => SessionIInv
  BY PartsAssumption, SessionInitInv DEF Init
<1>2. SessionIInv /\ [Next]_vars => SessionIInv'
  BY PartsAssumption, SessionInvNext, PartsStep
<1>3. SessionIInv => SuppressedWasShown
  BY PartsAssumption, SafeContext DEF SuppressedWasShown
<1> QED BY <1>1, <1>2, <1>3, PTL DEF Spec

(* cmd_reconcile.go:139-180: no call passes against an issue older than    *)
(* the cadence, whoever is killed between the writes of the checkpoint.    *)
THEOREM OldIssuesStop == Spec => []OldIssuesBlock
<1>1. Init => ReconcileIInv
  BY ReconcileInitInv DEF Init
<1>2. ReconcileIInv /\ [Next]_vars => ReconcileIInv'
  BY ReconcileInvNext, PartsStep
<1>3. ReconcileIInv => OldIssuesBlock
  BY DEF ReconcileIInv, Blocked, OldIssuesBlock, Reconcile!OldIssuesBlock
<1> QED BY <1>1, <1>2, <1>3, PTL DEF Spec

(* catalog.go:216-262: the usable profiles are what each provider said     *)
(* last, and a curated quality stays, for any profiles and any number of   *)
(* refreshes.                                                              *)
THEOREM LastAnswersStay == Spec => []LastKnownGood
<1>1. Init => CatalogIInv
  BY PartsAssumption, CatalogInitInv DEF Init
<1>2. CatalogIInv /\ [Next]_vars => CatalogIInv'
  BY PartsAssumption, CatalogInvNext, PartsStep
<1>3. CatalogIInv => LastKnownGood
  BY PartsAssumption, CatalogIsTold DEF LastKnownGood
<1> QED BY <1>1, <1>2, <1>3, PTL DEF Spec

(* cmd_agent.go:97-99, 216-218: a launch that is alone finds its own shims *)
(* and its own context, and an agent runs only what its launch allowed.    *)
THEOREM LaunchesAreOwn == Spec => []JailIsOwn
<1>1. Init => AgentIInv
  BY AgentInitInv DEF Init
<1>2. AgentIInv /\ [Next]_vars => AgentIInv'
  BY AgentInvNext, PartsStep
<1>3. AgentIInv => JailIsOwn
  <2>1. AgentIInv => Agent!JailIsOwn
    BY DEF AgentIInv, Own, OwnJail, Agent!JailIsOwn
  <2>2. AgentIInv => Agent!BrokeredIsAllowed
    BY DEF AgentIInv, Brokered, Agent!BrokeredIsAllowed
  <2> QED BY <2>1, <2>2 DEF JailIsOwn
<1> QED BY <1>1, <1>2, <1>3, PTL DEF Spec

(* secrets.go:60-74, 139-165: one key opens everything that is kept, and   *)
(* what a command set stays until it is removed.                           *)
THEOREM SecretsStay == Spec => []SecretsAreKept
<1>1. Init => SecretIInv
  BY SecretInitInv DEF Init
<1>2. SecretIInv /\ [Next]_vars => SecretIInv'
  BY SecretInvNext, PartsStep
<1>3. SecretIInv => SecretsAreKept
  <2>1. SecretIInv => Secret!SealedIsReadable
    BY DEF SecretIInv, Opened, Readable, Secret!SealedIsReadable
  <2>2. SecretIInv => Secret!SetIsKept
    BY DEF SecretIInv, Kept, FileKeeps, Has, Secret!SetIsKept
  <2> QED BY <2>1, <2>2 DEF SecretsAreKept
<1> QED BY <1>1, <1>2, <1>3, PTL DEF Spec

(* verifyloop.go:47-49, cmd_verify.go:16-20: "clean" leaves no boundary    *)
(* violated, giving up names what is, "verify: OK" had no part failing.    *)
THEOREM VerdictsAreTrue == Spec => []VerdictIsTrue
<1>1. Init => VerifyIInv
  BY VerifyInitInv DEF Init
<1>2. VerifyIInv /\ [Next]_vars => VerifyIInv'
  BY VerifyInvNext, PartsStep
<1>3. VerifyIInv => VerdictIsTrue
  BY DEF VerifyIInv, VerifyTypeInv, Loops, SoFarOk, VerdictIsTrue, Verify!VerdictIsTrue, Verify!OkMeansAll
<1> QED BY <1>1, <1>2, <1>3, PTL DEF Spec

(* cmd_hook.go:425-429: no order of checks, spent overrides and changes of *)
(* rules lets a call through that was off limits all the time since its    *)
(* hook began.                                                             *)
THEOREM TheWallHolds == Spec => []WallHolds
<1>1. Init => GateIInv
  BY GateInitInv DEF Init
<1>2. GateIInv /\ [Next]_vars => GateIInv'
  BY GateInvNext, PartsStep
<1>3. GateIInv => WallHolds
  BY DEF GateIInv, SoFar, Passes, PassesWords, WallHolds, Gate!WallHolds
<1> QED BY <1>1, <1>2, <1>3, PTL DEF Spec

(* workflow_schedule.go:87-88: no path is within the leases of two steps   *)
(* that run together, when wildcards are whole path elements.              *)
THEOREM LeasesAreApart ==
  ASSUME WholeElements
  PROVE  Spec => []WavesAreDisjoint
<1>0. Init => WavesInv
  BY WavesInit
<1>1. WavesInv /\ [Next]_vars => WavesInv'
  BY WavesNext, PartsStep
<1>2. WavesInv => WavesAreDisjoint
  <2> SUFFICES ASSUME WavesInv, manifest.parallel, NEW k \in DOMAIN batches,
                      NEW s \in batches[k], NEW t \in batches[k], s # t, NEW path \in Paths,
                      LeaseAllows(manifest.writes[s], path), LeaseAllows(manifest.writes[t], path)
               PROVE  FALSE
    BY SamePlan DEF WavesAreDisjoint, Waves!WavesAreDisjoint
  <2>1. s \in Steps /\ t \in Steps
    BY DEF WavesInv
  <2>2. /\ WholeNames(PathNames, manifest.writes[s])
        /\ WholeNames(PathNames, manifest.writes[t])
        /\ path \in Seq(PathNames)
    BY <2>1 DEF WavesInv, WholeElements
  <2>3. workflowWritesOverlap(manifest.writes[s], manifest.writes[t])
    BY <2>2, SharedFileOverlaps
  <2> QED BY <2>3 DEF WavesInv, Apart
<1> QED BY <1>0, <1>1, <1>2, PTL DEF Spec

(* serve_knowledge.go:3-8: exports may arrive in any order and number; a   *)
(* machine holds the newest version it was given or told a human.          *)
THEOREM NewestStays == Spec => []NewestIsKept
<1>1. Init => Sync!TypeOK /\ Sync!NewestIsKept
  BY PartsAssumption, SyncInitTypes DEF Init, Sync!Init, Sync!NewestIsKept
<1>2. Sync!TypeOK /\ Sync!NewestIsKept /\ [Next]_vars => (Sync!TypeOK /\ Sync!NewestIsKept)'
  BY PartsAssumption, SyncNextTypes, NextKeeps, PartsStep
<1>3. Sync!NewestIsKept => NewestIsKept
  BY DEF NewestIsKept
<1> QED BY <1>1, <1>2, <1>3, PTL DEF Spec

(* managed_binary.go:39-42, 164-167: what hooks were told to run is whole, *)
(* unless it was cleaned up while it was being installed.                  *)
THEOREM RuntimesStayWhole == Spec => []RuntimeIsWhole
<1>1. Init => RuntimeIInv
  BY PartsAssumption, RuntimeInitInv DEF Init
<1>2. RuntimeIInv /\ [Next]_vars => RuntimeIInv'
  BY PartsAssumption, RuntimeNextTypes, NextSafe, PartsStep DEF RuntimeIInv
<1>3. RuntimeIInv => RuntimeIsWhole
  BY DEF RuntimeIInv, Runtime!TypeOK, Activated, Runtime!Complete, Runtime!Exists, RuntimeIsWhole, Runtime!RuntimeIsWhole
<1> QED BY <1>1, <1>2, <1>3, PTL DEF Spec
=============================================================================

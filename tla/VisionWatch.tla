------------------------------ MODULE VisionWatch ------------------------------
(***************************************************************************)
(* agent-vision (src/tools/agent-vision/vision_ops.py).  Every command is  *)
(* a process that loads session.json, which names the source of frames.    *)
(* Taking a frame is cut off after CAPTURE_TIMEOUT, which ends the command *)
(* whatever it is.  watch takes frames until one shows what it waits for   *)
(* or its time is up; record until its duration is over.  Time passes only *)
(* in captures and in pauses; what detectors take of it is not counted.    *)
(***************************************************************************)
EXTENDS Naturals

CONSTANTS
    Proc, Source,
    Free,           \* the sources that source takes without opening them
    Thing,          \* what a frame may show: objects, faces, texts
    Face,           \* the faces among them
    Limit,          \* CAPTURE_TIMEOUT
    Asked,          \* bound: [Proc -> the commands it may be given]
    MaxRuns,        \* bound: commands
    MaxElapsed,     \* bound: where the count of a command's time stops
    None

VARIABLES
    scene,      \* what there is to see
    session,    \* session.json; Blank when missing or truncated
    known,      \* the names of learned faces
    proc,
    chosen,     \* history: the source that was set last, or None
    alone,      \* history: no two commands overlapped and none was killed
    runs

visionVars == <<scene, session, known, proc, chosen, alone, runs>>

Blank == [source |-> None, count |-> 0]
Idle == [at |-> "idle"]
Taking == {"capture", "detect", "record", "recording"}     \* a frame is being taken
Looks == {"detect", "count", "ocr", "faces", "describe", "ask"}

TypeOK ==
    /\ scene \subseteq Thing /\ known \subseteq Thing
    /\ session.source \in Source \cup {None} /\ session.count \in Nat
    /\ chosen \in Source \cup {None} /\ alone \in BOOLEAN
    /\ \A p \in Proc : ~(proc[p].at = "idle") =>
            proc[p].timer \in 0..Limit /\ proc[p].elapsed \in 0..MaxElapsed

Init ==
    /\ scene \in SUBSET Thing /\ session = Blank /\ known = {}
    /\ proc = [p \in Proc |-> Idle] /\ chosen = None /\ alone = TRUE /\ runs = 0

-----------------------------------------------------------------------------
At(p, at) == proc[p].at = at
Op(p) == proc[p].cmd.op
Cmd(p) == proc[p].cmd
Becomes(p, r) == proc' = [proc EXCEPT ![p] = r]
Finish(p) == Becomes(p, Idle)
Goes(p, at) == Becomes(p, [proc[p] EXCEPT !.at = at, !.timer = 0])
Saving(p, s) == Becomes(p, [proc[p] EXCEPT !.at = "save", !.s = s])
Files == <<session, known, chosen>>

\* main, _load_session: a truncated session is ignored.
Load(p, c) ==
    /\ At(p, "idle") /\ runs < MaxRuns /\ runs' = runs + 1
    /\ Becomes(p, [at |-> "loaded", cmd |-> c, s |-> session, timer |-> 0, elapsed |-> 0,
                   frame |-> None, last |-> None, seen |-> FALSE, names |-> {}])
    /\ alone' = (alone /\ \A q \in Proc : At(q, "idle"))
    /\ UNCHANGED <<scene, Files>>

\* cmd_status, cmd_face_list: they only print.
Show(p) ==
    /\ At(p, "loaded") /\ Op(p) \in {"status", "face list"}
    /\ Finish(p) /\ UNCHANGED <<scene, Files, alone, runs>>

\* cmd_source: a source that does not open is an error, and nothing is saved.
SetSource(p) ==
    /\ At(p, "loaded") /\ Op(p) = "source"
    /\ \/ Saving(p, [source |-> Cmd(p).arg, count |-> 0])
       \/ Cmd(p).arg \notin Free /\ Finish(p)
    /\ UNCHANGED <<scene, Files, alone, runs>>

\* cmd_disconnect: the count of frames stays.
Disconnect(p) ==
    /\ At(p, "loaded") /\ Op(p) = "disconnect"
    /\ Saving(p, [proc[p].s EXCEPT !.source = None])
    /\ UNCHANGED <<scene, Files, alone, runs>>

\* cmd_face_learn: a picture without a face is an error.
LearnFace(p) ==
    /\ At(p, "loaded") /\ Op(p) = "face learn"
    /\ known' \in {known, known \cup {Cmd(p).arg}} /\ Finish(p)
    /\ UNCHANGED <<scene, session, chosen, alone, runs>>

\* Everything else wants a source first.
Begin(p) ==
    /\ At(p, "loaded") /\ Op(p) \in {"snapshot", "watch", "record"} \cup Looks
    /\ IF proc[p].s.source = None THEN Finish(p)
       ELSE Goes(p, IF Op(p) = "watch" THEN "round" ELSE IF Op(p) = "record" THEN "record" ELSE "capture")
    /\ UNCHANGED <<scene, Files, alone, runs>>

\* _capture_frame, _run_bounded: the frame, or none when the source gives none;
\* after the limit CaptureTimeout ends the command.
Got(p, frame) ==
    CASE frame = None /\ (Op(p) = "watch" \/ At(p, "detect")) -> Goes(p, "pause")
      [] frame = None /\ At(p, "recording") -> Goes(p, "recording")
      [] frame = None -> Finish(p)
      [] OTHER -> Becomes(p, [proc[p] EXCEPT !.frame = frame,
                    !.at = CASE At(p, "detect") -> "detected" [] At(p, "record") -> "recording"
                             [] At(p, "recording") -> "written" [] OTHER -> "judge",
                    !.timer = 0])
Frame(p) ==
    /\ proc[p].at \in Taking
    /\ Got(p, scene) \/ Got(p, None)
    /\ UNCHANGED <<scene, Files, alone, runs>>
Stalled(p) ==
    /\ proc[p].at \in Taking /\ proc[p].timer = Limit
    /\ Finish(p) /\ UNCHANGED <<scene, Files, alone, runs>>

\* cmd_snapshot: the frame is counted, written and remembered in the session.
Snapshot(p) ==
    /\ At(p, "judge") /\ Op(p) = "snapshot"
    /\ Saving(p, [proc[p].s EXCEPT !.count = @ + 1])
    /\ UNCHANGED <<scene, Files, alone, runs>>

\* cmd_detect, cmd_count, cmd_ocr, cmd_faces, cmd_describe, cmd_ask.
Look(p) ==
    /\ At(p, "judge") /\ Op(p) \in Looks
    /\ Finish(p) /\ UNCHANGED <<scene, Files, alone, runs>>

\* cmd_watch: its time is checked before every frame, a timeout of 0 never is up.
TimeIsUp(p) == Cmd(p).timeout > 0 /\ proc[p].elapsed > Cmd(p).timeout
Round(p) ==
    /\ At(p, "round")
    /\ IF TimeIsUp(p) THEN Finish(p) ELSE Goes(p, "capture")
    /\ UNCHANGED <<scene, Files, alone, runs>>

\* The names watch --face compares with: read with the first frame that shows a
\* face, and again until there are some.
Names(p) == IF proc[p].names = {} /\ proc[p].frame \cap Face # {} THEN known ELSE proc[p].names

\* What the detectors say: a frame differs from the one before, shows a face that
\* is known by its name, a text, or an object.
Moved(p) == proc[p].last # None /\ proc[p].frame # proc[p].last
Recognised(p) == Cmd(p).arg \in proc[p].frame \cap Names(p)
Read(p) == Cmd(p).arg \in proc[p].frame
There(p) == Cmd(p).arg \in proc[p].frame

\* Motion, a face or a text end a watch; for an object a second frame is taken.
Judge(p) ==
    /\ At(p, "judge") /\ Op(p) = "watch"
    /\ LET k == Cmd(p).kind
       IN IF \/ k = "motion" /\ Moved(p)
             \/ k = "face" /\ Recognised(p)
             \/ k = "text" /\ Read(p)
          THEN Finish(p)
          ELSE Becomes(p, [proc[p] EXCEPT !.timer = 0, !.last = IF k = "motion" THEN proc[p].frame ELSE @,
                 !.names = IF k = "face" THEN Names(p) ELSE @,
                 !.at = IF k \in {"object", "enter", "exit"} THEN "detect" ELSE "pause"])
    /\ UNCHANGED <<scene, Files, alone, runs>>

\* An object ends the watch when it is there; with --enter, when it was not there
\* a round ago; with --exit never, for it is looked for only among what is there.
Detected(p) ==
    /\ At(p, "detected")
    /\ \/ IF Op(p) = "watch" /\ There(p) /\ (Cmd(p).kind = "object" \/ (Cmd(p).kind = "enter" /\ ~proc[p].seen))
          THEN Finish(p)
          ELSE Becomes(p, [proc[p] EXCEPT !.at = "pause", !.timer = 0, !.seen = There(p)])
       \/ Goes(p, "pause")      \* no detector is installed, or it fails
    /\ UNCHANGED <<scene, Files, alone, runs>>

\* One unit of time: half a second in watch, the time of a frame in record.
Pause(p) ==
    /\ At(p, "pause") /\ proc[p].timer = 1
    /\ Goes(p, IF Op(p) = "record" THEN "recording" ELSE "round")
    /\ UNCHANGED <<scene, Files, alone, runs>>

\* cmd_record: the duration is looked at after a frame was written; what --until
\* finds ends only the search.
Written(p) ==
    /\ At(p, "written")
    /\ IF Cmd(p).timeout > 0 /\ proc[p].elapsed >= Cmd(p).timeout THEN Finish(p)
       ELSE Goes(p, IF Cmd(p).kind = "until" THEN "detect" ELSE "pause")
    /\ UNCHANGED <<scene, Files, alone, runs>>

\* _save_session: write_text truncates the file and then writes it.
Truncate(p) ==
    /\ At(p, "save")
    /\ session' = Blank /\ Goes(p, "rewrite")
    /\ UNCHANGED <<scene, known, chosen, alone, runs>>
Save(p) ==
    /\ At(p, "rewrite")
    /\ session' = proc[p].s /\ Finish(p)
    /\ chosen' = IF Op(p) \in {"source", "disconnect"} THEN proc[p].s.source ELSE chosen
    /\ UNCHANGED <<scene, known, alone, runs>>

Kill(p) ==
    /\ ~At(p, "idle")
    /\ Finish(p) /\ alone' = FALSE /\ UNCHANGED <<scene, Files, runs>>

\* Time passes where every command waits.
WaitsForFrame(p) ==         \* a mutant
    proc[p].at \in {"idle", "pause"} \cup Taking /\ (At(p, "pause") => proc[p].timer < 1)
Waits(p) == \/ At(p, "idle")
            \/ proc[p].at \in Taking /\ proc[p].timer < Limit
            \/ At(p, "pause") /\ proc[p].timer < 1
Tick ==
    /\ \A p \in Proc : Waits(p)
    /\ proc' = [p \in Proc |-> IF At(p, "idle") THEN Idle ELSE
            [proc[p] EXCEPT !.timer = @ + 1, !.elapsed = IF @ < MaxElapsed THEN @ + 1 ELSE @]]
    /\ UNCHANGED <<scene, Files, alone, runs>>

Changes ==
    /\ scene' \in SUBSET Thing \ {scene}
    /\ UNCHANGED <<Files, proc, alone, runs>>

Next ==
    \/ Tick \/ Changes
    \/ \E p \in Proc :
        \/ \E c \in Asked[p] : Load(p, c)
        \/ Show(p) \/ SetSource(p) \/ Disconnect(p) \/ LearnFace(p) \/ Begin(p)
        \/ Frame(p) \/ Stalled(p) \/ Snapshot(p) \/ Look(p) \/ Round(p) \/ Judge(p)
        \/ Detected(p) \/ Pause(p) \/ Written(p) \/ Truncate(p) \/ Save(p) \/ Kill(p)

-----------------------------------------------------------------------------
\* A watch with a timeout ends at most two captures and a pause after it, though
\* the source may give no frame at all, or give it late (vision_ops.py:829).
\* record has no such bound: without frames it does not look at its duration.
WatchIsInTime ==
    \A p \in Proc : (~At(p, "idle") /\ Op(p) = "watch" /\ Cmd(p).timeout > 0) =>
        proc[p].elapsed <= Cmd(p).timeout + 2 * Limit + 1

\* The session names the source that was set last, through every snapshot in
\* between, while commands come one after another (vision_ops.py:127).
SourceIsKept ==
    (alone /\ \A p \in Proc : ~At(p, "rewrite")) => session.source = chosen

=============================================================================

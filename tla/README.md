# A TLA+ verification of the frame and hit chain

This directory specifies, model-checks and in part proves the concurrent core
of the Meta-Reality Game Engine: the chain of small processes that triggers the
cameras, labels their frames, turns detections into persons and hits, sends the
hits to the game manager, and shows the field to the operator. The reference is
the newest generation of the services, `src/historical/v26/`; paths without a
directory below are in it. `PROJECT.json` maps every definition to the lines it
models.

- [1 The system](#1-the-system)
- [2 The modules](#2-the-modules)
- [3 The runs](#3-the-runs)
- [4 Fairness](#4-fairness)
- [5 The proofs](#5-the-proofs)
- [6 What the runs show about the code](#6-what-the-runs-show-about-the-code)
- [7 What is not modelled](#7-what-is-not-modelled)
- [8 Plan](#8-plan)

## 1 The system

Every service is a Python process with a polling loop. Services share nothing
but files in `sync_ipc/`, mappings in `/dev/shm` and Unix datagram sockets: no
locks, no acknowledgements, no broker. Four kinds of medium occur.

- *JSON-lines files*, appended by one or more writers and followed by a
  `JsonlTailer` (an offset in memory, nothing persisted).
- *Latest files and control files*, replaced as a whole with `os.replace`;
  readers see a version or a later one, and may miss versions.
- *Shared memory*, written and read without a lock: frames with an active slot
  but no sequence number, preview rings with one.
- *Datagrams* from the trigger coordinator to the camera workers.

```
 trigger coordinator --datagrams--> camera workers --raw preview rings--+
                                      |                                 |
                            latest frame (shm)                          v
                                      |                        bird's-eye view
                                      v                                 |
                                  inference                             |
                                      |                                 |
                          person result files                           |
                                      |                                 |
 event workers -> bullet points       v                                 |
                      |        global person server                     |
                      v               |                                 |
                  hit judge   global_person_latest.json                 |
                      |               |                                 |
      hit_candidate_all.jsonl         v                                 |
                      +-----> damage attribution <--- display slots ----+
                                      |
 preview click -> manual hit          |
        |          service            |
        |             |               v
        |             +--- damage_attribution_events.jsonl
        |                             |
        +-- control files --->  game event bridge --TCP--> game manager
```

| Component | State it keeps | Operations | Talks to | What is hard | Correct when |
|---|---|---|---|---|---|
| Trigger coordinator (`mvs_trigger_coordinator.py`) | tick id, next fire time | sleep, resynchronise, send to each camera, record | workers, timeline file | late wake-ups, blocking sends, missing and dying workers, a second start with the old ids | fire times keep their pace, a tick is sent to the end |
| Camera worker (`mvs_cam_worker_external_trigger.py`) | last tick, queue of metadata, camera | receive, wait, trigger, queue metadata; read a frame, label it | coordinator, camera, downstream | two threads and a camera that agree on order only; failing triggers, orphan frames | a frame carries the tick it was taken at; labels increase |
| JSON-lines tailer (`game_event_bridge_service.py:67-107`, the same class in two more services) | offset, initialised or not | `read_new(max_lines)` | the file's writers | lines seen in part, `max_lines`, a file replaced between polls or between `stat()` and the read, restarts | lines come in order, none twice, only torn ones are lost, the end is reached |
| Person server, front (`global_person_id_server.py:91-190, 1590-1650`) | a tailer per camera, records pending per sync index | poll, collect, flush in order, reset | inference server, tracker | late records, emptied files, a limited flush, a reset | sync indices in order, no detection lost or twice |
| Person server, tracks (`global_person_id_server.py:560-1400`) | tracks, birth candidates, window and timers | match, reject, birth, miss, retire, publish | game logic through the person file | five timers of one track that run from different instants, a gate asked twice | nobody leaves the field without the hold or comes back after it; the window keeps its limit |
| Damage attribution (`damage_attribution_service.py`) | tailer, person and display history, keys already written | load persons, read candidates, find the victim, find the slot, deduplicate, append | candidates file, person file, display file, events file | person files missed or out of order, local ids that change hands, candidates older or newer than the file | the victim is who carried the local id in the candidate's frame; a rejection hides no hit |
| Manual hit service (`manual_hit_service.py`) | offset, control, last hit per person | poll control, read commands, accept or refuse, write event and confirmation | commands file, control file, two output files | `max_lines`, failed writes, crash between two writes, switching off during a batch | the cooldown holds, the two outputs agree, every click is answered |
| Game event bridge (`game_event_bridge_service.py`) | tailer, control mode, keys already sent, socket and back-off, sent log | poll control, send presence, read events, filter, deduplicate, send, log | events file, control file, game manager (TCP) | failing and half-dead connections, restarts, a purge that is limited, mode changes during a batch | no hit repeats within the time to live; log and game manager agree |
| Latest frame (`latest_frame_shm.py`) | header words, two slots; per process position in the protocol | write a frame, open, read the latest | one writer, many readers | every load and store interleaves; writer crash, file replaced under readers | a frame is torn only after two publications within one read, never delivered twice or backwards |
| Preview rings (`preview_gpu_shm.py`) | sequence number, active slot, metadata and pixels per slot | make the file, write a frame; open, snapshot, copy a slot | one worker, the renderers | a reader between any two stores, death in any of them | no copy mixes two frames |
| Bird's-eye view (`global_bev_fusion_renderer.py`) | readers, textures with upload keys, hold and budget | open, snapshot, choose frames, upload, draw | preview rings | rings that lag, fail, join late; a time budget that ends early | textures are whole and named right, time does not go back, no camera starves |
| Latest packet sender (`latest_frame_tsf1_sender.py`) | one pending packet, socket | submit, send loop, close | inference server | producer against sender thread, close during connect | the newest packet goes out, never an older one after it |
| Polygon gate and rate deadline (`event_track_polygon_gate.py`, `monotonic_rate_deadline.py`) | state per track | step | event workers | boundary crossings, clock jumps | emissions respect the rate |
| Bullet fusion (`global_bullet_fusion_service.py`) | tracks | associate, expire | point file | order of points from several cameras | a track is not used after expiry |
| Hit judge, inference, launcher | geometric and neural state | – | all of the above | mostly numeric | see section 7 |
| `src/mrge`, `src/replay` | none | pure functions | – | – | candidates for pure operators |

## 2 The modules

| Module | Models | Notes |
|---|---|---|
| `TriggerSockets` | clock and datagram sockets | The queue of a socket is bounded; a send to a live worker with a full queue blocks. |
| `TriggerCoordinator` | the coordinator's loop | `Sample` (wake up, resynchronise), one `SendTo` per camera, `Record`; `CoordinatorStarts` begins again with the first id. |
| `CameraWorker` | one worker per camera | Trigger thread `Receive`, `Fire`, `PushMeta`; read thread `LabelFrame`, `SkipOrphan`. The camera is external and answers a trigger with one frame or none. |
| `TriggerChain` | coordinator and workers composed | The properties are about frames, ticks and labels across the processes. |
| `PersonSync` | the front of the person server | `PollLines`, `PollShrunk`, `PollMissing` per camera, `TakeBatch`, one `FlushNext` per sync index. |
| `PersonTracks` | the life of a global id | One flush is `Match`/`Reject` per observation, births, then `EndFlush`, which marks, removes and publishes: of two tracks that may be published any may be near each other, and then the one that comes second is left out (`Shown`, `Outranks`). Instants are kept as times gone by or remaining, which makes the state space finite without a bound on the clock. |
| `JsonlFile` | the arithmetic of `JsonlTailer.read_new` | A line has three parts (opening, rest of the object, newline): the coarsest cut that tells apart a fragment that does not parse, an object without its newline, and a lone newline. |
| `JsonlTailer` | one tailer against one writer | `Stat` and `Read` are two steps, so the file may change in between. |
| `HitOutlet` | the abstract specification of a duplicate filter | A stream of hits; an incarnation never repeats a key within the time to live. The bridge, the attribution service and the manual hit service implement it: with `camera:event_id`, the event id and the person hit for keys. |
| `GameEventBridge`, `MCGameEventBridge` | `run()` of the bridge | One action per call that can be observed from outside: `PollControl`, `Presence`, `ReadEvents`, `SkipEvent`, `DropDuplicate`, `TakeHit`, `SendHit`/`ShadowHit`, `LogHit`, `FinishPoll`. A send may arrive, fail, or vanish into the kernel's buffer of a dead connection. |
| `DamageAttribution`, `MCDamageAttribution` | `run()` of the attribution service | `LoadPersons`, `ReadCandidates`, then per candidate one of `RejectTarget`, `RejectSlot`, `RejectSource`, `Attribute`. `Target(c, p, why)` is the chain of `_target_gid`: explicit id, history, current file, spatial, stable id. |
| `ManualHit` | `run()` of the manual hit service | `Accept` marks the person and writes the event, `Confirm` writes the confirmation; a crash may come between. Each write of an event, a confirmation or a refusal may fail instead (`AcceptFails`, `ConfirmFails`, `RefuseFails`); its line stays in the buffer of the file and goes out with a later one. `RejectException` is the handler in `run()`, `Die` the failure of its own write. |
| `LatestFrameShm` | writer and reader of the shared frame | One action per load or store, those of the geometry included (`StoreGeometry`, `LoadGeometry`); the pixel copy is two halves. |
| `PreviewRing` | one raw preview ring per camera | The worker makes the file (magic number, then the geometry field by field with `DATA_BYTES` last), then per frame `BeginWrite`, `CopyFirst`, `CopyRest`, `Publish`; it may die at any step and a new worker makes a new file. |
| `GlobalBev`, `MCGlobalBev` | the way from the rings to the textures | One paint is, per missing input, `SkipInput` or `MapFile` and a `LoadField` per field of the geometry, then a `TakeSnapshot` per reader, `ChooseFrames`, per camera `KeepTexture`, `HoldByBudget` or `BeginCopy`, `CopyHalf`, `CopyOther`, then `Draw`. Workers may step in between any two. |
| `*_Proofs` | theorems | see section 5 |

Conventions. A name in the code keeps its name where TLA+ allows it. `epoch`
counts the incarnations of a service; `Restart` is the process being killed at
any point, or dying of an exception nobody catches, and being started again.
`now` is `time.time()` or the monotonic clock, in a unit of the instance's
choice, and only `Tick` or `TimePasses` advances it. Variables marked *history*
record what happened for the properties and are
read by no action. Definitions named `X_Something` in front of `X` are faulty
variants of `X`: with `X` replaced by its variant, the property listed beside it
in `PROJECT.json` no longer holds, which shows that the property depends on that
piece of the code.

**Abstractions.** An event, a candidate or a command is a member of a small set
that has the fields the code branches on. Geometry is left to the choice of a
step: `ManualHit!Resolutions` may find any person or none, the spatial fallback
of `DamageAttribution` may find anybody with a track. That includes more
behaviours than the code has, so safety properties carry over. `DamageAttribution`
counts its input in whole lines because `JsonlTailer` covers half lines for the
same class, and has one camera, so that a local id stands for a pair of camera
and local id. Its tracks may share a local id, because the person server keeps
`local_ids` of a track after the camera has reassigned them
(`global_person_id_server.py:1399-1403`), and its person file may go back in
sync index, because `_flush_ready_syncs` publishes late syncs (line 1614 ff.). `PersonTracks` leaves open
which observation finds which track; `PersonSync` leaves open which sync index
the next line carries. In `PreviewRing` metadata, active slot and the even
sequence number are one store: until the last of them the number is odd, and no
reader takes what it reads under an odd number. In `GlobalBev` a metadata
snapshot is one step, because the reader's two reads of the sequence number
enclose it; a copy is three, because its first read may find a number that the
write in progress changes later. The time budget of a paint may be used up or not
before each camera, by copies or by a pause; a camera that needs no upload costs
nothing.

In both shared memories a reader loads the geometry field by field, once for its
life, while the writer may still be storing it, and takes what is missing for
zero. Without `DATA_BYTES`, which is stored last, every slot lies on slot 0;
without height, width or stride a frame is an empty array. The models have these
readers, and the properties say which frames they speak of: such a reader's
frames of slot 0 are as good as anyone's, those of slot 1 carry slot 0's pixels.
Fields of which none is of use without the others are one field. A ring of more
than nine slots, whose header is longer than the magic number's store tells, is
left out.

## 3 The runs

| Run | Checks | Bounds, and why they are enough |
|---|---|---|
| `trigger` | `LabelRight`, `FiresKeepPace`, `LagNeverHeals`, `LabelsIncrease`, `SendsEnd` | 2 cameras, 3 ticks, 2 starts of the coordinator, queues of one datagram and one metadata (both overflow), one trigger that fails, one worker that dies; a clock to 3 with lead, period and resynchronisation of 1. 1.2 million states. |
| `person_sync` | `OrderedUnlessLate`, `Accounted`, `ReadyIsFlushed` | 2 cameras, 3 lines over 3 sync indices in any order, `max_lines` 2, one index per flush (so that ready ones wait for each other), one emptied file or reset. |
| `person_tracks` | `HiddenCannotReturn`, `BootstrapBounded`, `LeavesOnlyAfterHold`, `GhostsVanish` | 2 ids and one candidate; hold, lock and retirement of 2 against matching of 1, a hard cap equal to the hold, no bound on time. 0.7 million states; with a cap of 3, 1.4 million, checked once. |
| `tailer` | `TypeOK`, `InFileOrder`, `OnlyTornLinesLost`, `CatchesUp` | 3 lines with `max_lines` 2 (a poll is cut), one replacement of the file, one restart; any prefix of a line may be visible. |
| `bridge_hits` | `TypeOK`, `NoRepeatWithinTtl`, `InboxAgreesWithLog`, `ImplementsOutlet` | 3 events that carry one `event_id` for two cameras, written in parts: two keys can expire while a purge takes one (`PurgeMax` 1). Clock to 2 with a time to live of 1. At most one disturbance per behaviour (`DisturbBound`): a restart, a failure of the connection or a new control file. 3.4 million states; with one of each, 13.5 million, checked once. |
| `bridge_lost_hit` | `PublishableReachesManager` *fails* | One event, one failure, under the assumption that the manager comes back. |
| `attribution` | `HitHiddenOnlyByHit`, `SlotWasShown`, `ImplementsOutlet`, `EveryCandidateAnswered` | 2 candidates with `max_lines` 1, a slot that changes twice, stale or not, or is the reserved one; clock to 2 with ages and time to live of 1, one restart. |
| `attribution_identity` | `TypeOK`, `ExactFrameDecides`, `CurrentOnlyOutOfReach` | Two persons and one local id: one, the other, both or neither carry it. Sync indices 0 to 2 with a window of 1, 2 person files in any order of sync index, 2 remembered. One candidate, with or without a sync index: attribution of a candidate reads nothing an earlier one wrote except the duplicate filter, which the run above covers. |
| `manual_hit` | `CooldownKept`, `RepeatedOnlyAfterCut`, `ConfirmationsAgree`, `ImplementsOutlet`, `EveryClickAnswered` | 2 clicks with `max_lines` 1 (a read is cut), a cooldown of 2 on a clock to 3, one failed write, one switch, one restart. |
| `manual_replay` | `OneHitPerClick` *fails* | The instance of `manual_hit`. |
| `latest_frame` | `TornOnlyIfLapped`, `DeliversNewer`, `CatchesUp` | 3 frames per writer: two publications within one attempt, and one before. 2 generations of the file, 2 attempts. |
| `preview` | `TypeOK`, `NeverTorn`, `ShownAsNamed`, `NoneStarves`, `TimeGoesOn` | 2 cameras with rings of 2 slots, one with ticks 1 to 4, the other with 1 and 3 (it lags, and every second target has no frame of it) and mortal at every step. A delay of 1 (it sets in), a reach of 1 (cameras are hidden), 2 attempts per copy. 5.9 million states. A worker that comes back with a new file (`FileBound` 2) was checked once, before the history `lineup` was added, with 9.5 million states. |

The type invariants of `LatestFrameShm`, `TriggerChain`, `PersonSync`,
`PersonTracks` and `ManualHit` are proved (section 5) and take no time of a run. The other
properties are about the hazards listed in `PROJECT.json`; each of them
relates several steps, mostly of several processes. Deadlock is left unchecked
where a bound on the environment (events, clock, restarts) ends a behaviour that
would go on in the program.

Some of what the runs show, in words:

- A frame carries the tick it was taken at as long as its worker missed no frame
  and cut no metadata, whatever the two threads and the camera interleave; labels
  increase even over a second start of the coordinator. But one missed frame
  shifts every later label of that camera for good: `LagNeverHeals` is a fact
  about the code that an operator should know, checked and proved.
- A slow worker delays the coordinator and through it every camera, but a dead or
  missing one does not, and no tick is left half sent.
- No detection gets lost or counted twice between the files and the tracker,
  whatever polls, flushes, resets and emptied files do, with two exceptions
  the property names.
- An id leaves the publication inside the field only after its hold, and is by
  then too old to be matched again, for all timings that satisfy the assumption on
  the constants (which the defaults do).
- The bridge never sends a hit key twice within the time to live in one
  incarnation, its log never claims failure for a delivered hit, and it is a
  refinement of `HitOutlet`. What it does not do is send every hit (section 6).
- In the attribution service the fallback to the current person file is reached
  only by candidates the history has turned down for their distance in sync
  index (`CurrentOnlyOutOfReach`): the newest file is always in the history too.
- The duplicate filter of the attribution service remembers rejections as well,
  but a rejection never hides a later hit, because the victim is part of the key.
- A reader of the latest frame gets a torn frame only if the writer published
  twice during one attempt; it never gets a frame twice or an older one. The
  preview rings have a sequence number, and no texture is ever torn.

## 4 Fairness

- *Services* (`WF_vars(Bridge)`, `WF_vars(Service)`, `WF_vars(Server)`,
  `WF_vars(Stat)`, `WF_vars(Read)`): a loop takes its next step. The loops wait only
  in `time.sleep` and in socket calls with a timeout. No fairness is given to
  `Restart`, nor assumed against it: the bounds make restarts finite, which says
  that a service is not restarted for ever.
- *Trigger chain* (`FairSpec` of `TriggerChain`): time passes, the coordinator's
  loop and the trigger threads take their next steps. That the vendor's trigger
  call returns is part of it; a call that never returns does stall the chain. The
  read threads need no fairness, nor do starts and ends of processes.
- *Tracks* (`FairSpec` of `PersonTracks`): a flush ends, and time goes on.
  `Tick` is disabled during a flush, hence strong fairness: it says that there
  are not infinitely many flushes at one instant.
- *Writers* (`WF_vars(Flush)`, `WF_vars(FlushEvent)`): a `write()` that has
  begun ends. No writer has to write anything.
- *Game manager* (`FairPeerSpec`): it comes back after each failure and time
  passes. Only the run that shows a lost hit uses it, where it makes the
  counterexample stronger.
- *Latest frame*: only the reader's polling is fair. The writer may stop
  anywhere.
- *Bird's-eye view*: none. `NoneStarves` counts paints, so it is a safety
  property.

## 5 The proofs

TLAPS checks the theorems below for all values of the constants that satisfy the
assumptions of the modules: any number of cameras, persons, events, faults and
restarts, any timings and bounds. The assumptions only fix types and the few
orders of the timings that the code's own defaults keep (`TracksAssumption`).
Every module follows one scheme: types; an inductive invariant made of named
parts; one step per action that preserves it; the property as a consequence.

| Module | Theorems | Inductive invariant |
|---|---|---|
| `TriggerChain_Proofs` | `ChainTypes`, `ChainKeepsPace`, `ChainLabelsIncrease`, `ChainLabelRight`, `ChainLagNeverHeals` | `PaceInv`, `OrderInv`, `LabelInv` |
| `PersonServer_Proofs`: `PersonSync` | `SyncTypes`, `SyncOrdered`, `SyncAccounted` | `OrderInv`; `AccountInv` = `LinesInv`, `TailInv`, `PlacesInv` |
| `PersonServer_Proofs`: `PersonTracks` | `TracksTypes`, `TracksHidden`, `TracksBounded`, `TracksLeave` | `TracksInv`, `CandidatesInv`, `UsedInv`, `EligibleInv` |
| `JsonlTailer_Proofs` | `TailerTypes`, `TailerInFileOrder`, `TailerLosesOnlyTorn` | `TailInv` = `OffsetInv`, `PassedInv`, `InFileOrder` |
| `DamageAttribution_Proofs` | `AttributionTypes`, `AttributionImplementsOutlet`, `AttributionHidesOnlyRepeats`, `AttributionFallsBackLate`, `AttributionExactFrame`, `AttributionNamesShown` | `FilterInv`, `HiddenInv`, `CurrentInv`, `RecallInv`, `ShownInv` |
| `ManualHit_Proofs` | `ManualTypes`, `ManualCooldown`, `ManualImplementsOutlet`, `ManualRepeats`, `ManualConfirmations` | `CoolInv`, `RepeatInv`, `ConfirmInv` |
| `GameEventBridge_Proofs` | `BridgeTypes`, `BridgeNoRepeat`, `BridgeImplementsOutlet`, `BridgeInboxAgrees` | `FilterInv`, `DeliveryInv` |
| `LatestFrameShm_Proofs` | `FrameTypes`, `FrameTornOnlyIfLapped`, `FrameDeliversNewer` | `FrameInv` = `WriterInv`, `ActiveInv`, `ReaderInv`; `CountInv`, `DeliveryInv` |
| `GlobalBev_Proofs` | `BevInvariant`, `BevTypes`, `BevNeverTorn`, `BevShownAsNamed`, `BevNoneStarves`, `BevTimeGoesOn` | `IInv` = `RingInv`, `MapInv`, `ChoiceInv`, `CopyInv`, `TileInv`; `PaintTypes`, `TurnInv`, `TimeInv` |

**Trigger chain.** A label is right or wrong because of what waits in two queues
at once: the metadata a worker has fired (`Fired`: the queue, and the tick its
thread is about to queue) and the frames the camera has exposed. `LabelInv` says
the two are `Matched`: no label is newer than its frame, and from the first one
that is older all are, with one label left over (`Behind`). Losing a frame, an
orphan or a failing trigger moves along in one of the two queues only, and
`Behind` is kept by every step; so a lag once there never goes away. `OrderInv`
says that what a worker has published, what waits, and what its thread works on
increase in this order, across a coordinator that begins again. `PaceInv` says
that the next tick of the coordinator is as far from the last one recorded as the
ids say, or farther.

**Person server, front.** What is handed over lies `sync_delay` behind what had
been seen when the polls of the turn were over, and a batch takes the lowest
indices; hence a record that waits under an index already passed came late
(`OrderInv`). For the account, the four places a record can be in (its file beyond
the tailer, the pending table, the output, given up) are disjoint and together are
everything (`PlacesInv`, `TailInv`), also while a file has been emptied and its
tailer has not noticed.

**Person server, tracks.** `TrackInv` relates the instants of one track: how long
it has been lost, what is left of its hold and of its hard cap, and its age. That
the age when it is hidden exceeds the match memory follows from
`Reid <= Hold <= Cap`. The bootstrap window's bound needs that the tracks it let in
and the observations of the flush are counted together.

**Damage attribution.** `FilterInv` is the argument of the bridge (below).
`HiddenInv` adds that lines are answered in the order of the file (`OrderInv`), and
that every key the filter holds belongs to an event of this incarnation and says
of it whether it has a victim (`KeysInv`): a duplicate then has the same shot and,
its key naming a victim, hides only a hit. `CurrentInv`: from the first load on,
the last file remembered is the last file read is the file the loop works with; so
a local id that the current file maps and the history does not was turned down by
that very file. For `ExactFrameDecides`, `RecallInv` says how the memory and the
files read are related, by an increasing map from the one to the other: of a row of
files with one sync index only the last is kept, and none of the last
`MaxSnapshots` of these is missing. A remembered file with the candidate's own
sync index has distance 0, so the best match has distance 0 as well and is no
older; it was thus read no earlier, and is the file that decides. `ShownInv`: whatever is remembered of the display was in the
renderer's file until it was remembered at least.

**Tailer.** `OffsetInv`: the lines returned lie behind the offset, and an offset past
the end of a file that was replaced has returned nothing of it. So a poll begins
behind all earlier ones, or nothing has been returned; either way the order is
kept. `PassedInv` accounts for every object the tailer is past, counted without
its newline: such a line is returned too, and were the newline counted the
invariant would not survive the next poll. A line the offset lies inside was torn
by the read that ended there.

**Manual hits.** The map of last hits and the events file agree up to the purge,
whose age is no shorter than the cooldown (`RecentInv`), whence both the cooldown and
the step of `HitOutlet` (`Cooled`); while no read has been cut,
what waits comes after what was answered and before the offset (`ReadOnceInv`);
the event that waits for its confirmation is named by none (`AnswersInv`).

**Bridge.** The filter's dictionary and the log are two records of one thing.
`FilterInv` ties them: a key tried at `t` in this incarnation is in `seen` with a time
no earlier, or `t` is longer ago than the time to live; and log entries are not in
the future. From it `TakeHit` finds its key `Fresh`, which gives both
`NoRepeatWithinTtl` and the step of `HitOutlet`; every other action is a tick, a
restart or a stutter of the outlet. For `InboxAgreesWithLog` one needs that the hit
under way is the last entry of the log and pending (`HitUnderWay`): before its
send it cannot be in the inbox, so that a send appends a larger position.

**Latest frame.** `TornOnlyIfLapped` speaks of the frame delivered, and what
keeps it whole is where writer and reader are. `WriterInv`: the writer is in the
slot that is not active, and what that slot holds already at each of its steps.
`ActiveInv`: the active slot of every file holds one whole frame. `ReaderInv`: until
the writer publishes during an attempt, the slot being read is the active one and
the parts read so far are what it holds; after one publication it is the other one,
so that the last check turns the frame down. `StoreSafe` says that a store by the
writer does not touch what a reader with fewer than two publications depends on.
`DeliversNewer` rests on ids only: no id in a slot and no active id goes back
(`CountInv`, `Grow`), so an attempt begins no older than the last delivery, and the
id it takes differs from that one (`DeliveryInv`).

**Bird's-eye view.** Files only grow (`FilesGrow`): the sequence number and the
ticks of the slots do not go back, and while an even sequence number has not
changed no pixels have. So a copy that found the same even number before and after
has one frame (`CopyInv`), which is the one of its upload key or a later one that has
come into the slot since the snapshot (`ChoiceInv`, `TileInv`); then the slot no longer
has the tick of the key, and the next paint does not take the texture for up to date.
`TurnInv` counts: in the turned list of a paint the camera in place `k` has been held
by the budget at most `n - k` times before its turn and once more after it, and the
first camera is never held; the next paint turns the list by one place. `TimeInv` is about
the largest common tick. Each ring's ticks grow with its slots' age (`Ordered`), a
later state of a ring has no older frame in the place of a newer one (`Follows`),
and the frame chosen for a target that has not gone back is not older than the one
chosen before (`NeverBefore`).

**Only model-checked:** the seven liveness properties (`CatchesUp` of the tailer and of
the latest frame, `SendsEnd`, `ReadyIsFlushed`, `GhostsVanish`, `EveryClickAnswered` and
`EveryCandidateAnswered`), which need fairness and `ENABLED`, which the prover does
not handle. Every invariant, action property and refinement of a passing run is
a theorem.

The two halves of the person server share one proof module and therefore have
names of their own for the usual definitions (`SyncInit`, `TracksInit`, ...).

## 6 What the runs show about the code

Two runs end in a counterexample to what the documents say; `PROJECT.json` quotes
the lines.

1. **A publishable hit can be lost** (`bridge_lost_hit`). The key is remembered
   before the send, and a failed send is logged but not retried; during the
   back-off every hit is dropped that way.
2. **One click can become several hits** (`manual_replay`). After a read cut by
   `max_lines`, `fp.tell()` raises inside the loop over the file and the offset
   stays where it was.

Other facts about the code that a maintainer should know, and that the properties
state as they are:

- *Latest frame*: the check that the active slot did not change cannot see two
  changes, so a frame can be torn if the writer laps the reader
  (`TornOnlyIfLapped` has exactly this exception; `latest_frame_shm.py:228,294`).
  The opening comment of the file (line 5) promises more.
- *Attribution*: candidates outside the window of sync indices go to whoever
  carries the local id now (`damage_attribution_service.py:501`), and only such
  candidates do (`CurrentOnlyOutOfReach`); the governance note V20C (line 114) says
  the target is resolved by camera, local id and sync index.
- *Trigger*: one frame lost by a camera, or one trigger that failed after its
  metadata was queued, shifts all later labels of the camera until the worker is
  started again (`LagNeverHeals`).
- *Person server*: an id vanishes inside the field when its hold is over, and by the
  hard cap even without one after a recovery; the report
  `GLOBAL_PERSON_ID_V19E_COUNT_GATE_NODE.md` (line 22) says only the short edges can
  remove ids.
- *Bird's-eye view*: the ring of a worker that died, or was replaced by a new file
  the reader does not open, holds `min(latest)` back and in the end hides the
  cameras that live; `MVS_CAMERA_CHAIN.md:366` has operators check that the view reads
  "current shm names, not stale files", but a reader looks at its name only once. A reader that
  opens between magic number and geometry stays blind for ever. A ring with no frame
  counts as tick 0. While the target would be negative the delay is not applied,
  so that the picture steps back once at the start. A snapshot that fails for one
  paint of the slowest camera makes the target jump ahead and back.
  `copy_slot_frame` does not compare with the sequence number of the snapshot, so it
  may return a later frame than the one chosen. With three cameras or more, one
  whose ring is unreadable in every other paint changes the list that is rotated, and
  can make the budget hold *another* camera for ever in spite of the rotation
  (`EVENT_SIDE_CHAIN.md:619`); `NoneStarves` speaks of paints with an unchanged list. A texture that expired by `frame_hold_ms` still counts
  as a previous texture and is not uploaded first.

## 7 What is not modelled

- *Geometry and inference*: the hit judge, neural inference, bullet fusion and the
  polygon gate decide by floating-point costs. TLC could only enumerate made-up
  numbers. Where their outputs are inputs of the models, a step may choose any.
- *Launcher and watchdogs*: process management; starts and ends of single
  processes are environment actions instead.
- *Drawing and the vendor's camera SDK*: the camera is external (it answers a
  trigger with one frame or none), drawing has no state that matters here. The
  control files and commands the preview window writes are environment actions.
- *Status and latest files* for monitoring; nothing in the chain reads them,
  except the display slots, which `DamageAttribution` has.
- *Contents of presence messages*, wording, statistics.
- *A service that is disabled by its mode* in `DamageAttribution` and the
  `publishable` flag there, a threshold on a score.
- *The start-synchronisation file* of the coordinator, the trajectory ring and the
  CUDA paths of the preview memory, `fusion_renderer_gl.py`.
- *Older copies of the services* in `src/historical/`, and `src/mrge`, `src/replay`:
  stateless transformations without concurrency.

Most of the repository's lines are in these groups: renderers of ten thousand
lines, several copies of each, and numeric code. The models cover the control of
the services between them.

## 8 Plan

1. `HitChain`: the manual hit service, the attribution service and the bridge
   composed through the events file and the two control files, which the preview
   window writes one after the other (`pyopengl_cuda_preview_renderer.py:9497-9503`).
   Questions: between the two writes, can a manual and an automatic hit of one
   contact both go out; does the reserved id ever reach the game manager; what
   does a restart of the bridge do to the mode. Abstract specification: a stream
   of hits of the selected source.
2. `LatestPacketSender` (the pending slot, its thread, and `close`), refined from
   a one-place register that may drop but not reorder.
3. `PolygonGate` and `RateDeadline`; bullet tracks; the trajectory ring.
4. `mrge` and `replay` as pure operators against reference definitions.
5. Proofs about `HitChain` when it is there: that the composition implements the
   stream of hits of the selected source, from the theorems that its three services
   implement `HitOutlet`.

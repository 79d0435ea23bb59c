# A TLA+ verification of the bootloader

The repository is an A/B bootloader core in portable C (`core/`), a host port
that simulates its flash (`port/host/`), a simulated device (`sim/`) and the
update tool that talks to it over a serial line (`tools/`). This directory
models the parts whose correctness depends on interruptions, failures and
orders of events, checks them with TLC and proves the central results with
TLAPS.

    tlc -workers 2 -config BlMeta.cfg MCBlMeta      # any run of PROJECT.json
    tlapm BlMetaProofs.tla                          # the proofs of a module

`PROJECT.json` lists the components, the runs, the source lines behind every
definition, the hazards and the theorems.

## 1. Inventory

### Components

| component | state it keeps | operations | modelled in |
|---|---|---|---|
| boot metadata store, `bl_meta.c` | two flash regions, written alternately | `bl_meta_read`, `bl_meta_commit`, `bl_meta_erase_all` | `BlMeta`, abstractly `MetaRegister` |
| boot path and trials, `bl_core.c` | none of its own: slots and the metadata record | `bl_core_boot`, `advance_trial_state`, `bl_core_select_slot`, `bl_core_mark_pending`, `bl_core_confirm` | `BlBoot`, over the real store in `BlDevice` |
| command handlers, `bl_core.c` | `bl_session_t`, the slots' flash | `bl_core_handle_frame`: HELLO, ERASE_SLOT, WRITE, VERIFY, SET_ACTIVE, RESET | `BlSession` |
| image validation, `bl_core_validate_slot` | none | header checks, payload loop | `BlImage`; by coverage in `BlSession`, as valid or not in `BlBoot` |
| frame codec, `bl_frame.c` | `bl_frame_parser_t` | `bl_frame_feed`, `bl_frame_encode` | `BlFrame`, on a line in `BlLine` |
| host tool, `blflash.py` | target, progress, attempt, input buffer | the `flash` command, `_read_frame` | `BlFlash`; the reader in `BlLine` |
| host protocol library, `blproto.py` | none | frame encode and decode | `BlLine`; as records in `BlFlash` |
| image builder, `mkimage.py`, `blimage.py` | none | `pad_payload`, `build_header`, `validate` | `BlImage` |
| host port, `bl_port_host.c` | simulated flash, jump target | erase, write, read, jump, reboot | read and jump in `BlImage`, the rest in the modules that call it |
| simulated device, `bl_sim.c` | parser and session | `sim_init`, `sim_reboot`, `sim_feed`, `sim_corrupt` | `sim_feed` in `BlLine`, the others as actions of `BlSession`, `BlBoot`, `BlDevice`, `BlFlash`, `BlImage` |
| vocabulary, `bl_proto.h` | none | slots, states, result codes | `BlProto` |
| API table, `bl_api.c` | a constant table | `bl_api_lookup` | `BlApi`, called in `BlImage` |
| CRC-32, `bl_crc32.c` | none | checksum | as a checksum without collisions |
| demo, sync check, tests, build | | | not modelled, section 8 |

### How they interact

The host tool sends a request frame and waits for the answer; the device feeds
bytes to the parser and hands a complete frame to `bl_core_handle_frame`, which
changes the session and the flash and encodes a response. SET_ACTIVE calls
`bl_core_mark_pending`, which commits a TRIAL record. After a reset
`bl_core_boot` advances the trial (a commit), selects a slot from the record and
the two images, and jumps. The application calls `bl_core_confirm`, which
commits CONFIRMED. Flash is the only state that survives a reset. The device is
single-threaded: concurrency is between the host, the line, the device and the
supply.

### What is hard, and what makes each part correct

The full list, with lines, is `hazards` in `PROJECT.json`.

* *Metadata.* Power may fail, or a flash operation may fail or silently not
  persist, between any two of the erase, program and verify of a commit. Correct
  when a commit is atomic, `BL_OK` means installed and an error means that the
  previous record still rules.
* *Trials.* The image under trial may hang or be power-cycled in every boot,
  images decay, commits fail and boot continues. Correct when an unconfirmed
  image is started a bounded number of times, when the trial ends, and when the
  record only moves to an image that validates.
* *Session.* Requests are lost, repeated, delayed and reordered; the device is
  reset between and inside them. Correct when no flash granule is programmed
  twice between erases and an image that was accepted stays intact.
* *Host tool.* Retries, late answers and assumptions about what a refusal means.
  Correct when the slot that boots is never touched, when success is real, and
  when the command ends.
* *Frames.* Bytes are damaged, lost and inserted, and a stream is cut into calls
  anywhere. Correct when only frames that were sent are delivered, the buffer bound
  holds and both receivers recover.
* *Images.* Tool and device judge the same image with separate code, and the device
  meets headers with a right checksum and arbitrary numbers. Correct when the device
  accepts exactly what is an image, when the tool accepts nothing the device refuses,
  when no read leaves the slot and control goes only into the image.

## 2. Modules

    BlProto            slots, boot states, result codes
    MetaRegister       abstract: an atomic register          <- refined by
    BlMeta             the two-region store                  MCBlMeta, BlMetaProofs
    BlBoot             boot path, trials, confirm            MCBlBoot, BlBootProofs
    BlDevice           BlBoot's path over BlMeta's store     MCBlDevice, BlDeviceProofs
    BlSession          command handlers and slot flash       MCBlSession, BlSessionProofs
    BlFlash            host tool + link + BlSession          MCBlFlash, BlFlashProofs
    BlFrame            encoder and parser
    BlLine             line + BlFrame + the tool's reader    MCBlLine, BlLineProofs
    BlApi              API table lookup
    BlImage            build, judge, store, validate, jump   MCBlImage, BlImageProofs

`BlFlash` extends `BlSession`: its device takes the handlers as they are, and its proofs the lemmas of `BlSessionProofs`. `BlDevice` extends
`BlMeta`, `BlLine` extends `BlFrame`, `BlImage` extends `BlApi`. `BlBoot` uses `bl_meta_commit` as one step
that happens or fails with nothing changed; that this is what the store does is the
refinement `BlMeta => MetaRegister`, checked and proved, and that the boot path notices
no difference is the refinement `BlDevice => BlBoot`, checked and proved. Definitions whose names are followed by `\* fault` are variants with a
planted bug; nothing uses them, and the `mutants` of `PROJECT.json` put each in
the place of the definition it varies to show that the property notices.

### `BlMeta` and `MetaRegister`

A region is two programming units, `body` and `crc` (a record is 16 bytes, the
programming unit of the target is 8). `bl_meta_commit` is split at its flash
operations: `CommitBegin` (argument checks, choice of region and sequence number,
layout check), `CommitErase`, `CommitBody`, `CommitCrc`, `CommitVerify` (read-back);
`CommitRefuse` and the two error actions are its early returns. `PowerLoss` may
hit any of them and leaves the unit being changed blank or undefined. A write may
also report success and leave `Junk`. `bl_meta_erase_all` erases region after region
and has no layout check, unlike the commit; the layout, `aligned`, is any set of
regions and never changes. Stored records may carry bytes
that are no valid state or slot (`Foreign`).

A read of flash never fails, here and in the other modules. `bl_port.h:107` permits an error, and
`read_region` then treats the region as absent (`bl_meta.c:39-43`): a read that failed once would
make the older record rule, and a commit right after it would erase the newest one. The host port, the only
one in the repository, fails no read of a valid range.

Assumption about the port: a flash write that *reports an error* did not complete
the record. If it had, the error would come with an installed record, which
`bl_port.h` neither promises nor excludes.

`MetaRegister` has one authoritative record that a commit replaces at one instant
(`Install`), returns `BL_OK` only for an installed record and an error only for one
that is not, and a wipe that may expose an older record when it is interrupted.

### `BlBoot`

`pc` is where the device is: at reset, between `advance_trial_state` and selection,
in an application, or in the update loop. `AdvanceTrial` is `advance_trial_state` with
its four outcomes and the commit that may fail without being reported;
`SelectAndJump` is selection and the jump, which the port refuses for an image
without a usable vector table (`entry_usable`). A slot holds an image or
`Invalid`. What chooses between boot and update loop, and what resets a hanging
application, is not in the repository and is left to the environment
(`EnterLoader`, `Restart`); any image that runs may call `bl_core_confirm`, in any boot or never. History variables count the starts of the nominated image and
the commits that failed since the nomination.

### `BlDevice`

The boot path with `bl_meta_commit` as `BlMeta` has it: `AdvanceCommits`, `ConfirmCommits` and
`SetActiveCommits` begin a commit (`CommitBegin` of `BlMeta`), `CommitStep` and `CommitReturn` are its
flash operations and its end, `where` remembers the caller, and `Restart` may strike in
between (`PowerLoss` of `BlMeta`). The guards are those of `BlBoot`, instantiated with the record
that `bl_meta_read` finds. The refinement mapping lets `BlBoot`'s commit happen at the step
that makes the new record authoritative (`Installed`); whatever follows in the call is
invisible, and a commit that is cut short before it never happened.

### `BlSession`

Flash is counted in write granules. A granule that carries the data of image `i`
holds `i`; a second program between erases makes it `Conflict`. A slot validates
when the granules covered by the header checksum and the payload checksum all hold
one image; the padding between them is covered by neither. `write_check` has the
checks of `handle_write` in their order. Requests are arbitrary, so a lost,
repeated, delayed or reordered request is one of the behaviours; `Writes` is the set of
offsets and lengths that WRITE requests may carry. A flash operation
that reports an error leaves flash unmodified, as on the host port
(`bl_port_host.c:321-323`); power loss leaves part of the work done.

### `BlFlash`

`step` is the request that `update()` is at; `request` is what it sends there.
`Transmit`, `Timeout`, `Garbled`, `Discard` and `Take` are `_transact`: the input buffer is
discarded, the request sent, and frames are read until one answers the same
command, one does not decode, or the deadline passes. `Got...` are what the methods do
with the response, up to the next request or an exception (`failed`). The link
is a queue in each direction that may lose its head. With `setup.late`, a timeout
may happen while frames are still under way, and only part of what was sent has
arrived when the buffer is discarded. The device may restart between and inside
requests and comes back in its update loop. `Again` is the operator who gives the command
again after it failed or succeeded, on whatever the last one left in flash, record,
session and link. What chooses between booting and the update loop is not in the repository, so
a restart does not pass through `bl_core_boot`: a revert (`bl_core.c:338-349`) between HELLO and
ERASE_SLOT, which would make the active slot that HELLO reported stale, is not a behaviour of
`BlFlash`.

### `BlFrame` and `BlLine`

`BlFrame` has the encoder and one operator of the parser per state of `bl_frame_state_t`. A
byte carries its value and, when it belongs to a checksum, the content that was summed:
two contents never have the same checksum, and a checksum byte read as something
else is an ordinary value.

`BlLine` puts a line in front of one of two receivers; it changes, drops or inserts a byte.
The *device* takes bytes in calls of `sim_feed` (`Call`, `Feed`), each of which ends at the
first complete frame and drops what lies behind it. The *tool* reads with `_read_frame`
(`ReadByte`, `Timeout`): start marker, three bytes, a length check, payload and checksum,
then `decode_frame`; a frame for another command is discarded and the tool waits on. Before
an attempt the tool discards what has arrived and nothing else (`reset_input_buffer`; `arrived` is
any number of the bytes under way). Bytes under way arrive before the deadline, so a
timeout leaves none behind, but an attempt that ends at a length or a checksum ends earlier and may leave the rest
of its response on the way, in front of the next one. Late answers are the subject of `BlFlash`.

### `BlImage` and `BlApi`

The way of one image, with all numbers of width `WordMod`. `Mkimage` builds a file,
`OtherFile` brings one with any numbers in it; `Update` is the tool's judgement
(`validate`) and what `Bootloader.update` leaves in an erased slot, `WriteUnjudged` a host that
does not judge; `Decay` is `sim_corrupt`. `ValidateHeader`, `ValidateChunk` and `ValidateEnd` are
`bl_core_validate_slot` with its locals, `Jump` is the end of `bl_core_boot` and
`bl_jump_to_app` of the host port, `Lookup` the application's `bl_api_lookup`. The byte at
offset `k` of a file is `k`, and a checksum is the sequence of bytes it covers, so a shift, a
missing and an extra byte all show.

## 3. Runs

Passing runs:

| run | instance | shows |
|---|---|---|
| `meta` | every layout, 5 commits, attempts 0..1 | the store is an atomic register; `MetaInv` is invariant; no commit touches a region that shares an erase page |
| `boot` | 3 images, 3 attempts, 1 failed commit, 3 updates | the number of unconfirmed starts is bounded (`AttemptBound`), the image that runs is the nominated one (`RunsNominated`), the record only moves to a valid slot (`SwitchesToValid`), every trial ends (`TrialEnds`) |
| `device` | 2 images, 2 attempts, 1 failed commit, 2 updates, 8 commits | the boot path over the two-region store implements `BlBoot` (`RefinesBoot`); a confirmation is replaced by nothing but the trial of a valid slot (`ConfirmationLasts`) |
| `session` | 5 granules, requests of `blflash.py` with misaligned and overlong ones | nothing is programmed twice, what the session believes of flash is true, a complete image stays until its slot is erased |
| `flash` | 5 granules, 3 attempts, 2 restarts, up to 3 commands, prompt and late links, `--slot` given or not | the slot that would boot is kept, the device can always boot, nothing is programmed twice, success is real, every command ends |
| `frame` | 2 commands, payloads up to 4 bytes, 3 frames, 2 faults | the buffer bound holds, only sent frames are delivered, in order and once; a clean line loses nothing, however it is cut into calls; an unharmed response is delivered when no rest of an earlier one was on its way (`ToolRecovers`) |
| `image` | 12-byte slots, words of 64 values, files of every kind | reads stay in the slot and cover the payload (`ReadsInside`), the verdict is exact (`VerdictExact`), the tool is no more permissive than the device (`ToolAgrees`) and refuses nothing it built that fits (`BuiltIsAccepted`), control goes into the slot of the image that was validated (`JumpsIntoImage`), only the vector table costs a boot (`OnlyVectorsRefused`), the lookup is exact at the end of the address space (`LookupExact`) |

Runs in which the code differs from what the repository says of it:

| run | what the code does | what is said |
|---|---|---|
| `boot_confirm` | after a fallback, `bl_core_confirm` confirms the nominated slot, not the running one | `bl_core.h:119` |
| `session_twice` | a WRITE at 0 longer than the header overlaps earlier writes | `bl_core.c:566-570` |
| `flash_damaged` | with a damaged nominated slot the tool erases the fallback that boots | `blflash.py:308-311` |
| `flash_stale` | a late VERIFY answer is taken for the other slot's, and the only image is erased | `blflash.py:152-155` |
| `frame_resync` | one damaged length byte makes the parser take two intact frames as payload and checksum before it is back in step | `README.md:60` |

`session_twice` needs a host other than `blflash.py`.

Met while modelling, without a run of their own: a revert writes CONFIRMED for an image
that may never have confirmed itself (`bl_core.c:348`, against the words of
`bl_meta.h:41`); a payload WRITE below the highest offset is refused even when its
granules are blank (`bl_core.c:582`, against `bl_core.h:174`); a retried WRITE that a
restarted device refuses is taken to have landed (`blflash.py:262`; VERIFY finds out,
`SuccessMeansInstalled`); with no record and equal versions the tool erases slot A, the
one that would boot (`blflash.py:335`), and a command that fails between its last write and
SET_ACTIVE and is given again meets just that tie. The instances of `flash` therefore leave
out ties and a damaged nominated slot, and, on a late link, devices without a record
(`flash_stale`); on a device without a record the command is given once.

Also without a run: after a flash error the session stays as it was, so with a driver that
fails half-way the same WRITE would be accepted again (`bl_core.c:599`, `:518`; `bl_port.h`
does not say what a failed operation leaves, the host port leaves flash unmodified); an
update during a trial erases the only confirmed image, the slot next to the one on trial
(`blflash.py:312`); HELLO reports the size of slot A for all slots (`bl_core.c:448`);
`sim_boot` called again without `sim_reboot` reports the earlier jump (`bl_sim.c:107`); the
device accepts a payload shorter than the two words of a vector table, which the tool never
builds (`bl_core.c:173`; `JumpsIntoImage` says so for images of the tool only); a damaged
length can make the parser swallow all retries of a short request before it is back in
step (`frame_resync`); an attempt of the tool that fails on a damaged length or checksum ends before
its deadline, and what is still on its way of that response is not discarded
(`blflash.py:129-137`, `:156`), so the next answer can be lost with it although it arrives unharmed
(`ToolRecovers` says so in its premise; `reset_input_buffer` of the simulated device,
`blsim.py:140`, discards everything); a marker value in a checksum or payload, when the parser takes it
for the start of a frame, costs frames in the same way as a damaged length does.

### Bounds and why they are enough

* `MaxSeq = 5`: each region is reused twice, and an interruption can happen in each of
  the commits in between. The proofs cover every bound.
* `BL_MAX_BOOT_ATTEMPTS = 3`, the code's value. `MaxUpdates = 3` counts
  installations and nominations and admits a second nomination during a trial.
  `MaxFaults = 1` lets one commit fail at each place; the proofs cover every bound.
* A slot of 5 granules has a header, padding and three payload granules: room for a
  payload in two chunks of which the last is short. Two granules of bytes (`Gran = 2`)
  make misaligned offsets and lengths possible.
* `Retries = 3` as in the tool's default. With `MaxRestarts = 2` a restart
  may fall twice between any two requests and inside the erase or any write.
* `flash` gives up to three commands on a prompt link and a recorded device: one that
  fails anywhere, one that repeats it, one that updates the other slot.
* `device`: with 2 attempts every trial counts, runs out and reverts; `MaxSeq = 8` covers the
  commits of two nominations, their attempts, reverts and confirmations with each one
  repeated after an interruption or failure.
* `image`: a region of 4 bytes, programming units of 2 and checksum chunks of 3, so that a
  payload may be less than, exactly and more than a number of whole chunks; offsets and sizes are
  those at and next to the limits and those whose sum wraps at 64.
* `session`, `flash` (its safety), `device`, `image` and `frame` are small instances of theorems that hold for every value of the
  constants (section 4).
* In `frame` a byte has 8 values, so that the two length bytes, the marker and lengths
  above the limit all occur. Two faults and three frames are enough for a rest of the
  first response to leave the second one whole on the line, where the third attempt meets it. In
  `frame_resync` the marker is nowhere but at the start of a frame, and three frames of 8 bytes with a damaged length of
  16 in the first one show the mechanism.

`CHECK_DEADLOCK FALSE` is set for `BlFlash` (the last command ends), `BlLine` (all frames
are sent) and `BlImage` (the image is refused or runs); the device models never stop.

### Fairness

* `BlBoot`: `WF(SelectAndJump)`, since `bl_core_boot` is straight-line code. Nothing is
  assumed of application, operator or supply; instead `TrialEnds` is conditional on
  the device being booted infinitely often.
* `BlFlash`: `WF(Host)`, since each wait has a deadline, and, on a link that is not late,
  that what is under way arrives or is lost before that deadline: this is what
  a prompt link means. Nothing is assumed of a late link or of the device.

## 4. Proofs

All proofs hold for every value of the constants under the named assumptions.

`BlMetaProofs` (`MetaAssumption`: the two regions, a sequence bound below the modulus,
distinct markers):

* `TypeCorrect`, `StoreInvariant`: the inductive invariant is `TypeOK /\ MetaInv`. Atomicity
  alone is not inductive. What is needed is that the commit's target is never the
  region of the authoritative record (`TargetIsSpare`), that the target holds nothing
  but what this commit wrote (`SpareContent`, so that no older record reappears), that
  readable records have different numbers (`SeqDistinct`) and that a wipe goes in order.
* `StoreImplementsRegister`: from the invariant, each step of the store is a step of the
  register or a stutter. The installation is the step that programs the second unit of
  the record; before it `OldRules`, after it `NewRules`.
* `NeighboursKept`: no commit changes a region that is not aligned.

`BlBootProofs` (`BootAssumption`):

* `BootTypeCorrect`: the counter never exceeds its limit, so the 8-bit field cannot wrap.
* `TrialAccounting`: `TrialInv`, the inductive form of the bound. It relates starts, recorded
  attempts and failed commits, and says that between counting and jumping one
  attempt is in hand (`pc = "select"`), which is why counting must precede the jump.
* `TrialBounded`: at most `BL_MAX_BOOT_ATTEMPTS` starts, plus one per commit that failed, while
  the fallback stays valid.
* `NominatedRuns`, `SwitchesOnlyToValid`: what runs is what the record nominates, and the
  record only moves to an image that validates; both need only `TypeOK`.

`BlSessionProofs` (`SessionAssumption`: header in front of the payload, images that fit, distinct
markers; every slot size, granularity and set of requests):

* `SessionTypeCorrect`: no accepted write reaches beyond its slot.
* `SessionKnowsFlash`: `SessionInv` is inductive with the types. Each step starts or loses the
  session, leaves the target slot and session alone, or is a write, which programs
  below the new `highest_offset` only.
* `ImagesStay`: `IntactUntilErased`, from `SessionInv`: the granules of an accepted write are blank, those
  of a complete image are not, so no write, whole or cut short, meets a complete image.
* `NothingTwice`: `NoDoubleProgram`, for a host that follows `HostDiscipline` (what `blflash.py` sends).
  `session_twice` shows that the premise is needed. The inductive invariant adds that the
  header region stays blank until the header is written (`HeaderRegionBlank`).

`BlDeviceProofs` (`MetaAssumption` and `DeviceAssumption`: what `None` is, and that the bounds are
numbers):

* `DeviceInvariant`: `DeviceInv`, the invariant of the store together with what a pending commit
  is for. The record being committed is the one that its caller derived from the
  record that ruled at the time (`AdvancePending`, `ConfirmPending`, `SetActivePending`): nothing else
  commits in between, which is why the caller may read, change and write without a
  lock. A write that silently did not persist is one of the bounded failures (`LostWrite`), so
  that the error its read-back returns is a failed commit of `BlBoot`.
* `DeviceRefinesBoot`: each step is a step of `BlBoot` or a stutter. The step of `BlBoot` is taken when the
  second unit of the record is programmed, or, for a commit that fails, when it returns
  its error or the supply fails; the lemmas say what each step of the store does as
  seen through `bl_meta_read`. With it, what `BlBootProofs` shows for an atomic record holds
  for the two regions.
* `ConfirmationIsKept`: a confirmation lasts until a slot that validates is nominated.

`BlImageProofs` (`ImageAssumption`: slots of whole header regions, inside flash and apart, flash and
RAM inside the address space; `InputAssumption`: files, vectors and tables carry words; every
word width, slot layout, chunk size and programming unit):

* `InvariantHolds`: `ImageInv`. The loop of `bl_core_validate_slot` needs its loop invariant
  (`LoopInv`): what was checksummed is the declared payload up to `address`, and
  `remaining` is the rest. A file of `mkimage.py` is as it was built (`BuiltInv`), and a slot that the tool
  wrote holds the file that passed its checks (`CheckedInv`).
* `ReadsAreInside`, `VerdictIsExact`, `ToolAndDeviceAgree`, `BuiltAccepted`, `JumpIsInside`, `RefusedForVectors`, `LookupIsExact`
  and `TypeCorrect` follow. What they rest on is the arithmetic of the header checks: compared by
  subtraction they do not wrap, so an accepted header describes a range inside the slot.

`BlLineProofs` (`FrameAssumption`: the marker is a byte, the payload limit fits in two; `LineAssumption`:
payloads within the limit; every byte width, limit, set of messages, number of frames and of faults):

* `LineInvariant`: `LineInv`, with one part per reason. The parser has summed the bytes that it has
  stored (`ParserInv`), so a frame that passes is the one that was summed. Every fourth
  checksum byte on the line belongs to a frame of its own, in the order of sending and behind all that
  were delivered (`DeliveredInv`); hence what a receiver completes with such a byte was sent, after what
  it delivered before and once, whatever was changed, dropped or inserted and whatever
  rests of earlier frames are on the line. An unharmed response is what
  the reader has, followed by what is under way (`ToolInStep`); after `c` bytes of an unharmed
  request the parser is at the place that `c` determines (`DeviceInStep`), however the bytes
  are cut into calls.
* `TypeCorrect` (no byte behind the payload buffer, no reader beyond its frame), `OnlySentIsDelivered`, `NothingIsLost` and
  `ToolIsResynchronised` follow; the last one has the premise of `ToolRecovers`: nothing of an earlier response
  on its way when the attempt began.

`BlFlashProofs` (`FlashAssumption`: the image to install is an image, the device starts with one that
boots, `Writes` is what `update()` sends; every slot size, image, chunk size, number of attempts, of
restarts and of repeated commands). The theorems have the hypothesis `SafeStarts`, that commands
begin in the states of `SafeStart`:

* nothing in flash was programmed twice before;
* the slot that a record names validates (`flash_damaged` shows what happens otherwise);
* on a late link there is a record (otherwise `flash_stale`) and the command is given once;
* without a record the tool chooses the slot, the command is given once, and two valid
  images differ in version (section 3 says what happens in a tie).

`--slot`, the contents of the other slot and everything the link does are free. `MCBlFlash` has TLC
evaluate the hypothesis for the starts of the run `flash`.

* `FlashInvariant`: `FlashInv`. A step of the device is a step of `BlSession`, so `TypeOK`, `SessionInv`,
  `HeaderRegionBlank` and `NoDoubleProgram` come from the lemmas there (`SessionStepKeeps`). The rest says why
  what is under way can do no harm. On a prompt link at most the current request is under way,
  or its answer (`PromptInv`). On a late link requests are handled in the order of the command: no frame
  behind another one belongs to an earlier step, and none to a step that the tool has not
  reached (`LateInv`). Hence, when SET_ACTIVE is handled, no ERASE_SLOT or WRITE is left
  (`NominationKeeps`), and while one of those is under way the target is not the slot that boots
  (`MutationSpares`): the record names the other slot (`RecordedInv`), or there is none, the tool has
  chosen the slot that does not boot (`ChoosesOther`), and the target cannot validate
  before its header is written (`UnrecordedInv`). What the answers on their way to the tool say is still
  so when they are taken (`AnswersInv`), which makes the successful VERIFY lasting (`InstalledInv`).
* `FlashTypeCorrect`, `NeverUnbootable`, `BootSlotIsKept`, `SuccessIsReal`, `UpdateProgramsOnce` follow. The argument for
  `SuccessIsReal` does not use that a refused retry means that the write has landed
  (`AlreadyWritten`): the VERIFY alone carries it.

The checksum is one without collisions in these proofs, as in the model; what is proved of the
device and the tool is what their code adds to it.

## 5. Only model-checked

Liveness (`TrialEnds`, `CommandEnds`) is outside the prover's reach: TLC checks it on the instances of
section 3. The violation runs are TLC's counterexamples. Every other property of a passing
run is stated by a theorem.

## 6. The wrap of the sequence number

`seq` is a 32-bit counter and the code excludes its wrap-around (`bl_meta.c:66-68`).
`MetaAssumption` states the same (`MaxSeq + 1 < SeqMod`); `next_seq` keeps the modulus.

## 7. Plan

Done: vocabulary, metadata store with refinement and proofs, boot path with proofs, the
boot path over the store with its refinement proved, session with proofs, host tool with
repeated commands and proofs, frame codec with both receivers and proofs, images from builder
to jump with proofs, API lookup. Next:

1. What `BlBootProofs` shows, carried through `DeviceRefinesBoot` to the device as theorems of its own.
2. The safe states of `BlFlash` as an invariant of repeated updates and trials, so that
   `SafeStart` is shown of the states that the device reaches.

## 8. Not modelled

* CRC-32 itself: a pure function with test vectors; here checksums do not collide.
* The host port's fault counters, receive and transmit queues and clock, and the query
  functions of port and simulator: a test double.
* `port/stm32l4/` is empty at this commit.
* Command lines, version strings and file handling of `mkimage.py`, `blimage.py` and
  `blflash.py`; the ctypes glue of `blsim.py`; `demo.py`, `check_sync.py`. Tests, Unity and build
  files.
* The CLI commands `status`, `verify` and `reset`: single requests of those that
  `flash` is made of.
* Null pointers and undersized response buffers (`bl_core.c:103`, `:710`): every caller in the
  repository passes valid ones.

# Verification of MEPA, the Microchip Ethernet PHY API

MEPA is a C library that drives Ethernet PHYs. An application creates one
device per PHY port (`mepa_create`), and every later call on that device goes
through the common layer (`mepa/common/src/phy.c`) to the driver of the PHY's
family. The library has no threads of its own: the application calls it from
as many threads as it likes, drivers take the lock callouts of the application
(`MEPA_ENTER`, `MEPA_EXIT`) around each operation, and the hardware (link
partners, latched status bits, packets in the pipeline, time-stamp FIFOs) moves
on its own between two calls. Paths below are relative to `src/`.

## 1. Inventory

| Component | State it keeps | Operations | What is hard, and what makes it correct |
|---|---|---|---|
| Common layer, `mepa/common/src/phy.c` | `MEPA_phy_lib` (driver families), `MEPA_init_done` | `mepa_create`, `mepa_delete`, about 150 functions that check a pointer and call the driver | The table is filled by the first caller without a lock. A device must belong to the first family that accepts the PHY id. |
| LAN80xx MACsec, `mepa/microchip/lan80xx/src/lan80xx_macsec*.c` | tables of SecYs, transmit and receive SCs, SAs and patterns; pools of hardware records and of hardware SC indices; SC-to-SA maps in the hardware | add, update, delete of each; activate and disable of SAs; control-frame rules; packet-number updates; counters | Long call sequences, a record number that is both index of a software table and of three hardware tables, calls that stop half-way when the packet pipeline does not drain. Records must not be shared or lost, nothing may match for an SA that is gone, the maps must lead to the right SA. |
| LAN8814 link supervision, `mepa/microchip/lan8814/src/lan8814.c` | cached configuration, link status, one counter and four flags for the workarounds | `conf_set`, `reset`, `poll`, `lan8814_downshift_conf_set`, loopbacks, cable diagnostics | `poll` both reports and acts: it restarts negotiation, downshifts, rewrites FIFO thresholds. The link must come up, with the speed reported as negotiated, whatever configuration calls come between two polls. |
| LAN8814 time stamping, `lan8814_ts.c` | event mask, callback, mode; clock and classifier configuration | init, mode and event set, event poll, FIFO empty and get, callback install; classifiers, clock, pulse per second | The lock is released for each callback and status clears on read, so two readers of one FIFO and the frames leaving the port interleave. A stamp must be handed out once, none may get lost after it was announced. |
| LAN80xx time stamping, `lan80xx_ts.c`, `lan80xx_ts_private.c` | per port: initialised or not, a copy of each classification engine of both directions with its flows and PTP action; of the base port: the PLL | initialise and reset, classifier set and clear, clock set; local time, pins, latencies, FIFO, events | The driver writes only what its copies say has changed, and a failed start wipes copies, not registers. Copies and registers must agree, or repeating a call repairs nothing. |
| LAN80xx events, firmware | event masks, mailbox | | Status that clears on read, busy-waits under the lock. |
| LAN887x, LAN8770 with TC10 | sleep and wake-up configuration | sleep and wake requests, state get | Decisions taken on cached state while the PHY sleeps or wakes. |
| LAN867x, LAN884x, LAN8x8x, KSZ9031, dummy PHY | cached configuration | one register group per operation | Little that spans several calls. |
| VTSS driver, `mepa/vtss` | MACsec tables, time-stamp engines | as LAN80xx | As LAN80xx, on an older code base. |
| Aquantia, Intel | | | Vendored. |
| Boards, `board-configs` | SFP presence, SyncE clock selection, PoE | | Hot-plug, clock switch-over. |
| Demo application, `mepa_demo` | port state, KR training state | CLI, poll loops, MACsec key rollover demo | Order of API calls around a key change. |

Interaction is by function call only. The common layer calls a driver through
the table of the device; a driver calls back into the application for register
access, locking, sleeping and tracing. Drivers do not call each other, except
that ports of one chip share the device of their base port.

`PROJECT.json` lists the components with their status and, under `hazards`,
what in this code is hard to test, with the line where it bites and the
properties that are about it.

## 2. Modules

| Module | Contents |
|---|---|
| `MepaRegistry` | `mepa_create`: initialization of the table, id check and probe loop, several threads |
| `MepaRegistryProofs` | its types, and the right family for serialized callers |
| `Lan80xxMacsec` | the MACsec tables of one LAN80xx port and the hardware maps they drive |
| `Lan80xxMacsecProofs` | inductive invariant of the pools of records and four theorems about it |
| `Lan80xxMacsecRxProofs` | on top of it: receive SCs, their hardware indices and the ingress map |
| `Lan80xxMacsecTxProofs` | on top of both: no leak of records, and the egress map |
| `Lan8814Link` | configuration, poll and workarounds of one LAN8814 port, with PHY and partner |
| `Lan8814LinkProofs` | bound of the shared counter, 1G advertised if and only if configured, with the exceptions, reported speed, no downshift at high polling rates |
| `TsDelivery` | what any transmit time stamp FIFO promises its application |
| `Lan8814TsFifo` | stamp FIFO, TS events and callback of one LAN8814 port with several threads; implements `TsDelivery` |
| `TsDeliveryProofs` | what `TsDelivery` entails |
| `Lan8814TsFifoProofs` | stamps accounted for, interrupts, and the refinement of `TsDelivery` |
| `Lan80xxTs` | initialisation of the ports of a LAN80xx, classification engines and PTP actions |
| `Lan80xxTsProofs` | five theorems about it |
| `MCMepaRegistry`, `MCLan80xxMacsec`, `MCLan8814Link`, `MCLan8814TsFifo`, `MCLan80xxTs` | constants of the runs |

### MepaRegistry
A thread in `mepa_create` goes through the steps of the function one by one:
test of `MEPA_init_done`, setting it, filling the table family by family, then
scanning for a family that accepts the id and probing it. With `Serialized`
one thread at a time is inside; without it the steps of two threads interleave.
The table is the set of families filled so far; the catch-all family accepts
every id and is last. Reading the PHY id is left to the caller's input.

### Lan80xxMacsec
Variables are the fields of `phy25g_macsec_internal_conf_t` and the hardware
tables. A call is one action, because it runs under the lock from beginning to
end; a call that gives up half-way, when `lan80xx_sa_sam_in_flight` times out,
is a second action (`...Timeout`) with exactly the work done until then. Calls
that fail without having changed anything are stutters.

What was abstracted:
- `secy->rx_sc[]`, an array of pointers, is kept as its inverse `owner`; the
  order in which a SecY visits its SCs is left open.
- TCAM entries, transform records, keys and packet numbers are left out: of a
  record the model keeps whether it is allocated (`in_use`), whether its SA is
  enabled (`enabled`) and whether its TCAM entry matches (`sam`). The CAM of
  SCIs is left out.
- Checks of an argument that do not look at the state (valid SCI or SSCI)
  restrict the inputs. Register accesses succeed.
- Cold start only: warm start replays calls with `sync_calling_private` set.
- Patterns for the controlled port, which are stored and not given a record,
  do not appear. `pattern_record` of a vacant SecY, zero in the code and never
  read, is shown as NIL.
- The global `validate_frames` (`hw_validate`) follows the code; no property is
  about it.

Three constants select the environment: `InFlightTimeout` lets the pipeline
fail to drain, `DisableFirst` makes the application disable an SA before
deleting it, `AllowBypass` adds the bypass modes of `init_set`.

### Lan8814Link
`conf`, `data` and `dsh_enable` are fields of `phy_data_t`; `reg` holds the
registers the driver writes, `hw` the link. `ConfSet`, `Reset`,
`DownshiftConfSet` and `Poll` are the calls; `poll` is written as the sequence
of its stages (downshift, stuck negotiation, speed, link event), each a function
of the values the one before left. `LinkUp`, `Plug`, `Unplug` and `Hang` are the
hardware's, modelled from the status bits the driver reads. `loop_cnt` wraps at
256 like the `uint8_t` it is. Two predicates name the states in which driver,
configuration and PHY disagree about 1G: `DownshiftUndone` (1G is advertised while
`dsh_complete` is set, after a `conf_set` or `reset`) and `OneGigUnasked` (1G is
advertised, or the link runs at it, while the configuration does not have it, after
a poll that ended a downshift).

What was abstracted: 10M modes (they take the paths of the 100M ones), manual
master/slave, MDI mode, EEE, QSGMII, events, loopbacks. The state starts after
the first reset, as the API asks. Two assumptions about the hardware: a soft
reset restores the FIFO thresholds, and a link that was lost takes longer to
come back than the time between two polls, which the driver relies on too
("assuming the polling interval is 1 second apart", lan8814.c:1701).

### TsDelivery and Lan8814TsFifo
`TsDelivery` has the stamps taken, those that can still be handed out and what
the application got. A stamp waits until it is handed out, is handed out once,
and may only disappear when it found the FIFO full (with `MayDiscard`, also
later; this is for drivers that throw away damaged entries).

In `Lan8814TsFifo` everything between `MEPA_ENTER` and `MEPA_EXIT` is one action.
`mepa_ts_fifo_empty` (`lan8814_ts_tx_ts_get`) reads the callback before it takes
the lock and gives the lock up around each callback: it is one action to enter,
then `ReadEntry` and `Callback` in turn. `mepa_ts_fifo_get` holds the lock and is
one action. `Capture` is the hardware. The refinement mapping takes as waiting
the stamps of the FIFO and those a thread holds between reading and callback.

Assumptions about the hardware, from how the driver uses it: reading an entry
removes it; `INT_STS` is cleared by reading; the chip-level register shows
`INT_STS` masked with `INT_EN`; the FIFO holds at most what `mepa_ts_fifo_get`
returns. The application installs a callback before it calls
`mepa_ts_fifo_empty`, since that function calls it without a test. The state
starts after `mepa_ts_init_conf_set`. `mepa_ts_event_set` is called with single
events and with groups (docs/timestamp.adoc:482, phy_ts.h:117). Signatures, classifiers, the local time
counter, latencies and the pulse output are left out.

### Lan80xxTs
`eng` and `action_conf` are the driver's copies (`phy25g_ts_eng_conf_t`), `hw`
and `ptp_flow_ena` the registers they stand for. Calls are atomic: they run under
the lock of the PHY. `InitBasePort` has the PLL lock or not as an input; the
`forgotten` ports, a history variable, are those whose copies
`lan80xx_phy_ts_init` cleared while the registers were not at their defaults,
which needs a failed start and a second one. Properties about copies and registers
leave those ports out until a reset.

Engines 0, 1, 2A and 2B are the API's. 2A and 2B share one analyzer block with its
enable bit and flow registers (lan80xx_ts_private.c:1257, 1641, 2476), while the
model gives every engine registers of its own: `Engines` stands for 0, 1 and one of
2A and 2B. Both in use at once is not modelled.

What was abstracted: the ETH1 flow enables stand for all comparators of an
engine; one-step and two-step clocks use the same entries and are not told
apart, nor is what an entry does to a frame; `encap_type` and the clock have a
value only while the code looks at them. A TSU hard reset is assumed to return
the analyzers to their defaults. Classifiers are sorted into what the driver
does with them: accepted, refused after `eng_used` was set (`pbb_range`),
refused by `lan80xx_ts_eth1_flow_conf`, whose error the callers drop
(`pbb_untagged`). Local time, load/save pins, latencies, stamp FIFO and events
are left out.

## 3. Runs

| Run | Result | Shows |
|---|---|---|
| `registry_serial` | holds | one thread at a time: `mepa_create` returns (`CreateReturns`), with the first family that accepts the PHY and can be probed (`FirstMatchingDriver`) |
| `registry_race` | violated | two threads: the second scans a table that is empty or half full, because `MEPA_init_done` is set first |
| `macsec_pool` | holds | a pool of two records that SAs and patterns exhaust, with bypass, re-initialization and timeouts: no record shared (`RecordsExclusive`), lost (`NoRecordLeak`) or left matching (`NoStrayMatch`), and one transmit SA (`OneTransmitSa`) |
| `macsec_map` | holds | SAs disabled before they are deleted, no timeouts: the egress map leads to the encoding SA or nowhere (`EgressMapOwned`), every enabled SA is mapped (`ActiveTxMapped`, `ActiveRxMapped`) |
| `macsec_rx` | holds | two SecYs, two SCIs, timeouts, deletes of active SAs: SCs keep different SCIs and hardware indices (`RxChannelsDistinct`), the ingress map leads to its owner (`IngressMapOwned`), no leak |
| `macsec_pattern_clears_map` | violated | deleting an egress pattern invalidates the map entry of the first SecY |
| `macsec_activate_timeout` | violated | an activation that timed out leaves the map at a record that another SecY gets later |
| `lan8814_link` | holds | up to three calls and three cable changes or hangs between polls: configured 1G advertised unless downshifted (`OneGigAdvertised`), 1G that is not configured brought up only by a poll that ends a downshift (`OnlyPollUnasks`), reported speed is the negotiated one except in the states `DownshiftUndone` and `OneGigUnasked` (`SpeedIsNegotiated`), a healthy port comes up (`ReadyComesUp`) |
| `lan8814_downshift_stuck` | violated | `dsh_complete` outlives a reset or `conf_set` that advertises 1G again; on a cable without 1G the port stays down |
| `lan8814_ts_fifo` | holds | two threads that poll, empty, get and reconfigure, three stamps, a FIFO of two: each stamp is in one place (`StampsAccounted`), with single events and groups no withdrawn event still interrupts (`NoUnaskedInterrupt`), a stamp whose interrupt is pending and enabled arrives (`StampReported`), a replaced callback goes out of use (`OldCallbackRetires`), and all of it implements `TsDelivery` (`DeliversOnce`) |
| `lan80xx_ts` | holds | every order of initialisations with PLL failures, resets, classifiers, clears and clocks: no PTP entry outlives its clock (`ActionFlowsTracked`), reported ingress flows are on (`IngressFlowsApplied`), an engine that is off has no egress flow (`EgressClearComplete`), no readiness without PLL (`BaseInitHasPll`) |
| `lan80xx_ts_ingress_clear` | violated | clearing an ingress engine switches off the flows of the egress engine of the same number, for good |

Each violated property states what a comment or header of the repository says;
`findings` in `PROJECT.json` quotes it. Each property of a run that holds has a
mutant of the code that breaks it.

Two properties that hold are stated around a disagreement of the list below.
`SpeedIsNegotiated` leaves out the states of `OneGigUnasked`, not the configurations
without 1G, which are in the run and in the property. `StampReported` speaks of the
interrupts that are enabled, not of the events asked for: with `event_mask` in place
of `int_en` it fails, since a stamp whose event was asked for in a group may have no
interrupt, and nobody is told of it.

### Known disagreements without a run
Seen on the same models, each with a counterexample of a few calls:
- `lan80xx_macsec_port_check` stops at the first vacant entry
  (lan80xx_macsec_private.c:3351), so a port whose SecY is in a later entry can be
  given a second one.
- `lan80xx_macsec_tx_sa_activate_` of the SA that is active already enables its
  record as the new one and then disables it as the old one (line 3574);
  phy_macsec.h:523 says "Transmission using the new SA is in effect immediately".
- `lan8814_poll` of a powered-down port forgets the link without resetting the
  half duplex FIFO thresholds (lan8814.c:1612); after power down, poll and power
  up the port runs at 1G with them.
- A poll that sees the loss of a downshifted link advertises 1G again without a look
  at the configuration (lan8814.c:1788-1791): downshift, `conf_set` to 100M only,
  poll. The port then links at 1G and poll, which reports 1G only if the configuration
  has it (line 1692), reports 100M; linkup_config.adoc:260 says that `mepa_poll`
  "will provide the Link Status (Up/Down), Port Speed and Aneg Status".
  `SpeedIsNegotiated` fails without its conjunct `~OneGigUnasked`. The cause is that of
  `lan8814_downshift_stuck`: `conf_set` does not clear `dsh_complete`.
- `lan8814_ts_event_set` writes the interrupt register only if none of the events
  it enables was enabled (lan8814_ts.c:2257), although docs/timestamp.adoc:482 says
  that it enables "a specific event type or group of events" and phy_ts.h:117
  "Single event or 'OR' multiple events": enable one event, then a group with it, and
  the rest of the group is reported as enabled and never interrupts. The invariant
  `int_en = event_mask` fails in two calls; `NoUnaskedInterrupt` is the half of it that
  holds.
- With `pbb_untagged` among the classifiers `IngressFlowsApplied` fails: the flow
  is saved as enabled and was never written (lan80xx_ts_private.c:4033).

### Bounds
- Registry: two threads, two specific families and the default one, three ids.
  Two threads suffice for the race; the serialized case is proved for any number.
- MACsec: pools of 2 or 4 records (the chip has 128), hence 1 or 2 SecYs and as
  many SCs, two SCIs, two association numbers. Two records let one SecY exhaust
  its pool; four let two SecYs share one and reuse each other's records. Two
  association numbers are what a key change needs. Ports are symmetric, and SCIs.
- LAN8814: one poll per second and a downshift after four (the numbers of the
  demo application), three calls and three faults: enough for downshift, loss of
  the link and reconfiguration in one behaviour. The cap on calls and faults also
  says that the application and the cable come to rest, which liveness needs.

- LAN8814 stamps: two threads and two callbacks, the least that interleaves two
  readers and replaces a callback in use; three stamps on a FIFO of two overflow
  it and refill it behind a reader. All non-empty groups of the two events are
  enabled and disabled. The bound on stamps also says that traffic
  pauses, without which `mepa_ts_fifo_empty` need not return.
- LAN80xx time stamping: two ports, so that one depends on the PLL of the other;
  one engine in both directions, which is all that `engine_clear` mixes up; two
  flows, two encapsulations, two configurations (symmetric) and two clocks whose
  PTP entries overlap. The theorems lift these bounds, for engines that do not
  share an analyzer.

### Fairness
Safety only for MACsec and LAN80xx time stamping. In the registry a thread inside `mepa_create` keeps
running (`CreateReturns`). For LAN8814 the application polls for ever
(`WF(Poll)`), as the API asks, and a link that can come up does (`WF(LinkUp)`);
no fairness on configuration calls or faults. `ReadyComesUp` ends its obligation
when the port stops being recoverable; the two ways (a downshift undone by the
application, a hang after the one restart the driver allows) are the predicate
`Recoverable`, and the first of them is the finding of `lan8814_downshift_stuck`.

In `Lan8814TsFifo` every thread keeps polling, a thread that was told of a stamp
fetches (with either call), and a thread inside the driver is scheduled; nothing
is assumed of configuration calls and frames.

Every run checks for deadlock: the application can always make another call.

## 4. Proofs

TLAPS checks them for every value of the constants that satisfies the named
assumptions: `RegistryAssumption`, `MacsecAssumption`, `LinkAssumption`,
`FifoAssumption` (of the threads, only that they are finitely many: the
accounting counts them) and `TsAssumption`. Every invariant that a passing run
checks is proved, and so are the action properties `SpeedIsNegotiated` and
`OnlyPollUnasks` and the refinement `DeliversOnce`. Each inductive invariant was checked with TLC first.

### Registry
`RegistryTyped` is the type invariant, racing threads included.
`SerializedCreateIsRight`: if calls are serialized, a device has the first family
that accepts its PHY. The inductive invariant `SerialInv` adds to the property
that at most one thread is inside, that the table is complete whenever somebody
scans it, and that the scan has passed only families that refused the id or
failed to probe.

### MACsec

| Theorem | Says | If |
|---|---|---|
| `TablesTyped` | the type invariant | |
| `RecordsStayExclusive` | no record is held by two SAs or patterns, and each held one is marked in use | |
| `NoRecordMatchesUnnoticed` | a TCAM entry matches only for an enabled SA or a pattern | |
| `TransmitsWithOneSa` | an enabled transmit SA is the encoding SA of its SC | |
| `ChannelsStayDistinct` | receive SCs in use have different SCIs and hardware indices | |
| `IngressMapStaysOwned` | a valid entry of the ingress map leads to an SA of the SC that has the index | |
| `RecordsNeverLeak` | a record in use is held by an SA or pattern of a SecY in use | |
| `ActiveStaysMapped` | an enabled receive SA is the one the map selects | no patterns, no bypass; disabled before deleted, or no timeouts |
| `EgressMapStaysOwned` | a valid entry of the egress map leads to the enabled encoding SA | disabled before deleted, no timeouts |
| `EgressMapStaysHome` | no egress entry leads to an SA of another SecY | the same |
| `ActiveTxStaysMapped` | an enabled transmit SA is the one the map selects | no patterns, no bypass, no timeouts |

The first seven hold with timeouts, bypass and deletes in any order. The
conditions of `ActiveStaysMapped`, `EgressMapStaysOwned` and
`ActiveTxStaysMapped` are each needed: TLC refutes the property when any one of
them is dropped. A pattern's delete writes a map entry that is not its own, a
bypass mode moves the enable flag so that the next `init_set` resets the
hardware's maps and keeps the tables, a call that times out leaves its map entry
as it was. So the last two theorems say of the two violated runs
(`macsec_activate_timeout`, `macsec_pattern_clears_map`) which behaviour it
takes to violate the property.

None of the first four is inductive alone. `PoolInv` is: for each direction every
holder has a record that is in use (`SaHeld`, `PatternHeld`) and no two holders have
the same (`SaDistinct`, `PatternDistinct`), enabled records are in use
(`EnabledInUse`; else a new SA could be given a record that is enabled already),
matches are justified (`MatchJustified`), and a vacant SecY holds nothing
(`VacantEmpty`; else adding a SecY, which clears its entry, would forget
records). The proof shows once that taking a record, giving records back and
switching them preserve the part of one direction (lemmas `SaTaken`,
`PatternTaken`, `DeletesKeeps`, `GivesUpKeeps`, `SwitchesKeeps`, `SameKeeps`)
and then assigns every action to one of these cases.

For the receive side `RxInv` adds to `PoolInv` that the SCs are distinct, that a
free SC has no SA (`FreeScsEmpty`; else an SC given away again would bring SAs
along) and that the map is owned. Every action either grows the tables by one
SecY, SC or SA or switch (`RxGrow`) or removes SecYs, SCs, SAs and map entries
together (`RxShrinks`, with the sets that it removes as parameters): `RxCases`
shows it once, also of the calls that stop half-way, and the invariants are
preserved case by case. `TxCases` does the same for the transmit side
(`TxKinds`). `ActiveStaysMapped` and `ActiveTxStaysMapped` need in addition that
no record is enabled while MACsec is off (`IdleDisabled`, `TxIdleDisabled`),
because switching it on resets the maps and not the tables. `RecordsNeverLeak`
is proved for the two directions apart (`TxHeld`, `RxHeld`) from `RxInv`.

### Link supervision

| Theorem | Says |
|---|---|
| `LinkTypes` | types; `loop_cnt` stays within the longest waiting time, at every polling rate and downshift time, the ones included at which it wraps |
| `OneGigComesBack` | 1G is advertised if configured, unless downshifted (`OneGigAdvertised`) |
| `ReportedIsNegotiated` | the speed reported is the one negotiated, with every configuration, except in the states `DownshiftUndone` and `OneGigUnasked` (`SpeedIsNegotiated`) |
| `OnlyPollAdvertisesUnasked` | only a poll that ends a downshift leads to `OneGigUnasked` (`OnlyPollUnasks`) |
| `FastPollingNeverDownshifts` | if `dsh_thr_cnt * rep_cnt` is 255 or more (four seconds at 64 polls per second), the `uint8_t` that counts polls never exceeds it and no downshift ever happens |

The inductive invariant `LinkInv` adds that the registers hold what the
configuration asks for (`Written`) and that a standing link is the one that the
registers and the partner resolve to (`LinkAgrees`), with two exceptions: the
application undid a downshift under it (`DownshiftUndone`), or it is a 1G link that
the configuration does not offer, under which the configuration was written again
(the registers no longer advertise 1G, and the link stands). The difficulty is that a poll is four
stages in a row. `StageOK` says what holds of the record each hands on; of it,
the part that does not follow from the type is that the link is given up in every
stage that touches the downshift flag or 1G. One lemma per stage (`DownshiftOK`,
`StuckOK`, `SpeedOK`, `ForcedOK`, `EventOK`) shows that it is kept. A
configuration that leaves the link standing must leave what it resolves to alone
(`ConfSetInv`), which is what `ConfRestarts` is for. For the speed, a link that is
reported up was up when it was read (`DownStaysDown`), so the first two stages did
nothing and the speed is computed from an unchanged record.

### Time stamp FIFO

| Theorem | Says | If |
|---|---|---|
| `FifoTyped` | the type invariant | |
| `StampsStayAccounted` | each captured stamp is in one place (`StampsAccounted`) | |
| `NoInterruptUnasked` | no interrupt is enabled that is not asked for (`NoUnaskedInterrupt`) | |
| `FifoDelivers` | `Lan8814TsFifo` implements `TsDelivery` | |
| `NothingTwice` | what implements `TsDelivery` hands no stamp out twice, and none that was not captured or still waits (`HandedOutOnce`) | |

`FifoInv` adds to the accounting that a thread holds a stamp exactly between
reading and callback (`HoldsInCallback`) and that no stamp waits in two places
(`WaitsOnce`). `Moves` sorts the steps: one captures a stamp, or hands on a
list of distinct waiting stamps, empty for most; both the accounting and the
refinement follow from these two kinds. `NoInterruptUnasked` holds for every set of
groups; that no interrupt is missing is false (section 3).

### Engines and PTP actions

`Lan80xxTsProofs` proves of the engines and PTP actions, for any number of ports
and flows and any engines that do not share an analyzer:

| Theorem | Says |
|---|---|
| `CopiesTyped` | the type invariant |
| `ActionsStayTracked` | the PTP comparator holds exactly the entries of the enabled clock |
| `IngressStaysApplied` | ingress flows reported as enabled are, if no untagged PBB flow is asked for |
| `EgressStaysClear` | an egress PTP engine that is off has no flow on |
| `BaseNeedsPll` | the base port is initialised only while its PLL is locked |

Each is inductive together with the type invariant, which `TypeKept` shows once;
the lemmas `ActionsKept`, `IngressKept` and `ClearKept` go through the calls one
by one for an arbitrary engine. What makes the first two work is the definition
of `forgotten`: a copy is wiped only when the registers are at their defaults or
the port leaves the statement. `IngressStaysApplied` has its hypothesis on
`Vlans` in its statement; without it the property is false. Its egress
counterpart is false as well (`lan80xx_ts_ingress_clear`).

### Only model-checked
Liveness (`CreateReturns`, `ReadyComesUp`, `StampReported`,
`OldCallbackRetires`), which is beyond this prover.

## 5. Plan

1. `Lan80xxControlFrame`: rule slots of control frames
   (`lan80xx_cp_rule_id_get`, `control_frame_match_conf_set_`), shared by etype,
   MAC and both kinds of match; composed with `Lan80xxMacsec` where secy deletes
   release them. Packet-number updates with their polling loop.
2. `Lan80xxMacsec` refined: an abstract specification of the key agreement's view
   (one transmit SA, a set of receive SAs per channel) with the tables shown to
   implement it; activation in sub-steps, with packets in flight.
3. `Lan8814Link`: loopbacks, manual master/slave, the MDI cache, several poll
   rates (`loop_cnt` at its limit), events.
4. Time stamping: the stamp FIFO of LAN80xx against `TsDelivery` with
   `MayDiscard` (a partial entry is thrown away and ends the call, callbacks run
   under the lock), its events; the local time counter, latencies and pulse output
   of both drivers.
5. `Tc10`: sleep and wake-up of LAN887x and LAN8770 between two partners.
6. LAN80xx events, and the mailbox of the firmware; SyncE selection and SFP
   hot-plug of the boards; the dispatch functions of the common layer.
7. Proofs: the modules above as they come; the refinement of 2, for which
   `PoolInv` and `RxInv` are the invariants; the mutual independence of ports, of
   which `RecordsExclusive` is a part.

## 6. Not modelled

Register sequences that set up analog blocks, SerDes and PCS (no state beyond
the registers themselves), vendored drivers, the VTSS code base, boards and demo
application; the components of the plan until their turn. Failure of register
accesses is not modelled anywhere.

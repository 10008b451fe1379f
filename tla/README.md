# Formal models of the broadcom-wl shim and its daemons

The repository runs Broadcom's `wl` driver object, compiled against Linux
2.6.36, on a current kernel. The object ("the blob") is not in source form. It
embeds `timer_list`s, `tasklet_struct`s, `sk_buff`s, `net_device`s, `pci_dev`s
and `work_struct`s of the old layout in its own memory, and has the old kernel's
inline functions compiled in. A layer of shadows translates between these and
the kernel's real objects. Around the driver stand Broadcom's user-space
programs: `wlconf`, which configures a radio from nvram, `eapd`, which hands
driver events and EAPOL frames to daemons, and `nas`, the WPA and 802.1X
authenticator.

This directory holds TLA+ models of them, TLC configurations and TLAPS proofs.
`PROJECT.json` maps each definition to its source lines and lists runs, the
faulty variants the properties reject, hazards and findings.

## 1. Inventory

| Component | State | Operations | What is hard | Module |
|---|---|---|---|---|
| Timer shadow, `wl_shadow_timer.c` | hash of blob timer -> real timer; `entry.next` in the blob's struct | `init_timer_key`, `add_timer`, `del_timer`, trampoline, exit | the map is used after the unlock; softirq against callers and unload | `ShadowTimer` |
| Tasklet shadow, `wl_shadow_tasklet.c` | the same for tasklets; SCHED bit in the blob's struct | `tasklet_init`, `__tasklet_schedule`, `tasklet_kill`, trampoline, exit | two SCHED bits, one maintained by inlined code; kill of a self-scheduling tasklet | `ShadowTasklet` |
| Packet shadow, `wl_shadow_skb.c`, packet part of `linux_osl.c` | slab of shadows, counters, edits on the shadow not yet in the skb | wrap, unwrap, put, push, pull, get, dup, free, to/from native, `netif_rx`, transmit, exit | which copy is current; one release per crossing; shared buffers | `ShadowSkb` |
| Net device shadow, `wl_shadow_netdev.c` | list of shadows; START, PRESENT, XOFF, name, multicast flags in both copies | alloc, register, open, stop, rx mode, unregister, free, queue bit operations, exit | two copies of each bit changed in several steps and by two parties | `ShadowNetdev` |
| PCI shadow, `wl_shadow_pci.c` | one driver registration, a `pci_dev` shadow per card | register, probe, remove, shutdown, unregister | probe failure; cards removed while the driver unregisters | `ShimModule` |
| Module life cycle, `wl_shim_removed.c` | order of init and exit; `work_struct` data | `wl_shim_init`, `wl_shim_exit`, `schedule_work` | order of the exits, failed init, work fix-up without a lock | `ShimModule` |
| nvram shadow, `wl_shadow_nvram.c` | a lazily loaded copy | load, exit | little: a step of probing | `ShimModule` |
| NAS authenticator, `nas/src/wpa.c` | per station: state, retry state, retries, timer, replay counter, PTK; GTK; countermeasures | association, EAPOL messages 2, 4 and group 2, rekeying, retransmission, MIC failures, link events | lost, repeated and late frames; timer against answer; rekeying in the middle of a handshake | `WpaAuth` |
| NAS station table, 802.1X and RADIUS, `nas.c`, `nas_radius.c` | bounded table with LRU eviction; PAE state and timers; the request outstanding per station | EAPOL start, logoff, identity, EAP; RADIUS accept, reject, challenge; association events; watchdog | late answers, places that change hands, eviction in mid-authentication | `NasRadius` |
| NAS workspace, `nas_wksp.c`, `nas_wksp_radius.c`, `nas_linux.c` | control blocks, RADIUS sockets, signal flags | parse, init, main loop, messages that create control blocks, reopen, signals | signals against the loop; two ways to name one interface | `NasWksp` |
| eapd, `eapd.c`, `eapd_linux.c` | station table; per app: interfaces, control blocks; shared raw sockets; event masks | dispatch of frames and events, start, dynamic interfaces, shutdown | a full table; sockets counted over apps; one mask per radio | `EapdSta`, `StaCache`, `EapdWksp` |
| wlconf, `wlconf.c`, `bcmwifi_channels.c` | the driver's parameters; nvram | up, start, down, security; chanspec conversions | hundreds of conditional settings on a driver that remembers; failing ioctls are ignored; channel arithmetic | `Wlconf`, `Chanspec` |
| libbcmcrypto, `vendor/`, `wldiag`, `crashinfo.c`, inert stubs | - | - | cryptography, hardware access, printing | no |

How they interact. The kernel calls the net-device and PCI trampolines, the timer
and tasklet softirqs and the interrupt handler; these call the blob; the blob
calls the shims, from any context. The shadows share no state among themselves,
except that `wl_tramp_start_xmit` makes packet shadows, and that `wl_shim_exit`
tears them down in a fixed order. The driver sends events and EAPOL frames
through eapd to nas and the other daemons; nas answers with ioctls (keys,
authorisation) and frames. wlconf runs to completion before the daemons start
and whenever the configuration changes.

What makes each correct:

- timers and tasklets: no map is used after it was freed, also while callbacks
  go on during the unload; what the blob reads in its own struct (pending, SCHED) is never stuck, because
  its inlined code would then never arm or schedule again; unload terminates;
- packets: one usable shadow per packet; no edit lost; shadows and packets
  accounted for; no write into somebody else's buffer;
- net devices: the blob sees a running interface as running and a stopped queue
  as stopped, and both sides use one name;
- module: nothing is used after its layer went; a module that is out, after
  whatever happened, left nothing but the slab caches the code keeps; a work item
  is queued once;
- authenticator: keys agree when it says so; replay counters are not reused;
  TKIP stations stay out during countermeasures; each wait ends;
- 802.1X: a station is accepted by an answer to its own request; the driver's
  port follows the table;
- workspaces: every socket and control block has an owner and goes with it; the
  event mask serves every app; SIGTERM ends the daemon;
- wlconf: a BSS on the air has its own security, whatever an earlier
  configuration set; AMPDU and AMSDU are not both on in an old core; the channel
  asked for is the channel set; chanspecs survive being written and read.

## 2. Modules and how they correspond to the code

One action is what the code does between two points at which somebody else can
interfere: a critical section of the spin lock, a single call into the kernel,
or, in the daemons, which are single-threaded, a whole event handler. `\E`
chooses inputs and the outcomes of calls that may fail. Each module has faulty
variants, each just before what it is a variant of, used only to confirm that
each property can fail.

**ShadowTimer.** `owner` and `table` are the maps and `wl_timer_ht`; `pending` is
the blob's `entry.next # NULL`; `queued` is the kernel's timer wheel. `pc`,
`arg`, `ptr`, `was` are the locals of the calls in progress, in threads and in
timer callbacks. `wl_shim_init_timer_key` is InitFind, InitDupSync,
InitDupClear, InitHash; `add_timer` is AddFind, AddTest, AddArm; `del_timer` is
DelFind, DelReal; `Expire` is the kernel, `Trampoline` and `CallbackReturn` the
callback. `wl_shadow_timer_exit` begins when the blob's cleanup has returned, so
that no thread is in a call (ExitBegin); callbacks go on, and may still arm or
delete their own timer while ExitNext, ExitSpin, ExitSync, ExitUnhash and ExitDone
take the maps down. Init lets `pending` be anything: the blob's memory is
uninitialised. Three constants say what is assumed of the blob: `Serialised`, the
timers on which it makes one call at a time; `InitOnce`, that one path initialises
a timer first; `CrossExit`, whether a callback that outlives the blob's cleanup
calls for a timer other than its own.

**ShadowTasklet.** The same layout, with the blob's SCHED bit (`blobSched`), the
real one (`sched`) and the kernel's queue apart, since the real bit is cleared
before the handler runs and `tasklet_kill` polls it (`tasklet_kill_poll` is a look that finds it set, a
stutter). `BlobSchedule` is 2.6.36's
inlined `tasklet_schedule`, whose test-and-set is on the blob's bit. `owed` is
history: schedules not yet followed by a run.

**ShadowSkb.** `geo` is data, tail and len of the real skb, `view` the shadow's,
in abstract units, and `head` the buffer the shadow points into. `sync_up` copies as
the code does and is refused, as there, when that is no longer the skb's buffer.
`held` are the shadows the blob may still use. Packets are linear. `dupped`
(history) marks buffers that the driver itself shared by `osl_pktdup`; `intent`
(history) is what all the calls of the blob together make of a packet, computed
beside the two copies, so that an edit either copy loses shows.

**ShadowNetdev.** `real*` and `sh*` are the two copies of START, PRESENT, XOFF,
the multicast mode and the name. `wl_shadow_netdev_txq_bitop` is four steps (look
up under the lock, test, write, apply to the real queue), as no lock is held
over them.

**ShimModule** composes the layers at the level of what they own: each card has a
`pci_dev` shadow, a net device, a timer map and a tasklet map, and `caches`
counts slab caches. `mod` is where the module is in its life: out, init, live,
unregister, timers. A load may fail before or after the cache is made
(`failed`). A refused transmit leaves a live shadow (`live`), with which
`wl_shadow_skb_exit` keeps the cache (`leaky`). Cards are bound and unbound by sysfs
while the module is live and are removed by the core while the driver
unregisters. Packets, interrupts, timers and tasklets go on in every state in
which the objects allow them. `oops` records a use of something that no longer
exists. The handlers are atomic here; their interleavings are in the module of each
layer. `schedule_work` reads, fixes and queues in three steps per processor, as the
code does without a lock.

**WpaAuth.** `sta` holds an entry per station; `net` is the set of all EAPOL
frames ever sent, which are never removed: a frame may arrive late, repeatedly,
out of order or never. A PTK is the number of the nonce it came from; 0 is a
wrong one. Message 2 may carry a different IE ("M2ie") or a MIC from a wrong
passphrase, which sets the retransmission timer anew without counting a retry
(`RxM2BadMic`). `due` are the stations whose timer has run for its full period
(`Elapse`) since it was last set; only then does `Retx` come. At the limit of
message 3 in WPA the handler goes on with the group key (`RetxFallThrough`) or, if
the driver rejects the pairwise key, throws the station out (`RetxNoRoom`). The
supplicant (`PeerM1`, `PeerM3`, `PeerG1`) is external: it accepts what the standard
accepts. A station chooses WPA with TKIP or WPA2 with AES when it associates
(`Modes`).

**NasRadius.** `sta` is the table of `nas.c` with the fields the PAE uses;
`lookup_sta` finds, enters or evicts as the code does, the driver being told of
the evicted station. Each PAE state uses one of three second counters and sets
it on entry: `timer` stands for the three. `eapol_dispatch` is the common part of
`eapol_dispatch_ex`, with one action for each kind of frame. A RADIUS request
has the place as its id and a fresh Request Authenticator (`vector`); `sent` keeps
all, so an answer may come late, again or never. `authentic` is the
Message-Authenticator, computed over the authenticator of the request the place
holds *now*. `by` is history: whose request was accepted. The mode of nas and WEP
are constants (`NasMode`, `Wep`), as are the ways each station may associate
(`Kinds`). `AssocWep` is `wpa_driver_assoc_msg` for a station without a WPA IE, which
where nas needs no 802.1X of it is let in at once (`AtOnce`); `Assoc` is the rest, with
the four outcomes of an IE; `AssocNoRoom` finds no place. The 4-way handshake, which
`WpaAuth` has, is `HandshakeDone` and `HandshakeFails` here; its frames are processed
in the states AUTHENTICATED and INITIALIZE (`Handshaking`).

**NasWksp.** The command line is one action per option that makes or spoils a
control block: `ParseIf` for `-i` (nothing keeps an interface from being given twice;
a block in error is used again by the next `-i`) and `ParseWdsFails` for a `-D`
whose peer has no address. Then `InitWksp`, and the main loop cut where it reads or
writes `flags`: a signal handler, which *assigns* `flags`, may come between any two.
`find_nwcb` is the lookup that creates a control block for a message. `reopened` is
`nas_radius_open`, which fails at socket, at connect or at getsockname and closes
what it had opened by then. SIGUSR1 moves the group key of the blocks that have a
station with keys to the other index (`TestRekey`, `nas_force_rekey`).

**EapdSta, StaCache.** `EapdSta` is the station table as the code has it: an array
of entries and hash chains, here sets of places: an address has one entry at
most, so a search does not depend on a chain's order. Frames, events and the frames
of daemons look a station up, enter it, evict the least recently used, or find
no room. `StaCache` is the promise: a bounded cache with at most one entry per
address, in which only an entry used least recently, and not in this second, is
replaced. `Cache` in `EapdSta` instantiates it with the
addresses of the entries and their times of last use; `ImplementsCache` says that each step of the
table is a step of the cache or a stutter. The cache makes no exception for stations
in the course of WPS, as the code makes none, although its comment speaks of one
(section 4).

**EapdWksp.** The three apps' interface lists, control blocks, shared raw sockets
(`brcm`, a fixed array with counts and reused slots), the event mask of each
radio, interfaces that hotplug adds and deletes, SIGTERM, cleanup. The start is
one step per socket, because each may fail. `event_init` is one step per name, in
any order: the name is passed over, its radio's mask cannot be read or written, or
the mask is written (`EventSkip`, `EventGetFails`, `EventSetFails`, `EventSet`); `seen`
is the code's list of radios already written to, whose mask is read before it is
added to. `unserved` (history) are the names for which that failed. A dynamic
interface in a bridge shares the control block of the bridge, and
`nas_open_dif_sockets` then takes its socket a second time: `twice` (history).

**Wlconf.** `par` maps parameter and BSS to the value the driver was last told;
each part of `wlconf()` is the partial function of the parameters it sets, in
the order of the code. Options copied unconditionally or if nvram has them are
sets of names. The commands run one after another while nvram changes between
them. An ioctl may fail (`refused`); nothing stops then. A driver without AP support
is one of the cards. `manual_chanspec` subtracts from an unsigned number and ors the
fields together: a centre below 0 overwrites all of them.

**Chanspec.** `bcmwifi_channels.c` as operators on records. A chanspec string is
the record of the parts that `wf_chspec_aton` reads. Subtractions of unsigned
bytes wrap as in C. The static pointer that `wf_chspec_aton` compares "80/" with and
advances is an argument, `met`: how many 80+80 strings the process has met.
`plus80` in `Wlconf` counts them through a run of the program.

## 3. Runs

| Run | Distinct states | Shows |
|---|---|---|
| `timer` | 250 k | memory safety and unload of `ShadowTimer` with overlapping calls on one timer; its pending field and repeated init on a timer with serialised calls |
| `tasklet` | 9,368 | all of `ShadowTasklet` |
| `skb_safety` | 85,406 | all of `ShadowSkb` |
| `netdev` | 4,032 | all of `ShadowNetdev`, queue operations one at a time |
| `shim_module` | 28,387 | three loads with two cards: safe order of teardown, nothing left but the caches the code keeps, a work item queued once |
| `wpa` | 90 k | key agreement, replay counters, countermeasures, and that a handshake ends |
| `wpa_stuck` (violation) | - | a WPA station that never answers message 3 is awaited without a timer |
| `nas_radius` | 93 k | late RADIUS answers, eviction, the driver's port, waits that end |
| `nas_wksp` | 180 k | sockets and control blocks over seven settings, with signals and failures |
| `eapd_sta` | 4,755 | the hashed table implements the cache; WPS sessions stay on their interface |
| `eapd_wksp` | 203 k | shared sockets, masks name by name, shutdown with its sockets closed |
| `wlconf` | 527 k | security, aggregation, channels, and the chanspec conversions |

**Bounds.** Maps: two, so that a second map for one timer or a map freed and
allocated again can occur; when none is left the allocation fails, which the
code may meet as well. `MaxAdds` (3): arm, fire and re-arm, and arm again from a
callback. Two timers: on t1 the blob serialises its calls, on t2 a thread and the
callbacks overlap as they please (`Serialised` = {t1}). Skbs and buffers: two, a packet and its clone; three shadows, so that
one can leak by a refused transmit (`MaxRefused` = 1) while both packets are
wrapped. `BufLen` = 2, `Headroom` = 1: push and pull succeed and fail. One net
device: devices do not interact, and two threads use its queue. `ShimModule`: two
cards, one that stays and one that goes; three loads, so that a failed load lies
between two that succeed; two processors.

`WPA_RETRY` = 2 (7 in the code): two retransmissions, then the limit; each
retransmission does the same. `MaxNonce` = 2: one handshake after another, for the
late frames of the first to meet the second; `MaxGtk` = 2: one group rekey;
`MaxCm` = 1: one pair of MIC failures. TLC compares states without the frames that
nobody can accept any more (`WithoutStale`), which no action and no property
depends on. Two stations are needed only where one's
handshake meets the other's rekey (`WpaAuth_gtk.cfg`).

`NasRadius`: two stations and one place, so that every entry of one evicts the
other; three requests, so that each station's late answer can meet a request of
the other and a newer one of its own; periods of 1 or 2 seconds keep the order of
the counters (`ReauthMax` = 2: the count wraps into DISCONNECTED); `MaxClock` = 2:
same second, one apart, two apart. `EapdSta`: three stations, two places, one
chain: eviction with a choice, and entries that share their chain;
symmetry over the stations; `sent`, an output that nothing reads, is left out of
the states TLC compares. `EapdWksp`: two radios, three interfaces, two more
that come and go, one a proxy station and one in a bridge (so that `twice` happens),
three slots (`MaxBrcm`), so that slots are reused and run out.
`NasWksp`: two interfaces and a WDS link with the address of one of them, seven
settings that cover each cipher, mode and key index case, two control blocks, so
that an interface can be given twice. `Wlconf`: thirteen
configurations (access point with one and two BSSs, client, repeater, proxy
station, bridged client, spoofed address; WEP, WPA and open; automatic and manual
channels of 20, 40 and 80 MHz, channels 1 and 48 with the upper side band among
them; AMPDU and AMSDU present and absent; an 80+80 string as the chanspec and among
the preferred channels; a driver without AP support) on five cards; two runs of
`up`, the second on what the first left; one refused ioctl, of the kinds whose
loss matters. `ChspecRoundTrip` covers every channel number, width, band and side
band that the tables hold.

**Deadlock.** nas idles when nothing happens and the bounds are reached, and a
module is no longer loaded after `MaxLoads`: `CHECK_DEADLOCK FALSE` says so in the
`WpaAuth` and `ShimModule` configurations. In all others deadlock is checked.

**Fairness.** A call in progress runs on (WF of `CallStep`, `BitopStep`). An armed
timer expires, and an entered trampoline runs: the kernel's softirqs. A callback
or handler returns, whatever shim calls it makes on the way (SF of
`CallbackReturn`, `HandlerReturn`, as the calls disable the return while they
last). `tasklet_kill` polls the SCHED bit and waits for no handler
that schedules itself, having unhashed the map: WF is enough. (The unload unhashes
after its kill; `KillReturns` excepts there a handler that schedules for ever.) rmmod goes on.
A retransmission timer that stays set for its period runs out and is then served
(WF of `Elapse` and `Retx`; whatever sets it anew starts the period again, and
`HandshakeEnds` excepts a station whose message 2 with a wrong MIC does so for ever);
nas's countermeasure timer expires and its watchdog runs every second (WF of
`wpa_countermeasures_cb`, `nas_watchdog`); its main
loop and its start go on (WF of `Loop`, `InitWksp`); eapd's one
thread goes on (WF of `Thread`); wlconf runs to its end
(WF of `Step`). Nothing is assumed of stations, servers, frames, nvram, or of
the blob's decision to call anything.

**Assumptions about the blob**, which no source shows and no shim enforces. A timer
is first initialised by one path (`InitOnce`), and a callback that outlives the
blob's cleanup calls for no timer but its own (`CrossExit` FALSE): without either a
map can be used after it was freed or a timer have two. Calls on one timer do not
overlap (`Serialised`): assumed only of t1 and needed only by `PendingBacked`,
`InitQuiesces` and `PendingResolves`, since the second half of a delete can stop
what an add has armed meanwhile. Queue operations of one device do not overlap
(`Serialised` of `ShadowNetdev`). The remove handler unregisters its net device,
deletes its timer and kills its tasklet, and nothing of a card is armed after that;
a device is not freed while one of its queue operations is under way; `tasklet_init`
and `tasklet_kill` of one tasklet are called by one context at a time; the blob does
not go on using a packet it refused to transmit. A work item is handed over for the
first time by one processor (`SerialFirst`; with FALSE, `WorkQueued` fails: two
processors both see 2.6.36 data, and the second store wipes the PENDING bit that the
first one's queueing set). Section 4 names the configurations that lift these
assumptions and what TLC finds then.

## 4. Findings and observations

The finding of run `wpa_stuck`: at the retransmission limit of message 3 in WPA,
`wpa_retransmission` calls the handler, which starts the group handshake and its
timer, and then stops that timer.

Further configurations, which are no runs, show where the code does not do what a
comment says, or what it would do if the blob did not keep an assumption. TLC finds
each property violated, unless the list says otherwise. Against a comment:

- `EapdSta_wps.cfg`, `AgeOutSparesWps`: `eapd.c:1992` says "Didn't find one unused, so
  age out LRU not wps entry."; the victim is chosen by `last_use` alone
  (`eapd.c:1973-1981`), so a station in the course of WPS loses its session.
- `NasWksp_static.cfg`, `StaticKeyStays`: `nas_wksp.c:793` says "GTK rotation is not
  allowed when WEP is enabled,"; SIGUSR1 rekeys every block (`nas_wksp.c:415-419`), and
  the static key moves to the other index (`wpa.c:520-522`).
- `Wlconf_sideband.cfg`, `ChannelCentred`: `wlconf.c:2416` says "Adjust the channel to
  be center channel"; at 40 MHz without "lower" or "upper" in nctrlsb the channel goes
  unchanged into the centre field, and the control channel is the one 2 below.
- `Wlconf_strings.cfg`, `ChanspecUsed`: `wf_chspec_aton` advances the static pointer
  `plus80` (`bcmwifi_channels.c:637`, `:648`) and never sets it back: the second 80+80
  string a process reads is refused, and wlconf, which reads the preferred channels
  first, falls back on the channel variable.
- `ShadowTimer_add.cfg`, `NoDoubleAdd`: `wl_shadow_timer.c:197` says "do not rely on the
  blob being well-behaved across an ABI change", but the test for a queued timer and
  `add_timer` are outside the lock: two contexts that arm one timer at once both call it.
- `ShadowTimer_del.cfg`, `DelReturnsDequeued`: `wl_shim_del_timer` returns the
  blob's field, not the result of `timer_delete`: 1 although the callback is
  already entered.
- `ShadowSkb_shared.cfg`, `SharedBitHonest`: `osl_pktdup` does not refresh the
  original's shadow, whose CLONED bit stays clear.
- `NasWksp_term.cfg`, `TermStops`: the handlers assign `flags`
  (`nas_linux.c:90`, `:99`) and the loop clears the rekey bit by a
  read-modify-write (`nas_wksp.c:422`), so a SIGTERM can be lost.
- `WpaAuth_gtk.cfg`, `GtkDelivered`: `wpa_new_gtk_callback` skips stations in the
  middle of a handshake, which then finish with the old group key.

If the blob does not keep an assumption, or without a comment that promises it:

- `ShadowTimer_maps.cfg`, `OneMapPerTimer`: two first initialisations of one timer at
  once both find no map and hash one each (`InitOnce` FALSE).
- `ShadowTimer_cross.cfg`, `NoUseAfterFree`: a callback that outlives the blob arms
  another timer between its `timer_delete_sync` and `hash_del` (`CrossExit` TRUE).
- `ShadowNetdev_xoff.cfg`, `XoffMirrored`: a stop and a wake that overlap can
  leave the real queue stopped while the blob sees it running; the operations
  were atomic in 2.6.36.
- `Wlconf_spoof.cfg`, `SpoofForgotten`: mac_spoof is set to 1 in its mode
  (`wlconf.c:1937`) and cleared in no other, so the next configuration keeps spoofing.
- `NasRadius_wep.cfg`, `PortTracked`: the table of `nas_radius` where nas has WEP and no
  802.1X for it, so that stations without an IE are let in at once. It holds.

Seen while modelling, each in the model as the code has it:

- `PendingBacked` holds in one direction only: a trampoline late for the lock
  clears the field of a timer that was armed again meanwhile. Likewise a failed
  `ndo_open` leaves START set in the shadow until the next close or unregister.
- The slab cache of a failed load stays (`wl_shim_removed.c:286`), and so does that of
  an unload that meets a live shadow, such as a refused transmit leaves
  (`wl_shadow_skb.c:497`).
- A RADIUS Access-Reject is taken without a signature (`nas_radius.c:442`), and an
  answer with a bad one frees the pending request (`:103`, `:563`), after which the
  right answer is bogus; the station starts again when its timer expires.
- A session timeout asks the station for its identity but leaves its port open.
- If the driver refuses the unicast key, the station is cleaned up and the code
  then authorises its address (`nas_radius.c:525`, `:537`).
- A WPS session of eapd can leave its interface when proxy stations (`Psta`) exist
  and another interface is in the list of neither nas nor wps (`EapolIfs`): through
  the proxy station's interface the entry keeps its state, and an EAPOL start on the
  other one, which eapd does not answer, then takes the entry along. `EapdSessionStaysPut` excludes the
  combination by its hypothesis; without it TLC finds `SessionStaysPut` violated.
- A dynamic interface that is in a bridge, and no proxy station, shares the control
  block of nas that the bridge has, and `nas_open_dif_sockets` (`nas_eap.c:378`) takes
  its socket a second time: the count is one too high and the socket is never closed.
  It happens in the run `eapd_wksp`; `SocketsCounted` and `ShutdownCompletes` except
  exactly these sockets (`twice`).
- `nas -i wl0 -i wl0` makes two control blocks for one interface; `MessagesAddOnce` says
  that only the command line can.
- wlconf: `wlconf_set_wsec` always returns 0, so its caller's fallback
  (`wlconf.c:954`) never runs; the comment at `wlconf.c:1052`, that only one of
  AMPDU and AMSDU is on, does not hold for corerev 40 and above; `security` reads
  the primary interface's prefix; the DFS list takes seven entries where the
  comment says six.
- Chanspec strings: "1u" (channel 1, upper) is read as a 40 MHz chanspec with its
  centre at channel 0, which is not legal and which wlconf takes. Likewise channel 1
  with nctrlsb "upper" wraps below 0; the driver is offered a chanspec of a reserved
  width. `ChannelKept` says that nothing of the kind is legal, not that it is refused.

Hazards that no property covers: `wl_shadow_tasklet.c:104` (a repeated init under
a running handler: the blob is assumed not to), `wl_shadow_netdev.c:619` (a
device freed under a queue operation: likewise), `wpa.c:1253` (the loop over the
station table runs one past its end; the table is a function in the model),
`nas_radius.c:77` (an attribute of length below 2; attributes are abstracted),
`nas_eap.c:387` (a zeroed `preauthSocket` of a control block made later is
descriptor 0), `nas_wksp.c:214` (an assertion on a hole in the list of control
blocks), and `wl_shadow_nvram.c:34` (two first loads of nvram at once: probes are
serialised by the PCI core's registration).

## 5. Proofs

**ShimProofs**: the timer shadow, for any number of timers, threads and maps:

- `TypeCorrect`, `UseAfterFreeCorrect`: under `InitOnce` and `~CrossExit`,
  `Spec => []TypeOK`, `Spec => []NoUseAfterFree`, whatever calls overlap and whatever
  callbacks do during the unload;
- `PendingCorrect`, `InitQuiescesCorrect`: under the same, `[]PendingBacked` and the
  action property `InitQuiesces`, which speak of the timers in `Serialised`.

`NoUseAfterFree` is not inductive alone: a state with a hashed but free map, or with
a callback in a call for a map the unload is about to free, satisfies it and its
successor does not. `MemInv` adds that hashed maps are allocated
(`HashedAllocated`), that only hashed maps are used by calls, queued or run
(`UsedHashed`), that nobody maps a timer between the lookup and the `hash_add` of its
first init (`StillUnmapped`), that a timer has one map (`OneMapPerTimer`), and what the
unload has achieved (`ExitInv`: only callbacks are in calls, each for the timer whose
map it runs on, so that the victim, which is neither queued nor running, is nobody's).
`SerialInv`, inductive relative to `MemInv`, adds that calls in progress on a
serialised timer are one (`CallsApart`) and that its pending field stays clear between
the halves of `del_timer` (`StillCleared`). `StillStopped` adds that a map that
`init_timer_key` has stopped stays stopped until it has cleared the field. Each step
lemma has one step per action. The proofs use only `TimerAssumption`. That two maps
or a double `add_timer` are impossible is not claimed: they are possible (section 4).

In the same module, of `ShimModule`, for any set of cards and processors and any
bound on loads, from no assumption:

- `TeardownIsSafe`, `UnloadIsClean`: `ShimSpec => []TeardownSafe`, `ShimSpec => []UnloadClean`;
- `WorkIsQueued`: under `SerialFirst`, `ShimSpec => []WorkQueued`.

`~oops` says nothing about why the next step cannot go wrong. `LifeInv` adds the
types, `DriverInv` (the driver is known exactly in the phases in which the core
may call it), `CardInv` (a card's state, its shadow and its objects go
together: only a bound card has a net device, and an armed timer or tasklet, so
that after the unregistration nothing is armed), and `CacheInv` (one cache per failed
load and per unload that met a live shadow, plus one from init to the end). `LifeInvariant` proves it inductive by
`LoadPreserves`, `CardPreserves`, `CallbackPreserves`, `UnloadPreserves` and
`WorkPreserves`, one per part of Next.

`WorkInv` adds, for `WorkQueued`, what each processor knows between its read of the
work item's data and its queueing of the item.

**ShadowTaskletProofs**, for any number of tasklets, threads and maps, from
`TaskletAssumption`:

- `TaskletUseAfterFree`, `TaskletOneMap`, `TaskletSchedBacked`: `[]NoUseAfterFree`,
  `[]OneMapPerTasklet` (which no run needs to state), `[]SchedBacked`.

`TaskletInv` is proved by one lemma per action. `SchedBacked` relates the blob's bit
to the real one; it survives a kill only if the real bit is known to be either
queued or held by the `tasklet_kill` in progress (`SchedInv`), and a free of the map
only if a map out of the hash belongs to exactly one call (`AllocInv`, `CallInv`),
and if a handler schedules the tasklet whose map it runs on (`HandlerInv`). `ExitInv`
and `Roles` say where the unload and the others can be.

**ShadowNetProofs**: packets, for any number of packets, buffers and shadows and any
buffer size, from `SkbAssumption`:

- `SkbHeldBacked`, `SkbShadowsAccounted`, `SkbTxHeadPrivate`: the three invariants;
- `SkbNoEditLost`: the action property `NoEditLost`.

`ShadowsAccounted` equates a counter with a cardinality, so `CountedHeld` keeps the
set of allocated shadows finite; `WrapBooks` and `PutBooks` are the two ways the
account moves. `TxHeadPrivate` needs that a packet in use has a buffer
(`BufOwned`). `NoEditLost` compares the skb with `intent`, which no sync writes:
`Faithful`, the invariant behind it, says that every held shadow points into its
packet's buffer, so that no `sync_up` is refused, and shows all of the blob's edits.
It rests on `SyncUpExact`: `sync_up` gives the skb exactly
the shadow's geometry, which holds only for linear packets (`Linear`: tail is `len`
behind `data`), because the code recomputes tail from the difference.

In the same module, of `ShadowNetdev`, for any number of devices and threads:

- `ReadinessCorrect`, `MulticastCorrect`: `[]ReadinessMirrored`,
  `[]MulticastAdmitted`; `NamesCorrect`: the action property `NamesAgree`.

`NetdevInv` adds that a device that is up or opening is registered and a registered
one present (`UpInv`), and that both names of a registered one agree (`OneName`): a
step from a state without them, such as a stop of an unregistered device, would
break the mirror.

**WpaAuthProofs**, for any stations, modes, retry limit and bounds, from
`WpaAssumption`, with frames lost, repeated, late or reordered:

- `WpaKeysAgree`, `WpaFreshReplay`, `WpaCmKeepsTkipOut`: the three invariants.

`KeysAgree` speaks of the last state of a handshake only. `Stage` says what each
earlier one has reached, and `AnswersTold` why an accepted message 4 or group
message 2 proves what the station holds: an answer was made at a replay counter the
station has reached, and one at its present counter with the key it has installed.
`ReplayAhead` keeps old frames below the counter, so that each message sent is new
(`Fresh`, of which `FreshReplay` is the sum over the stations); `Forgotten` says that
a station outside the table starts from nothing. `StationStep` reduces an action to
the one station it concerns.

**NasProofs**: 802.1X and RADIUS, for any number of stations and places, any timeouts
and bounds, from `NasRadiusAssumption`:

- `RadiusAcceptedIsOwn`, `RadiusPortTracked`: `[]AcceptedIsOwn`, `[]PortTracked`.

An answer carries a place and an authenticator, no station. `RequestOwn` ties the
request a place holds *now* to the station it holds now, over eviction and
re-entry; `SentBounded` makes a new authenticator differ from all earlier ones;
`OnePlace` and `EntriesSane` make the lookup find a station's only entry. `Follows`
collects what a transition of the PAE without an answer may do; all handlers but
the RADIUS one are instances of it.

In the same module, of `NasWksp`, for any interfaces and settings and any size of the
table, from `NasWkspAssumption`:

- `WkspSocketsAccounted`, `WkspMessagesAddOnce`, `WkspGroupKeySane`:
  `[]SocketsAccounted`, `[]MessagesAddOnce`, `[]GroupKeySane`.

`SocketInv` counts the open sockets as the blocks that have one and adds that only
blocks with a RADIUS server do, without which the shutdown, which closes those only,
would leave some open. `BlockInv` says that a block has neither key nor socket before
the workspace is initialised and comes from the command line, that no place is left
without a block after that, and that a running authenticator's key index is 1 or 2,
which `group_key` gives and `nas_force_rekey` keeps. That messages make one block only
is inductive because `find_nwcb` looks by the address, and by the name if there is
one, before a block is appended; the proof goes over the command line, the
initialisation, the messages and the signals separately.

**EapdStaProofs**, for any stations, interfaces, hash function and table size, from
`EapdStaAssumption`:

- `EapdImplementsCache`: `Spec => ImplementsCache`, the refinement of `StaCache`;
- `EapdSessionStaysPut`: `[]SessionStaysPut`, if there is no proxy station or every
  other interface is in the list of nas or wps (see section 4).

`EapdInv` says that the chains and the array describe one table: an entry in use is
in its address's chain (`Linked`), a chain holds only entries in use that hash to it
(`Chained`), no address has two (`OneEach`). The operators (`lookup`, `search`,
`add`, `remove`) are characterised first, then their effect on the cache seen
through the mapping (`CacheStamped`, `CacheRemoved`, `CacheSize`); `Outcome` states
what any received frame does to the table, and `OutcomeStep` shows that each such
outcome is a touch, an insertion, a replacement or a stutter of `StaCache`.
`MinIn` (here, in `NasProofs` and in `EapdWkspProofs`) shows that the least recently used entry
exists, by the well-foundedness of the naturals.

**EapdWkspProofs**, for any interfaces, bridges, radios, settings and number of
sockets, from `EapdAssumption`:

- `EapdSocketsCounted`, `EapdEventsCover`: `[]SocketsCounted`, `[]EventsCover`.

`SocketsCounted` says how many apps use a socket, not which. `WkspInv` adds that the
socket a control block points to is one of its own interface (`OwnSocket`), the count
app by app, exact but for `twice` (`Counted`), that at most one socket of an interface
is in use (`OneSocket`: `add_brcm` finds it before it takes a free slot), that what is
still to be opened is listed once and has no socket (`TodoInv`), and that the
interface being added has its control block (`DifInv`). `AcquireKeeps`,
`RefusedKeeps`, `ReleaseKeeps` and `CleanupKeeps` are the ways in which a count moves;
the actions use them. `DelIs` says what `del_brcm` leaves when several users go at
once, `HeldIs` how many of them are an app's. `EventInv` is `EventsCover` in the middle
of `event_init`: the names done and not failed have their events in the mask of a
radio in `seen`, so that no later write of that radio starts from nothing.

**WlconfProofs**, for any configurations, capabilities and cards, any set of ioctls
that may be refused and any number of commands, from `WlconfAssumption` (a
configuration has the variables that are read, one of three widths, and a channel
number of at most 224):

- `WlconfBssSecured`, `WlconfAggregationExclusive`, `WlconfChannelKept`: `[]BssSecured`,
  `[]AggregationExclusive`, `[]ChannelKept`;
- `WlconfChspecRoundTrip`: `[]ChspecRoundTrip`.

`ConfInv` says after which part of "up" the security of each BSS is that of the
configuration being applied (`UpInv`), that it goes on to be that of the last one
applied while nvram changes (`LastInv`), and that AMPDU and AMSDU are not both on
(`AggrInv`), which every part that does not write them keeps and the one that does
restores from whatever the driver had. A part is a partial function, so the proof is an algebra of them: `Spares`
(what a part does not write) and `Gives` (the value it writes, with the precedence of
`@@`) are computed for every part, and `PartSpares` sums up that no later part undoes
an earlier one. `ChanInv` does the same for the band and the chanspec.

`ManualCentred` says what `manual_chanspec` makes of a channel and a word, the wrap
included, `CentreAndBack` that centre and side band give the channel back modulo 256,
and `LegalCtl` that a legal chanspec with nvram's channel, width and word is the one
made: together they are `ChannelKept`. `ChspecRoundTrip` is proved by the width: `SideBand` (`channel_to_sb` inverts
`channel_to_ctl_chan`), `CentresApart` and `OnlyCentre` (no control channel has two
centres of a width, so the first the table offers is the right one), `Trip20`, `Trip40`,
`TripWide` and `Trip8080` (written and read back), `ReadBack` (a string read), `MhzTrip`.

**Model-checked only.** The liveness properties (`PendingResolves`, `ExitCompletes`,
`RunFollows`, `KillReturns`, `WakeReaches`, `HandshakeEnds`, `WaitsEnd`,
`ShutdownCompletes`), since fairness is out of the prover's reach. Every invariant and
every action property of a passing run is proved, except `XoffMirrored`, whose proof
would only say that queue operations that do not overlap do not disturb each other.

## 6. Not modelled

Timers and tasklets: `function` and `data`, the kernel's disable count. Packets:
fragments, checksums, priority and the cb area; the rest of `linux_osl.c` (DMA
maps, static buffers, delay). Net devices: MAC address, statistics, ioctl,
ethtool, which copy values. PCI: access to configuration space. Authenticator:
the supplicant half of `wpa.c` (BCMSUPPL), WDS, the parsing and building of IEs;
code for features not compiled in. 802.1X: attributes by their encoding, the
frames sent, keys for legacy stations. NAS workspace: single nvram variables, the
ioctl wrappers. eapd: the copying of messages. wlconf: the values of variables
that are copied unchanged.

Whole components: inert stubs (constants and a table copied once), libbcmcrypto
(cryptographic primitives and big numbers: the models take keys and signatures as
abstract values), diagnostics (they read and print), `vendor/` (SDK code for
hardware).

## 7. What is left

1. An IE module for `wpa.c` (parse and build as inverse operators), then BCMSUPPL
   against `WpaAuth` in place of the external supplicant.
2. A composition of `EapdSta` and `NasRadius` over the loopback socket between
   the daemons, whose messages may be dropped when its buffer is full.

----------------------------- MODULE Lifetimes -----------------------------
(***************************************************************************)
(* What a driver registers and what must outlive its users.                *)
(*                                                                         *)
(* Thermal zones (compat/backport-4.3.c): the old core calls the           *)
(* operations in a wrapper around the driver's, which is found from        *)
(* dev->ops and lives from the registration to the end of unregister.      *)
(* The core polls from a work item and answers sysfs while the driver      *)
(* registers and unregisters the zone.  Temperatures are int in the driver *)
(* and unsigned long in the core, here of IntBits and 2 * IntBits bits.    *)
(***************************************************************************)
EXTENDS Integers, FiniteSets, Sequences

CONSTANTS IntBits,      \* the width of an int
          DriverOps,    \* the operations that the driver defines
          EmulTemp,     \* the kernel is 3.19 or later
          ZoneUsers     \* the core's work item and tasks that use sysfs

\* The laws of powers that relate the widths, which hold for every IntBits.
ASSUME WidthAssumption ==
    /\ IntBits \in Nat \ {0} /\ 2 ^ (IntBits - 1) \in Nat \ {0}
    /\ 2 ^ IntBits = 2 * 2 ^ (IntBits - 1)
    /\ 2 ^ (2 * IntBits - 1) = 2 ^ IntBits * 2 ^ (IntBits - 1)
    /\ 2 ^ (2 * IntBits) = 2 ^ IntBits * 2 ^ IntBits

VARIABLE zone   \* [pc: where the driver is, wrapper: "none", "live" or "freed", known: the core has the
                \*  zone, ops: the core's table, call: per caller the operation it is in, frees,
                \*  seen: the last temperature, <<the driver's, the core's>>, bad: a call went
                \*  through a wrapper that was not there or to an operation that was not defined]

Ints == -(2 ^ (IntBits - 1)) .. 2 ^ (IntBits - 1) - 1
Longs == 0 .. 2 ^ (2 * IntBits) - 1
\* (unsigned long)_temp and (int)temp
ToLong(i) == i % 2 ^ (2 * IntBits)
ToInt(l) == LET low == l % 2 ^ IntBits IN IF low >= 2 ^ (IntBits - 1) THEN low - 2 ^ IntBits ELSE low

ThermalStart ==
    [pc |-> "new", wrapper |-> "none", known |-> FALSE, ops |-> {}, call |-> [c \in ZoneUsers |-> "none"],
     frees |-> 0, seen |-> <<>>, bad |-> FALSE]
ThermalInit == zone = ThermalStart

\* copy(): the driver's own functions.  assign_ops(): the wrapping ones, where
\* the driver defines the operation.
copy == {"bind", "unbind", "get_mode", "set_mode", "get_trip_type", "get_trend", "notify"}
assign_ops ==
    {"get_temp", "get_trip_temp", "set_trip_temp", "get_trip_hyst", "set_trip_hyst", "get_crit_temp"}
    \cup (IF EmulTemp THEN {"set_emul_temp"} ELSE {})

\* backport_thermal_zone_device_register(): kzalloc() may fail; otherwise the
\* table is filled in and given to the core, which calls it from then on.
backport_thermal_zone_device_register ==
    /\ zone.pc = "new"
    /\ zone' \in {[zone EXCEPT !.pc = "failed"],
                  [zone EXCEPT !.pc = "register", !.wrapper = "live", !.known = TRUE, !.ops = DriverOps \cap (copy \cup assign_ops)]}
\* old_thermal_zone_device_register() returns the zone, or takes it back when no
\* call is under way and fails, with NULL or with an error pointer, which is not
\* tested for: then the wrapper stays.
RegisterReturns ==
    /\ zone.pc = "register"
    /\ \/ zone' = [zone EXCEPT !.pc = "done"]
       \/ /\ \A c \in ZoneUsers : zone.call[c] = "none"
          /\ zone' \in {[zone EXCEPT !.pc = "failed", !.known = FALSE, !.wrapper = "freed", !.frees = @ + 1],
                        [zone EXCEPT !.pc = "error", !.known = FALSE]}

\* The core looks whether the operation is there, and calls it.
Enter(c, op) ==
    /\ zone.known /\ zone.call[c] = "none" /\ op \in zone.ops
    /\ zone' = [zone EXCEPT !.call[c] = op]
\* The driver's function, found from dev->ops, has been called.
Wrapped(c) == [zone EXCEPT !.call[c] = "none", !.bad = @ \/ zone.wrapper # "live" \/ zone.call[c] \notin DriverOps]
\* The driver answers an error, or a temperature which is given to the core.
Converted(c) == zone' \in {Wrapped(c)} \cup {[Wrapped(c) EXCEPT !.seen = <<temp, ToLong(temp)>>] : temp \in Ints}
\* The driver is given what the core was told, and its answer is handed on.
Truncated(c) == zone' \in {[Wrapped(c) EXCEPT !.seen = <<ToInt(temp), temp>>] : temp \in Longs}

backport_thermal_get_temp(c) == zone.call[c] = "get_temp" /\ Converted(c)
backport_thermal_get_trip_temp(c) == zone.call[c] = "get_trip_temp" /\ Converted(c)
backport_thermal_set_trip_temp(c) == zone.call[c] = "set_trip_temp" /\ Truncated(c)
backport_thermal_get_trip_hyst(c) == zone.call[c] = "get_trip_hyst" /\ Converted(c)
backport_thermal_set_trip_hyst(c) == zone.call[c] = "set_trip_hyst" /\ Truncated(c)
backport_thermal_get_crit_temp(c) == zone.call[c] = "get_crit_temp" /\ Converted(c)
backport_thermal_set_emul_temp(c) == zone.call[c] = "set_emul_temp" /\ Truncated(c)
\* A copied operation is the driver's own function.
DriversOwn(c) ==
    /\ zone.call[c] \in copy
    /\ zone' = [zone EXCEPT !.call[c] = "none", !.bad = @ \/ zone.call[c] \notin DriverOps]

\* old_thermal_zone_device_unregister() takes the zone from the core and waits
\* for the calls that are under way; the wrapper is found before it.
UnregisterStart ==
    /\ zone.pc = "done"
    /\ zone' = [zone EXCEPT !.pc = "wait", !.known = FALSE]
backport_thermal_zone_device_unregister ==
    /\ zone.pc = "wait" /\ \A c \in ZoneUsers : zone.call[c] = "none"
    /\ zone' = [zone EXCEPT !.pc = "gone", !.wrapper = "freed", !.frees = @ + 1]

ThermalNext ==
    \/ backport_thermal_zone_device_register \/ RegisterReturns \/ UnregisterStart \/ backport_thermal_zone_device_unregister
    \/ \E c \in ZoneUsers :
          \/ \E op \in zone.ops : Enter(c, op)
          \/ backport_thermal_get_temp(c) \/ backport_thermal_get_trip_temp(c) \/ backport_thermal_set_trip_temp(c)
          \/ backport_thermal_get_trip_hyst(c) \/ backport_thermal_set_trip_hyst(c) \/ backport_thermal_get_crit_temp(c)
          \/ backport_thermal_set_emul_temp(c) \/ DriversOwn(c)

Signed(l) == IF l >= 2 ^ (2 * IntBits - 1) THEN l - 2 ^ (2 * IntBits) ELSE l
(* The core never goes through a wrapper that is not there, nor to an      *)
(* operation that the driver does not have, whatever runs while the zone   *)
(* comes and goes; the wrapper is freed exactly once, when the             *)
(* registration answered NULL too (an error pointer leaks it); and every   *)
(* temperature that an int holds, a negative one too, is the same on both  *)
(* sides, as the signed number that sysfs prints.                          *)
WrapperOutlivesCalls ==
    /\ ~zone.bad
    /\ \A c \in ZoneUsers : zone.call[c] # "none" => zone.wrapper = "live"
    /\ zone.pc = "gone" => zone.wrapper = "freed" /\ zone.frees = 1
    /\ zone.pc = "failed" => zone.wrapper # "live" /\ zone.frees <= 1
    /\ zone.seen # <<>> /\ Signed(zone.seen[2]) \in Ints => Signed(zone.seen[2]) = zone.seen[1]

-----------------------------------------------------------------------------
(* Managed resources: the devm_ functions of compat/compat-3.4.c (register *)
(* maps), compat/compat-3.5.c (GPIOs, devres_release), backport-3.10.c     *)
(* (actions), backport-3.13.c (hwmon) and backport-4.5.c (LED triggers).   *)
(* A driver calls them in any order; when it is detached the driver core   *)
(* releases what is left, the newest first.                                *)
CONSTANTS DevmResources,    \* <<the release function of its nodes, what it releases>>
          MaxDevmCalls

VARIABLE res    \* [list: the device's nodes, oldest first; nodes: nodes allocated; held: the resources that are
                \*  registered; calls; pc; bad: one was released that was not held, or devm_gpio_free() warned]

ResStart == [list |-> <<>>, nodes |-> 0, held |-> {}, calls |-> 0, pc |-> "bound", bad |-> FALSE]
ResInit == res = ResStart

devres_alloc(z) == [z EXCEPT !.nodes = @ + 1]
devres_free(z) == [z EXCEPT !.nodes = @ - 1]
devres_add(z, r) == [z EXCEPT !.list = Append(@, r)]
\* gpio_request(), gpio_request_one(), regmap_init(), led_trigger_register() and
\* hwmon_device_register(): a GPIO and the name of a trigger may be taken.
Registered(z, r) == [z EXCEPT !.held = @ \cup {r}]
MayRegister(r) == r \notin res.held

\* The calls of a driver that is bound.
Driver == res.pc = "bound" /\ res.calls < MaxDevmCalls
Called == [res EXCEPT !.calls = @ + 1]

\* devres_alloc() comes first, and may fail; when the registration fails the node
\* is freed again, otherwise it is added.
NoNode == res' = Called
FreeTheNode == res' = devres_free(devres_alloc(Called))
AddTheNode(r) == res' = devres_add(Registered(devres_alloc(Called), r), r)

devm_gpio_request(r) ==
    /\ Driver /\ r[1] = "devm_gpio_release"
    /\ NoNode \/ FreeTheNode \/ (MayRegister(r) /\ AddTheNode(r))
devm_gpio_request_one(r) ==
    /\ Driver /\ r[1] = "devm_gpio_release"
    /\ NoNode \/ FreeTheNode \/ (MayRegister(r) /\ AddTheNode(r))
\* Each call makes a new map.
devm_regmap_init(r) ==
    /\ Driver /\ r[1] = "devm_regmap_release" /\ MayRegister(r)
    /\ NoNode \/ FreeTheNode \/ AddTheNode(r)
devm_regmap_init_i2c(r) == devm_regmap_init(r)
devm_led_trigger_register(r) ==
    /\ Driver /\ r[1] = "devm_led_trigger_release"
    /\ NoNode \/ FreeTheNode \/ (MayRegister(r) /\ AddTheNode(r))
\* hwmon_device_register() may answer an error pointer, which is written through
\* before the caller can test for it.
hwmon_device_register_with_groups(z, r) == {Registered(z, r), [z EXCEPT !.pc = "oops"]}
\* dev is not NULL: it is the device of the driver.  Each call makes a new device.
devm_hwmon_device_register_with_groups(r) ==
    /\ Driver /\ r[1] = "devm_hwmon_release" /\ MayRegister(r)
    /\ \/ NoNode
       \/ \E z \in hwmon_device_register_with_groups(devres_alloc(Called), r) :
             res' = IF z.pc = "oops" THEN z ELSE devres_add(z, r)
\* Nothing is registered: the action is what will be run.
devm_add_action(r) ==
    /\ Driver /\ r[1] = "devm_action_release" /\ MayRegister(r)
    /\ NoNode \/ AddTheNode(r)

\* devres_remove(): the newest node with this release function for which
\* devm_gpio_match() or the driver's match function answers 1
Newest(r) == {i \in DOMAIN res.list : res.list[i] = r /\ \A j \in DOMAIN res.list : res.list[j] = r => j <= i}
Unlinked(z, i) == [z EXCEPT !.list = [j \in 1 .. Len(@) - 1 |-> IF j < i THEN @[j] ELSE @[j + 1]]]
\* gpio_free(), regmap_exit(), led_trigger_unregister(), hwmon_device_unregister()
\* and the action, of what the node names
Freed(z, r) == [z EXCEPT !.held = @ \ {r}, !.bad = @ \/ r \notin z.held]
devm_gpio_release(z, r) == Freed(z, r)
devm_regmap_release(z, r) == Freed(z, r)
devm_led_trigger_release(z, r) == Freed(z, r)
devm_hwmon_release(z, r) == Freed(z, r)
devm_action_release(z, r) == Freed(z, r)
Release(z, r) ==
    CASE r[1] = "devm_gpio_release" -> devm_gpio_release(z, r)
      [] r[1] = "devm_regmap_release" -> devm_regmap_release(z, r)
      [] r[1] = "devm_led_trigger_release" -> devm_led_trigger_release(z, r)
      [] r[1] = "devm_hwmon_release" -> devm_hwmon_release(z, r)
      [] r[1] = "devm_action_release" -> devm_action_release(z, r)

\* A driver frees a GPIO that it has requested.  devres_destroy() frees the node
\* and does not call the release function; gpio_free() follows in any case.
devm_gpio_free(r) ==
    /\ res.pc = "bound" /\ r[1] = "devm_gpio_release" /\ r \in res.held
    /\ res' = Freed(IF Newest(r) = {} THEN [res EXCEPT !.bad = TRUE]
                    ELSE devres_free(Unlinked(res, CHOOSE i \in Newest(r) : TRUE)), r)
devres_release(r) ==
    /\ res.pc = "bound"
    /\ IF Newest(r) = {} THEN UNCHANGED res                             \* -ENOENT
       ELSE res' = devres_free(Release(Unlinked(res, CHOOSE i \in Newest(r) : TRUE), r))
Detach ==
    /\ res.pc = "bound"
    /\ res' = [res EXCEPT !.pc = "detach"]
devres_release_all ==
    /\ res.pc = "detach"
    /\ res' = IF res.list = <<>> THEN [res EXCEPT !.pc = "gone"]
              ELSE devres_free(Release(Unlinked(res, Len(res.list)), res.list[Len(res.list)]))

ResNext ==
    \/ \E r \in DevmResources :
          \/ devm_gpio_request(r) \/ devm_gpio_request_one(r) \/ devm_regmap_init(r) \/ devm_regmap_init_i2c(r)
          \/ devm_led_trigger_register(r) \/ devm_hwmon_device_register_with_groups(r) \/ devm_add_action(r)
          \/ devm_gpio_free(r) \/ devres_release(r)
    \/ Detach \/ devres_release_all

(* Whatever a driver requested, freed by itself, released early or failed  *)
(* to get, each resource it holds has exactly one node, which names it,    *)
(* and no other nodes are allocated: nothing is released twice, and        *)
(* nothing is left once the driver is gone.                                *)
DevresReleasedOnce ==
    /\ ~res.bad
    /\ res.pc # "oops" =>
          /\ {res.list[i] : i \in DOMAIN res.list} = res.held
          /\ \A i, j \in DOMAIN res.list : res.list[i] = res.list[j] => i = j
          /\ res.nodes = Len(res.list)
    /\ res.pc = "gone" => res.held = {} /\ res.nodes = 0
=============================================================================

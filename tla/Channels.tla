------------------------------ MODULE Channels -----------------------------
(* The channel plan as an allocation chart: the 20 MHz slots of a band, the  *)
(* blocks each bonding width makes of them and the radios on each            *)
(* (_channel_centre_mhz, _bond and channel_plan of shape.py).  A radio is    *)
(* <<AP, channel, width>>.                                                  *)
EXTENDS Findings

\* Channel 0, and on 2.4 GHz a number above 14, is nowhere in the spectrum.
HasCentre(band, channel) == channel > 0 /\ (band \in {"5", "6"} \/ channel \in 1..14)
\* In MHz, of a channel that has one.  The numbers 1 to 13 are in two bands: the
\* band decides where they are.
Centre(band, channel) ==
    CASE band = "6" -> 5950 + channel * 5
      [] band = "5" -> 5000 + channel * 5
      [] band = "2.4" /\ channel = 14 -> 2484
      [] OTHER -> 2412 + (channel - 1) * 5
\* Every channel a band has, permitted or not.
BandChannels(band) ==
    CASE band = "6" -> {1 + 4 * k : k \in 0..58}
      [] band = "5" -> {36 + 4 * k : k \in 0..7} \cup {100 + 4 * k : k \in 0..11} \cup {149 + 4 * k : k \in 0..4}
      [] OTHER -> 1..13
WidthRows(band) ==
    CASE band = "6" -> {20, 40, 80, 160}
      [] band = "5" -> {20, 40, 80}
      [] OTHER -> {20, 40}
BondingWidths == {20, 40, 80, 160, 320}
Dfs(mhz) == mhz \in 5250..5349 \/ mhz \in 5470..5729

\* _bond(): a run goes on while the next slot is exactly 20 MHz away; blocks are
\* cut from its start, and what is left at its end makes none.
Joined(band, slots) ==
    {s \in slots : /\ \E p \in slots : Centre(band, s) - Centre(band, p) = 20
                   /\ ~\E q \in slots : Centre(band, s) - Centre(band, q) \in 1..19}
Starts(band, slots) ==
    LET heads == slots \ Joined(band, slots) IN
    [s \in slots |-> CHOOSE h \in heads : h <= s /\ \A k \in heads : k <= s => k <= h]
MutBond(band, slots, width) ==
    LET start == Starts(band, slots)
        block(s) == {t \in slots : start[t] = start[s] /\ Centre(band, t) - Centre(band, s) \in 0..(width - 1)}
    IN  {b \in {block(s) : s \in slots} : Cardinality(b) = width \div 20}
Bond(band, slots, width) ==
    LET start == Starts(band, slots)
        place(s) == (Centre(band, s) - Centre(band, start[s])) \div width
        block(s) == {t \in slots : start[t] = start[s] /\ place(t) = place(s)}
    IN  {b \in {block(s) : s \in slots} : Cardinality(b) = width \div 20}

\* channel_plan() for one band: the rows drawn, and what is on and off the plan.  A
\* channel that is nowhere has no slot, but stays in the lists.
Slots(band, allowed, radios) ==
    {c \in BandChannels(band) \cup allowed \cup {r[2] : r \in radios} : HasCentre(band, c)}
On(block, width, radios) == {r \in radios : r[3] = width /\ r[2] \in block}
Row(band, width, allowed, radios) ==
    {[channels |-> b, radios |-> On(b, width, radios), allowed |-> b \subseteq allowed,
      offPlan |-> On(b, width, radios) # {} /\ ~(b \subseteq allowed)] :
        b \in Bond(band, Slots(band, allowed, radios), width)}
Chart(band, allowed, radios) ==
    LET drawn == {w \in BondingWidths :
                    /\ w \in WidthRows(band) \cup {r[3] : r \in radios}
                    /\ Row(band, w, allowed, radios) # {}}
    IN  [w \in drawn |-> Row(band, w, allowed, radios)]
DfsChannels(band, allowed, radios) ==
    {c \in Slots(band, allowed, radios) : band = "5" /\ Dfs(Centre(band, c))}
\* Three channels of 20 MHz do not overlap on 2.4 GHz.
CleanChannels == {1, 6, 11}
\* Channel 0 is what an AP reports when it has none.
RadiosOn(band, views) ==
    UNION {{<<v.serial, r.channel, r.width>> : r \in {q \in v.radios : q.band = band /\ q.channel > 0}} : v \in views}
Plan(entry, views) ==
    LET radios == RadiosOn(entry.band, views)
        allowed == entry.allowed \ {0}
        outside(cs) == IF entry.band = "2.4" THEN cs \ CleanChannels ELSE {}
    IN  [band           |-> entry.band,
         chart          |-> Chart(entry.band, allowed, radios),
         offPlan        |-> {r[2] : r \in radios} \ allowed,
         dfs            |-> DfsChannels(entry.band, allowed, radios),
         enabledOutside |-> outside(allowed),
         radiosOutside  |-> outside({r[2] : r \in radios})]
\* One plan for each band the venue's settings name.
ChannelPlan(radio, views) == {Plan(entry, views) : entry \in radio}
\* What is permitted, not what is in use: the next selection draws from it.
ChannelPlan24(plan) ==
    LET band == {p \in plan : p.band = "2.4"} IN
    Judged("24ghz-channel-plan", band = {}, {<<"channel", c>> : c \in UNION {p.enabledOutside : p \in band}}, "critical")
============================================================================

--------------------------- MODULE MCSessionList ---------------------------
(* Sessions of both types, some of one name and some of one file name; one is *)
(* called "Gnome (2)".                                                        *)
EXTENDS SessionList, TLC

Entry(type, dir, file, name) == [type |-> type, dir |-> dir, file |-> file, name |-> name]

GnomeWayland == Entry("wayland", 2, 1, 1)
GnomeClassic == Entry("x11", 2, 2, 1)
GnomeOther == Entry("wayland", 2, 3, 1)
GnomeSecond == Entry("wayland", 2, 5, 2)
PlasmaWayland == Entry("wayland", 2, 4, 3)
PlasmaLocal == Entry("wayland", 1, 4, 3)
PlasmaX11 == Entry("x11", 2, 4, 3)

MCCandidates ==
    {GnomeWayland, GnomeClassic, GnomeOther, GnomeSecond, PlasmaWayland, PlasmaLocal,
     PlasmaX11}
MCSpelling == << <<-3>>, <<-3, 2>>, <<-4>> >>
MCPlasmaFiles == {4}
MCAtFirst == { {PlasmaWayland, GnomeWayland, GnomeOther} }

SameScreens == Permutations(Windows)
=============================================================================

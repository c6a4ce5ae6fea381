------------------------- MODULE MCSidebandDevices --------------------------
EXTENDS SidebandDevices

Case(k, ep, volume, u) ==
    [kind |-> k, descriptor |-> [endpoints |-> ep, volume |-> volume], use |-> u]

Headset == <<"Speaker", "Mic">>
MCCases == {
    Case("Bth", Headset, TRUE, {"Stream"}),
    Case("Bth", Headset, TRUE, {"SpkVol", "Call"}),
    Case("Bth", Headset, FALSE, {"Conn", "Codec"}),
    Case("Bth", Headset, TRUE, {"Nrec", "Fail"}),
    Case("Usb", <<"Mic", "Speaker">>, TRUE, {"Stream"}),
    Case("Usb", <<"Mic", "Speaker">>, TRUE, {"MicVol", "Call", "Fail"}),
    Case("Usb", <<"Speaker">>, TRUE, {"SpkVol", "SpkMute"}),
    Case("Usb", <<"Speaker">>, FALSE, {"Stream"}),
    Case("Usb", <<"Mic", "Mic">>, FALSE, {"Stream"})}

\* A microphone without a speaker is endpoint 0.
MicOnlyCases == {Case("Usb", <<"Mic">>, FALSE, {"Stream"})}
=============================================================================

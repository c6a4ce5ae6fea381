-------------------------- MODULE MCAdapterCommon ---------------------------
EXTENDS AdapterCommon

MCObjects == 1..2
MCCallbacks == 1..2
MCCases == {[kind |-> "Usb", failing |-> "None"], [kind |-> "Usb", failing |-> "Memory"],
            [kind |-> "Bth", failing |-> "Filters"], [kind |-> "Bth", failing |-> "Setup"],
            [kind |-> "Neither", failing |-> "Endpoints"]}
MCRender == <<"Render">>
MCCapture == <<"Capture">>
=============================================================================

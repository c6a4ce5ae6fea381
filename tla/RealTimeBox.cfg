\* Six sends: enough for every box to be replaced in next, installed,
\* collected and freed while another send is under way.
CONSTANTS
  None = None
  MaxSends = 6
SPECIFICATION CollectingSpec
PROPERTIES
  IsMailbox 

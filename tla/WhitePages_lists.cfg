SPECIFICATION Spec
CONSTANTS
  Searches = {"V3", "V5White", "V5White2", "V5Uin", "V5OldUin", "V5Uin2", "V5Email", "V5Email2", "V5Name", "V5Name2", "V5Old",
              "V7White", "V7Details", "V7Email", "V7Email2", "V7WpUin", "V7Uin2", "V7White2", "V7Utf"}
  MaxSearch = 2
  MaxAsked = 2
  MaxHeld = 3
  Crowd = {first, second}
SYMMETRY CrowdSymmetry
CHECK_DEADLOCK FALSE
INVARIANTS EndIsTold FindsThoseAsked AddressStaysHidden

SPECIFICATION Spec
CONSTANTS
  Device = {d1, d2}
  None = None
  Stored = 2
  MaxPrefs = 3
  MaxEdits = 1
  MaxErrors = 1
INVARIANT SettingsSurvive
PROPERTY OneRemains
PROPERTY PreferencesFollow

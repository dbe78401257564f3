\* The object opened and closed again and again, with the device unplugged between
\* any two libusb calls and plugged in again while no handle is open.
CONSTANT MaxReplugs = 3
SPECIFICATION Spec
INVARIANT TypeOK
INVARIANT NothingLeaks
INVARIANT DriverGivenBack
